---- MODULE Spec2Model ----
(***************************************************************************)
(* The Chicago crime dashboard (src/dashboard/app.py): a Streamlit script  *)
(* that is executed top to bottom on every interaction.  One script run    *)
(* loads the dataset through the st.cache_data-wrapped load_data, reads    *)
(* the two sidebar widgets, filters the frame and derives the overview,    *)
(* the yearly counts, the capped map sample and the top-5 crime types.     *)
(*                                                                         *)
(* A frame is a record [columns, rows].  Its rows are held as a sequence   *)
(* of blocks: a block stands for n consecutive rows with the same field    *)
(* values, carrying the index labels idx .. idx+n-1.  A block with n = 1   *)
(* is one row.  Blocks keep frames above MAP_SAMPLE_SIZE rows small.  The  *)
(* result of DataFrame.sample has a third field, sample (see Sample).      *)
(***************************************************************************)
EXTENDS Integers, Sequences, FiniteSets

VARIABLES
    remote,          \* the CSV behind GDRIVE_URL
    file,            \* the file at CSV_PATH
    cache,           \* the st.cache_data entry of load_data
    downloads,       \* number of gdown.download calls made so far
    other,           \* load_data of another process on the same directory
    argsort,         \* the orders the sort has given arrays with equal counts
    widget,          \* the session's widget state (slider, selectbox)
    pc,              \* the position of the current script run
    df,
    year_range,
    selected_crime,
    filtered_df,
    shape,           \* the two st.metric values
    yearly_counts,
    map_df,
    top_crimes,
    first            \* history: the views of the first completed run

vars == <<remote, file, cache, downloads, other, argsort, widget, pc, df,
          year_range, selected_crime, filtered_df, shape, yearly_counts, map_df,
          top_crimes, first>>

(***************************************************************************)
(* Program constants                                                       *)
(***************************************************************************)
MAP_SAMPLE_SIZE == 50000

HEAD_N == 5

random_state == 42

ALL == "All"

\* pandas' missing value (a blank or "NaN" cell of the CSV)
NaN == "NaN"

(***************************************************************************)
(* Bounds of the model                                                     *)
(***************************************************************************)
MaxRows == 3

MaxCount == 2

MaxDownloads == 2

(***************************************************************************)
(* Values that are not there                                               *)
(***************************************************************************)
Absent == [exists |-> FALSE]

NoEntry == [cached |-> FALSE]

Undefined == [undefined |-> TRUE]

NoChoice == [year_range |-> <<>>, selected_crime |-> ""]

(***************************************************************************)
(* Arithmetic helpers                                                      *)
(***************************************************************************)
Min(a, b) == IF a <= b THEN a ELSE b

RECURSIVE SumN(_)
\* number of rows held by a sequence of blocks
SumN(rows) == IF rows = <<>> THEN 0 ELSE Head(rows).n + SumN(Tail(rows))

RECURSIVE SeqOfLen(_, _)
\* all sequences over S of length exactly k
SeqOfLen(S, k) ==
    IF k = 0 THEN {<<>>}
    ELSE {<<x>> \o s : x \in S, s \in SeqOfLen(S, k - 1)}

SeqUpTo(S, k) == UNION {SeqOfLen(S, j) : j \in 1..k}

(***************************************************************************)
(* The CSV file and pd.read_csv                                            *)
(***************************************************************************)
CsvHeader == <<"Year", "Primary Type", "Latitude", "Longitude">>

Line(y, t, lat, lon, n) ==
    [n |-> n, Year |-> y, PrimaryType |-> t, Latitude |-> lat, Longitude |-> lon]

CsvFile(lines) == [exists |-> TRUE, header |-> CsvHeader, lines |-> lines]

RECURSIVE Label(_, _)
\* the RangeIndex read_csv gives the rows: labels 0, 1, 2, ... in file order
Label(lines, next) ==
    IF lines = <<>> THEN <<>>
    ELSE LET l == Head(lines) IN
         <<[idx |-> next, n |-> l.n, Year |-> l.Year, PrimaryType |-> l.PrimaryType,
            Latitude |-> l.Latitude, Longitude |-> l.Longitude]>>
         \o Label(Tail(lines), next + l.n)

ReadCsv(f) == [columns |-> f.header, rows |-> Label(f.lines, 0)]

(***************************************************************************)
(* Frame helpers                                                           *)
(***************************************************************************)
\* whether the frame is the result of DataFrame.sample
Sampled(frame) == "sample" \in DOMAIN frame

NRows(frame) == IF Sampled(frame) THEN frame.sample.size ELSE SumN(frame.rows)

RECURSIVE LabelAt(_, _)
\* the index label of the row at position pos (0-based) of a sequence of blocks
LabelAt(rows, pos) ==
    IF pos < Head(rows).n THEN Head(rows).idx + pos
    ELSE LabelAt(Tail(rows), pos - Head(rows).n)

NCols(frame) == Len(frame.columns)

\* mutant of Shape: a frame without rows has lost its columns
ShapeCollapsed(frame) ==
    <<NRows(frame), IF frame.rows = <<>> THEN 0 ELSE NCols(frame)>>

\* filtered_df.shape: rows and columns
Shape(frame) == <<NRows(frame), NCols(frame)>>

(***************************************************************************)
(* Sidebar: slider bounds and selectbox options                            *)
(***************************************************************************)
YearsOf(frame) == {frame.rows[i].Year : i \in DOMAIN frame.rows}

MinYear(frame) == CHOOSE y \in YearsOf(frame) : \A z \in YearsOf(frame) : y <= z

MaxYear(frame) == CHOOSE y \in YearsOf(frame) : \A z \in YearsOf(frame) : y >= z

\* the category names of the model, in the order sorted() gives strings
TypeOrder == <<"ARSON", "ASSAULT", "BATTERY", "BURGLARY", "NARCOTICS", "THEFT">>

TypesOf(frame) == {frame.rows[i].PrimaryType : i \in DOMAIN frame.rows} \ {NaN}

CrimeTypes(frame) ==
    LET present(t) == t \in TypesOf(frame) IN SelectSeq(TypeOrder, present)

Options(frame) == <<ALL>> \o CrimeTypes(frame)

\* the values the slider can return
SliderValues(frame) ==
    {r \in (MinYear(frame)..MaxYear(frame)) \X (MinYear(frame)..MaxYear(frame)) :
        r[1] <= r[2]}

SliderDefault(frame) == <<MinYear(frame), MaxYear(frame)>>

SelectboxValues(frame) == {Options(frame)[i] : i \in DOMAIN Options(frame)}

SelectboxDefault(frame) == Options(frame)[1]

(***************************************************************************)
(* Apply filters                                                           *)
(***************************************************************************)
\* elementwise ==, where a missing value equals nothing
Eq(a, b) == a # NaN /\ b # NaN /\ a = b

\* mutant of YearMask: the upper end of the range is left out
YearMaskExclusive(frame, yr) ==
    LET keep(b) == b.Year >= yr[1] /\ b.Year < yr[2] IN
    [columns |-> frame.columns, rows |-> SelectSeq(frame.rows, keep)]

YearMask(frame, yr) ==
    LET keep(b) == b.Year >= yr[1] /\ b.Year <= yr[2] IN
    [columns |-> frame.columns, rows |-> SelectSeq(frame.rows, keep)]

TypeMask(frame, crime) ==
    LET keep(b) == Eq(b.PrimaryType, crime) IN
    [columns |-> frame.columns, rows |-> SelectSeq(frame.rows, keep)]

ApplyFilters(frame, yr, crime) ==
    IF crime # ALL THEN TypeMask(YearMask(frame, yr), crime)
    ELSE YearMask(frame, yr)

(***************************************************************************)
(* Temporal analysis: groupby("Year").size().reset_index().sort_values     *)
(***************************************************************************)
RECURSIVE Ascending(_)
\* the keys of a groupby, which sorts them
Ascending(S) ==
    IF S = {} THEN <<>>
    ELSE LET m == CHOOSE y \in S : \A z \in S : y <= z IN
         <<m>> \o Ascending(S \ {m})

\* mutant of GroupSize: the distinct records of the group, not its rows
GroupDistinct(frame, y) ==
    LET in_group(b) == b.Year = y IN Len(SelectSeq(frame.rows, in_group))

\* size() of the group of year y
GroupSize(frame, y) ==
    LET in_group(b) == b.Year = y IN SumN(SelectSeq(frame.rows, in_group))

\* mutant of GroupByYearSize: every year from the first to the last gets an entry
GroupByYearFilled(frame) ==
    LET keys == IF frame.rows = <<>> THEN <<>>
                ELSE Ascending(MinYear(frame)..MaxYear(frame)) IN
    [i \in DOMAIN keys |->
        [Year |-> keys[i],
         CrimeCount |-> LET in_group(b) == b.Year = keys[i] IN
                        SumN(SelectSeq(frame.rows, in_group))]]

GroupByYearSize(frame) ==
    LET keys == Ascending(YearsOf(frame)) IN
    [i \in DOMAIN keys |-> [Year |-> keys[i], CrimeCount |-> GroupSize(frame, keys[i])]]

RECURSIVE InsertByYear(_, _)
InsertByYear(sorted, x) ==
    IF sorted = <<>> THEN <<x>>
    ELSE IF Head(sorted).Year <= x.Year
         THEN <<Head(sorted)>> \o InsertByYear(Tail(sorted), x)
         ELSE <<x>> \o sorted

RECURSIVE SortValuesByYear(_)
SortValuesByYear(rows) ==
    IF rows = <<>> THEN <<>>
    ELSE InsertByYear(SortValuesByYear(SubSeq(rows, 1, Len(rows) - 1)), rows[Len(rows)])

YearlyCounts(frame) ==
    [columns |-> <<"Year", "Crime Count">>,
     rows |-> SortValuesByYear(GroupByYearSize(frame))]

(***************************************************************************)
(* Spatial distribution: rename, dropna, capped sample                     *)
(***************************************************************************)
LatLon(frame) ==
    [columns |-> <<"lat", "lon">>,
     rows |-> [i \in DOMAIN frame.rows |->
                 [idx |-> frame.rows[i].idx, n |-> frame.rows[i].n,
                  lat |-> frame.rows[i].Latitude, lon |-> frame.rows[i].Longitude]]]

\* mutant of DropNa: only the latitude is looked at
DropNaLatitude(frame) ==
    LET complete(b) == b.lat # NaN IN
    [columns |-> frame.columns, rows |-> SelectSeq(frame.rows, complete)]

DropNa(frame) ==
    LET complete(b) == b.lat # NaN /\ b.lon # NaN IN
    [columns |-> frame.columns, rows |-> SelectSeq(frame.rows, complete)]

\* np.random.RandomState(42).permutation(total)[:50000], the positions that
\* DataFrame.sample(50000, random_state=42) takes from a frame of total rows,
\* for the frame lengths of the model
Permutation50000 ==
    <<33553, 9427, 199, 12447, 39489, 42724, 10822, 49498, 4144, 36958, 43106, 38695, 6188, 1414,
      18471, 29282, 15177, 34304, 12609, 12144, 6113, 15908, 821, 15118, 13466, 26497, 42111, 30188,
      37237, 33109, 36480, 24148, 5503, 3918, 38478, 21123, 49717, 42294, 47609, 11076, 41514, 22062,
      9413, 38340, 30263, 41252, 14644, 26335, 28102, 17523, 24712, 40485, 3850, 40040, 15267, 49146,
      30001, 45926, 43824, 17240, 4892, 725, 22949, 34657, 37213, 20304, 15269, 22367, 42684, 46734,
      11732, 18619, 48492, 26803, 44305, 47522, 32207, 2530, 17746, 8270, 15079, 13624, 30638, 30440,
      36056, 42651, 36803, 48224, 29226, 5633, 5987, 48063, 1812, 27578, 16823, 3928, 37286, 25045,
      15727, 29600, 10430, 25768, 29103, 36537, 39328, 35539, 28075, 17840, 27802, 7682, 24279, 33070,
      35557, 37189, 47149, 46915, 9801, 38800, 24669, 44233, 31919, 7134, 33704, 29660, 17893, 22018,
      13538, 43118, 36420, 9405, 13413, 6720, 15601, 44743, 31138, 2729, 38242, 29625, 47894, 42090,
      36399, 6244, 5545, 4064, 12851, 21802, 41163, 6232, 3862, 35094, 40195, 39250, 6217, 36775,
      42976, 48467, 14831, 30092, 8893, 6020, 46088, 15242, 45307, 26550, 6034, 7905, 32225, 6017,
      21879, 2791, 42605, 5823, 15387, 29561, 39475, 292, 16957, 30860, 14073, 21856, 22079, 17023,
      8739, 15825, 2741, 18048, 49936, 17372, 22021, 46364, 23537, 45499, 40185, 9613, 43281, 37891,
      26178, 45892, 20933, 40971, 22224, 24381, 34855, 48577, 38536, 31755, 7753, 46638, 43834, 26235,
      44229, 49596, 18552, 43136, 36672, 43649, 3940, 31496, 26593, 23921, 26402, 45942, 48525, 18315,
      36893, 26695, 42127, 14170, 3732, 7881, 6016, 23029, 35473, 49685, 4817, 41693, 12007, 41327,
      9506, 44798, 34062, 27474, 31143, 21235, 1390, 38249, 37624, 42028, 20834, 14757, 26396, 6808,
      9225, 48394, 5395, 6943, 23870, 32492, 36345, 10755, 12301, 48386, 42745, 29089, 44712, 14343,
      38172, 5071, 24121, 48809, 17820, 1122, 11264, 30579, 45464, 48216, 43044, 15656, 1900, 147,
      29642, 3211, 43850, 2354, 31520, 42583, 43337, 45284, 46956, 48790, 36585, 10465, 7821, 7205,
      6413, 34046, 12728, 6925, 27995, 37612, 39483, 3016, 1640, 8883, 37601, 12969, 23463, 15757,
      44076, 4086, 508, 6354, 29644, 20815, 6234, 31989, 12995, 42501, 38920, 262, 7891, 10527,
      18600, 24114, 33498, 13471, 31725, 23690, 10557, 6556, 45577, 41503, 27872, 10810, 38214, 11730,
      27438, 21779, 34079, 22915, 8085, 43467, 14709, 15466, 37172, 28748, 3104, 708, 38385, 23444,
      26510, 8466, 6230, 46358, 39357, 16386, 34165, 4168, 5803, 12753, 2189, 12187, 31727, 19245,
      37866, 43514, 8718, 28824, 24468, 48252, 7201, 9282, 26820, 27373, 22492, 45637, 45879, 29339,
      46547, 10803, 20964, 30032, 5222, 659, 33245, 5865, 48871, 22985, 28880, 47087, 26527, 9647,
      49545, 32374, 26158, 11711, 27238, 18353, 49514, 21724, 25924, 41389, 4772, 35204, 27878, 5874,
      17804, 34223, 7841, 15922, 28366, 12083, 20033, 14487, 20818, 37517, 44235, 48650, 36235, 21069,
      9523, 32755, 12053, 23593, 8037, 46976, 16399, 45785, 34615, 7624, 13661, 37736, 26541, 13267,
      18082, 48085, 42767, 4070, 16286, 1118, 10074, 11373, 32684, 46433, 25349, 6715, 34567, 1030,
      22753, 11761, 35896, 14492, 25085, 20395, 4813, 8994, 49691, 21374, 30242, 47578, 1164, 24810,
      21109, 3697, 11438, 4469, 9807, 47767, 6748, 49184, 17378, 36884, 13356, 32404, 42454, 46065,
      11538, 2008, 3221, 44996, 18762, 14165, 40683, 25080, 1822, 44661, 6848, 12635, 37668, 6095,
      39248, 10577, 31074, 29112, 10192, 314, 11449, 30745, 29702, 27658, 23685, 28375, 3085, 49371,
      3751, 5048, 29186, 30708, 20146, 32249, 4969, 30525, 18494, 38064, 41836, 32752, 20073, 26273,
      13649, 25533, 17521, 25480, 48234, 48787, 32389, 5086, 17252, 4039, 18386, 4246, 18627, 879,
      23298, 29752, 30172, 28559, 18863, 43343, 34210, 26083, 1941, 22225, 44691, 43239, 23859, 14158,
      33875, 48104, 23449, 6623, 38264, 26241, 47591, 24155, 32058, 9331, 43564, 3493, 4878, 47062,
      998, 37086, 36437, 34749, 28616, 37095, 22810, 7142, 21558, 9935, 4788, 30510, 31189, 20083,
      10823, 672, 15594, 43048, 21911, 11868, 34690, 11321, 44211, 24614, 12005, 3939, 4613, 36759,
      31458, 44952, 4347, 39327, 49922, 22393, 3156, 29917, 37223, 13478, 13871, 38555, 25329, 44684,
      985, 37139, 35033, 23730, 7530, 44394, 32948, 30877, 29930, 23415, 6059, 23679, 15940, 6948,
      30095, 41339, 49598, 33183, 16580, 1388, 21350, 49750, 34431, 24454, 40359, 18577, 33451, 47852,
      4, 29182, 8230, 5946, 7822, 19486, 15384, 41099, 18183, 27161, 11645, 24390, 4850, 47435,
      42206, 45340, 28169, 3419, 42590, 38734, 36719, 29497, 4362, 4028, 3426, 20268, 20057, 11478,
      47944, 29392, 29046, 8564, 39506, 49804, 25449, 34921, 30477, 13519, 34007, 21315, 42424, 48900,
      47632, 49788, 44231, 10723, 13154, 13762, 42811, 30803, 36260, 21436, 25970, 32203, 7180, 41280,
      28086, 13701, 1003, 9058, 44234, 25674, 45055, 35143, 38162, 22476, 23006, 45343, 36127, 49709,
      13098, 37195, 4107, 41335, 25222, 35839, 29718, 46952, 29827, 17542, 24915, 4513, 19936, 46524,
      24510, 27441, 12001, 23353, 27292, 34203, 12147, 15291, 46879, 8690, 12653, 31469, 2954, 3003,
      15813, 6656, 12773, 39530, 34407, 8836, 14617, 22835, 15980, 37915, 1570, 35907, 26089, 20913,
      9957, 18275, 15431, 23493, 15789, 35779, 11980, 44905, 35762, 27092, 46834, 33437, 47380, 1590,
      26755, 21758, 3001, 44111, 43519, 628, 20736, 11902, 6366, 17132, 9478, 41870, 12932, 13641,
      19626, 9951, 28962, 28445, 19698, 44223, 2996, 13637, 22470, 36086, 28917, 17649, 27955, 2854,
      13389, 13048, 22332, 30577, 34734, 19538, 39586, 5572, 47750, 30963, 35495, 20262, 44659, 21745,
      47248, 36227, 28786, 35619, 45999, 49512, 44514, 28683, 31548, 31964, 9433, 22373, 21622, 12451,
      11799, 31388, 20768, 4828, 14589, 1507, 18612, 19302, 38309, 1738, 35875, 47067, 5114, 24906,
      7635, 14398, 36170, 9183, 36796, 37622, 1655, 4326, 27377, 19044, 44328, 9661, 15914, 25466,
      13610, 11670, 1219, 38863, 12557, 39143, 35508, 11852, 13238, 29950, 27984, 22090, 48989, 40639,
      28911, 8570, 38431, 40525, 35549, 29487, 26037, 19370, 44734, 6915, 14998, 16750, 29959, 28856,
      38911, 5843, 15769, 27098, 34726, 20930, 12313, 8293, 49408, 22319, 20486, 22610, 12465, 41512,
      48609, 17672, 8565, 42905, 33294, 12928, 8383, 26546, 21160, 25331, 416, 38313, 40758, 1406,
      27988, 20657, 46981, 29901, 32869, 21613, 18692, 14462, 13529, 29804, 1444, 18218, 45063, 30646,
      49167, 39989, 44755, 48345, 42969, 20419, 10896, 45620, 36349, 19312, 5582, 6682, 30679, 28388,
      6847, 15981, 33675, 47503, 7565, 20728, 7411, 25354, 47738, 9758, 9767, 7133, 28593, 41209,
      23111, 44346, 22809, 20507, 45705, 21761, 21495, 11504, 32456, 44209, 43812, 18264, 41114, 20034,
      10075, 37296, 14276, 35780, 16870, 4229, 49029, 167, 14446, 36716, 36164, 14473, 44426, 46116,
      30625, 9960, 38722, 28344, 16437, 8853, 17363, 4580, 47303, 44679, 15192, 31447, 5525, 39227,
      3467, 15073, 48705, 13609, 18785, 39757, 24216, 33985, 11625, 12136, 12628, 28347, 43511, 5872,
      48243, 33981, 31260, 12292, 42286, 13664, 12950, 31756, 14513, 20457, 41546, 850, 34767, 24912,
      17969, 28376, 9889, 46455, 38499, 16247, 8786, 35429, 19103, 44142, 14786, 18216, 29736, 18194,
      42355, 20185, 38610, 22655, 31785, 36666, 44904, 6079, 15555, 48061, 24407, 44888, 6424, 46202,
      42284, 45698, 41460, 28417, 18150, 30623, 3150, 18184, 26730, 12514, 36055, 40832, 34373, 45452,
      34307, 46161, 37975, 21232, 20326, 27004, 45593, 25847, 7439, 37340, 10026, 20965, 7284, 30274,
      49967, 31158, 15617, 9618, 28872, 37267, 18810, 32953, 29893, 32504, 27731, 31313, 31844, 4273,
      47403, 23361, 2322, 14972, 16451, 14545, 19313, 23670, 37049, 45912, 26319, 33921, 6322, 465,
      3253, 10986, 14750, 14784, 564, 43126, 12724, 33807, 7298, 25388, 19685, 34488, 37827, 3593,
      12400, 29939, 24854, 21775, 38918, 7525, 8901, 24778, 40303, 39665, 31512, 26722, 11904, 32149,
      48831, 21257, 43772, 42846, 32748, 34535, 31920, 34536, 9073, 2338, 17026, 20214, 10992, 16339,
      49126, 42627, 43376, 7270, 26457, 16281, 8726, 24192, 29727, 1566, 43976, 11753, 37022, 34920,
      13365, 37398, 36168, 12425, 644, 1039, 28076, 11214, 332, 6483, 45638, 32732, 8178, 16758,
      47721, 33287, 45682, 47933, 35572, 28809, 20361, 4449, 47534, 18203, 18726, 28131, 12915, 46303,
      39061, 15509, 16421, 2574, 38350, 34002, 10600, 6936, 34096, 38822, 30888, 1498, 29445, 29517,
      32131, 31914, 20537, 31679, 28406, 49270, 47068, 28691, 48329, 41820, 13534, 35458, 4859, 30931,
      14074, 39011, 15444, 42644, 42824, 484, 40139, 35248, 47552, 35751, 31134, 19232, 14475, 29800,
      31801, 24675, 5236, 28201, 8042, 3767, 31209, 22329, 37277, 29832, 7524, 6807, 11098, 4729,
      6769, 23257, 9553, 11910, 25133, 19366, 16002, 1644, 45780, 20134, 28821, 27636, 40657, 3279,
      43953, 39537, 44980, 22665, 8248, 16166, 31708, 37417, 38542, 38705, 40564, 26084, 17004, 42436,
      6705, 10172, 22085, 48743, 5152, 13059, 17721, 42213, 24801, 20155, 5146, 32729, 49252, 49476,
      39442, 43120, 18576, 41584, 35108, 36717, 20616, 17768, 16397, 1232, 40279, 11069, 32393, 9430,
      17863, 34417, 44844, 27616, 13034, 1603, 25036, 43368, 8537, 28601, 30644, 37321, 17284, 8375,
      32582, 49232, 15350, 42885, 33626, 1536, 42911, 21190, 1181, 6583, 11499, 30780, 10126, 13022,
      34212, 48907, 21228, 4455, 8440, 5712, 27662, 19824, 31175, 11709, 15719, 20475, 18424, 9549,
      43965, 31206, 12967, 41470, 46710, 9293, 38335, 18614, 38274, 4519, 22109, 42242, 18222, 45395,
      4884, 4506, 42663, 25811, 11124, 664, 19130, 40410, 18299, 6684, 501, 28098, 44871, 32650,
      41288, 33570, 31892, 49650, 48951, 18087, 11178, 19602, 13251, 16416, 23206, 39880, 39375, 11436,
      45269, 29463, 6736, 20686, 17049, 45511, 4844, 3272, 32713, 33177, 49770, 31807, 33269, 16095,
      8904, 8406, 5012, 4243, 15418, 41123, 29755, 32163, 31979, 36443, 16481, 1114, 14875, 6266,
      39208, 32426, 11917, 23180, 41353, 35148, 30572, 47806, 45285, 42790, 20996, 34298, 22048, 2528,
      30518, 29540, 27440, 43854, 26938, 2984, 14773, 27927, 22425, 26389, 42168, 45902, 19185, 18986,
      29620, 20560, 35149, 24234, 15433, 2863, 23219, 16662, 15767, 14478, 9955, 31402, 21049, 34969,
      24268, 23204, 3377, 1599, 476, 10798, 8639, 22142, 22182, 9932, 21046, 45442, 36231, 43952,
      38326, 38592, 17781, 29875, 31070, 22256, 9459, 10665, 8331, 25865, 48001, 17554, 38886, 28590,
      15302, 27980, 19593, 11839, 19062, 26700, 39868, 18826, 44782, 13473, 1811, 5576, 13604, 45814,
      19287, 45444, 2213, 27630, 43904, 30731, 21255, 22982, 16039, 2672, 29363, 2608, 20496, 47608,
      5159, 39381, 35576, 34234, 32777, 11401, 10504, 33526, 41589, 5754, 44770, 22011, 45388, 20937,
      21934, 8034, 7126, 47615, 47790, 46122, 35846, 34582, 13082, 40646, 21905, 25238, 35975, 6496,
      43693, 33524, 20701, 13312, 10036, 14164, 31154, 24948, 35308, 47763, 32907, 45609, 5253, 19104,
      32805, 40516, 3882, 22988, 31224, 3418, 38929, 23541, 26354, 19771, 10189, 44562, 44560, 44944,
      5195, 37255, 31610, 2191, 31039, 46776, 7785, 46172, 42978, 48126, 3154, 22795, 29895, 16912,
      41042, 42715, 7441, 12848, 12619, 19746, 1422, 26894, 6065, 37616, 37028, 43197, 29228, 29835,
      22685, 22341, 45713, 34759, 5215, 48812, 44917, 39364, 47378, 2899, 13307, 18861, 14160, 15153,
      2561, 7308, 19223, 39543, 33680, 39097, 44840, 44614, 27191, 17476, 14803, 26837, 10262, 44190,
      43278, 30948, 42989, 19709, 28468, 543, 23822, 28066, 34415, 39627, 1163, 29746, 2210, 23001,
      32300, 46320, 28827, 44404, 18198, 1901, 37460, 17692, 28200, 24782, 28968, 38888, 35968, 30875,
      38948, 15359, 42751, 44469, 19714, 11607, 36167, 35571, 30441, 39646, 45246, 10434, 45591, 33540,
      4162, 24261, 27618, 17466, 2441, 6211, 16368, 6896, 27590, 27721, 6400, 46282, 30127, 19027,
      33821, 32756, 47477, 31632, 18558, 16625, 17531, 37647, 33395, 17827, 14427, 1005, 5488, 45615,
      17406, 454, 4244, 39505, 43383, 34292, 41413, 44591, 31953, 29980, 9391, 22338, 11708, 12966,
      45664, 12824, 29861, 36407, 19204, 7776, 35972, 46215, 26542, 26716, 41853, 15469, 27055, 11062,
      12110, 14518, 37532, 33612, 13433, 3053, 17452, 27505, 48930, 20000, 39079, 9273, 10134, 2982,
      31599, 47437, 40223, 5770, 34870, 28999, 16320, 38544, 14815, 17962, 23647, 8479, 22895, 18853,
      39474, 9353, 25042, 46015, 2757, 12214, 23491, 28027, 4128, 30611, 7915, 27687, 25572, 2182,
      29965, 26216, 4822, 2110, 20931, 25270, 176, 5683, 47937, 32858, 28221, 28530, 15849, 23744,
      43283, 20613, 27819, 38872, 27587, 41889, 23872, 10915, 22989, 47401, 20374, 24683, 8053, 1741,
      25116, 24184, 13631, 4303, 21987, 35719, 23460, 10444, 42406, 15709, 33009, 10279, 20945, 5653,
      4816, 36890, 39173, 15056, 13943, 21681, 35499, 11028, 4448, 39838, 42196, 32525, 30352, 27614,
      20949, 45484, 38587, 17249, 3431, 46130, 1792, 4865, 27415, 17914, 37332, 7592, 47134, 44990,
      40268, 5169, 35151, 46635, 32957, 40261, 11807, 42048, 2710, 12883, 46275, 44108, 5227, 34401,
      46086, 5186, 13709, 18172, 39229, 2579, 35600, 38532, 29484, 25442, 46697, 1584, 47459, 18329,
      8188, 8931, 33140, 21588, 30813, 45260, 4867, 9100, 21006, 42995, 28563, 41965, 21028, 21397,
      30758, 26869, 1704, 41473, 49578, 47742, 11568, 31448, 30878, 34154, 8407, 45876, 10016, 11044,
      28437, 27224, 25453, 4421, 1276, 27243, 330, 20294, 2432, 6347, 31809, 23468, 17391, 36044,
      39580, 20255, 26719, 9725, 42725, 14845, 4883, 40465, 41336, 9798, 16429, 4264, 28501, 48836,
      19785, 15631, 11901, 16112, 3715, 43725, 1180, 6067, 36253, 41883, 949, 36502, 8200, 49180,
      48904, 48861, 42699, 44390, 12146, 29208, 37981, 20969, 7990, 4672, 4459, 25593, 11113, 34680,
      15868, 31413, 13620, 4155, 27884, 16929, 26669, 46226, 29242, 27539, 25149, 20794, 18684, 44361,
      13326, 34829, 29952, 22771, 16947, 7708, 21155, 2360, 49375, 33641, 34694, 49723, 36525, 12006,
      31489, 39707, 17008, 26175, 30833, 21444, 43179, 29987, 30721, 24787, 44491, 44778, 32429, 10989,
      22847, 6676, 14528, 15809, 3502, 11948, 11209, 4108, 5035, 43562, 18272, 47262, 2522, 23166,
      24676, 38153, 7168, 12365, 21082, 43741, 39135, 33582, 31702, 38237, 22358, 48246, 5929, 38282,
      40523, 14749, 11034, 25200, 29458, 1175, 38937, 48125, 47642, 6049, 35664, 38144, 33825, 25386,
      41041, 24932, 9763, 36881, 3776, 10003, 13033, 19663, 3037, 46901, 7063, 4233, 27604, 19646,
      4982, 21176, 48271, 469, 12859, 33449, 18378, 25309, 24708, 29070, 4775, 25024, 33432, 17075,
      18054, 11668, 1097, 5370, 39072, 30513, 1282, 37580, 41091, 12581, 39515, 48074, 15477, 5522,
      23811, 48466, 33046, 38195, 21193, 45271, 10741, 48559, 25841, 43816, 842, 10054, 2059, 6204,
      6175, 7365, 38301, 3919, 32633, 12551, 40576, 33748, 9531, 7220, 21671, 16781, 41581, 49612,
      10389, 29212, 17176, 46988, 47498, 1710, 47541, 46407, 26941, 33611, 28107, 31398, 46192, 3168,
      48315, 25984, 5046, 15712, 3210, 45042, 14085, 14764, 44102, 19413, 4348, 12725, 34024, 41113,
      37931, 16253, 42984, 27291, 13912, 26574, 43740, 15673, 3396, 11070, 45455, 9887, 22903, 16828,
      20251, 43249, 33083, 48498, 13247, 18097, 20565, 35974, 32459, 7272, 18874, 17624, 37773, 4829,
      4855, 33173, 21212, 16754, 32891, 27947, 15335, 46683, 16162, 24449, 3570, 29637, 42039, 16125,
      7949, 44804, 34330, 2493, 47486, 13150, 33198, 17031, 39393, 47114, 14595, 33942, 15500, 11165,
      48146, 29645, 36288, 33599, 18442, 6923, 36511, 46481, 8492, 29050, 19647, 11474, 25787, 10271,
      19304, 28153, 27705, 47008, 37284, 40351, 23678, 1863, 39934, 2593, 11037, 33899, 4976, 13632,
      20638, 33647, 36557, 22309, 26376, 41376, 28503, 34232, 3698, 26139, 42602, 29490, 45839, 14736,
      35955, 3519, 29413, 43374, 4962, 47215, 17770, 16071, 45842, 3885, 21824, 15724, 2004, 6056,
      22292, 3136, 21728, 13097, 34427, 44343, 49721, 44726, 4315, 11433, 33238, 47412, 29366, 31023,
      17621, 13352, 25260, 4805, 45636, 29468, 30896, 22883, 42328, 28814, 34796, 48680, 16522, 34410,
      30293, 16861, 37199, 37714, 26361, 23392, 40906, 36273, 34975, 48571, 22636, 38160, 32790, 34515,
      341, 28851, 15639, 7481, 22172, 16235, 34439, 9303, 31763, 4408, 15127, 20465, 15178, 16048,
      22269, 48938, 19681, 18683, 35535, 16107, 13759, 24493, 33814, 38796, 9828, 37810, 45297, 36296,
      19138, 28889, 11429, 8473, 31428, 25229, 48133, 5343, 6429, 10098, 32319, 19891, 7468, 34029,
      38247, 9620, 24560, 5297, 10439, 18110, 9561, 48360, 7456, 8663, 43405, 13506, 6890, 46830,
      46703, 39126, 38472, 6193, 33180, 4252, 15953, 30520, 22807, 21583, 2418, 43473, 24109, 36560,
      31405, 29905, 1954, 35071, 45790, 10657, 3025, 27391, 13970, 2116, 44218, 18633, 7920, 31122,
      7342, 22167, 14131, 2868, 3653, 21994, 22371, 26473, 9736, 49793, 26600, 25541, 38905, 15085,
      40412, 18278, 18289, 2969, 28556, 6835, 45467, 13579, 32128, 23443, 144, 29706, 9877, 17581,
      33251, 16344, 24103, 47234, 4622, 40552, 1253, 13075, 28364, 7143, 17838, 31492, 30168, 41840,
      40084, 12800, 6194, 13685, 23379, 27063, 34162, 45520, 16542, 14563, 26765, 49615, 10853, 29180,
      39362, 38959, 12371, 44509, 28232, 12123, 17311, 33817, 3617, 1121, 48745, 26185, 31588, 43813,
      24803, 28452, 35351, 32605, 31577, 32897, 21748, 10210, 30478, 24526, 39453, 48002, 21365, 22815,
      33753, 41619, 20330, 27651, 16033, 45693, 43867, 7879, 2084, 36920, 12687, 13321, 17832, 32610,
      46168, 45417, 4035, 23656, 19012, 44033, 399, 28160, 17436, 41095, 22494, 30822, 20050, 40022,
      12759, 31166, 6467, 32237, 1372, 38358, 926, 35817, 10115, 8318, 26072, 29729, 9625, 3785,
      20885, 6904, 6478, 27148, 33657, 38899, 26816, 35546, 41571, 24447, 30245, 22557, 45578, 17735,
      25980, 5864, 6529, 10536, 28212, 7360, 38902, 12510, 10453, 18377, 20737, 43335, 8393, 21102,
      1162, 2531, 7844, 26047, 39016, 41842, 12702, 33512, 19802, 5751, 34355, 30769, 36492, 25057,
      15821, 28283, 13650, 40570, 17172, 12283, 35460, 34059, 35235, 26633, 24470, 18415, 18954, 37193,
      20718, 37400, 3263, 46179, 31125, 42232, 43713, 7024, 17498, 29712, 32787, 15107, 2476, 48077,
      11348, 29034, 1911, 27727, 36499, 42093, 49530, 27311, 14598, 12074, 41320, 28987, 2098, 19533,
      34939, 8023, 13253, 1985, 26011, 3335, 26620, 11744, 18476, 47611, 25536, 20864, 43446, 8006,
      29076, 43720, 23000, 28193, 21512, 21024, 15294, 11661, 31718, 42115, 28241, 43151, 9694, 25565,
      34444, 14109, 12958, 23314, 17926, 20413, 22458, 44362, 5676, 43366, 33871, 609, 30920, 25259,
      30393, 38325, 44288, 48464, 9289, 26406, 28058, 22295, 22051, 44451, 12512, 48575, 18775, 15714,
      7976, 33175, 47634, 8344, 30589, 11897, 25495, 22321, 17679, 12469, 4657, 48393, 1687, 22181,
      12791, 8040, 31061, 35026, 14829, 38848, 20062, 28277, 34547, 10904, 19220, 24429, 47349, 18111,
      3541, 25562, 6759, 33829, 21275, 38232, 14350, 1226, 9159, 25665, 20544, 4119, 277, 19036,
      20046, 38648, 37312, 853, 43086, 46493, 19535, 16463, 36746, 29860, 884, 47842, 21461, 9403,
      33415, 40743, 23976, 28139, 46078, 20717, 27647, 29970, 24242, 3035, 6976, 31765, 23701, 22077,
      19235, 19892, 36414, 43915, 14697, 28275, 49861, 49924, 49959, 10092, 47576, 34858, 12805, 12422,
      28728, 41923, 28236, 23310, 27811, 14711, 18794, 6888, 771, 2767, 33762, 43246, 32832, 13062,
      44156, 34736, 24513, 46125, 38234, 25209, 26934, 21362, 32640, 46345, 22572, 31854, 5223, 13179,
      17123, 20089, 5966, 36447, 646, 3780, 20231, 19263, 24761, 17160, 30809, 19735, 47428, 38059,
      429, 9911, 4016, 2975, 22227, 46022, 31427, 38533, 32233, 37010, 18750, 46248, 8409, 10406,
      23955, 23041, 19833, 48427, 7268, 44593, 1138, 4985, 2885, 48413, 14977, 38403, 23791, 10993,
      44421, 26581, 3120, 39202, 37447, 4057, 31985, 49291, 18869, 27739, 7070, 33874, 29558, 17583,
      43156, 18583, 13458, 17724, 4569, 31513, 21496, 18175, 6329, 14874, 40462, 47441, 39230, 30146,
      49346, 198, 1448, 17757, 44011, 10268, 32008, 20833, 34626, 8659, 10045, 16379, 17244, 31570,
      19723, 40336, 12618, 5746, 44070, 43134, 23575, 47223, 25326, 44216, 19819, 47713, 45673, 41827,
      3840, 34965, 5645, 33931, 25315, 23046, 9672, 45833, 9242, 35274, 32446, 681, 45179, 46939,
      41768, 8812, 40264, 25266, 49379, 28591, 12758, 8474, 24802, 13505, 18215, 44984, 6224, 33322,
      32156, 45143, 10460, 34110, 36900, 36462, 585, 26501, 39109, 29316, 23208, 43785, 23584, 47910,
      40064, 7650, 7584, 40551, 36927, 13373, 13484, 24492, 2463, 9829, 31684, 37428, 20339, 48859,
      44240, 47407, 27506, 17552, 23514, 26006, 46859, 29596, 18046, 44418, 31562, 34962, 7055, 7646,
      25770, 43935, 27719, 28448, 48430, 24384, 38939, 36465, 10927, 42423, 12894, 41067, 26106, 45574,
      3290, 34117, 11427, 15054, 19474, 3494, 5264, 12377, 20366, 45677, 40829, 6916, 18027, 37745,
      21328, 20279, 41885, 16545, 14067, 20630, 21239, 27152, 26634, 10821, 19015, 14759, 18119, 42881,
      36207, 49474, 1824, 46194, 25434, 40078, 8909, 20853, 27450, 31937, 6946, 9685, 34334, 46758,
      28474, 18668, 37156, 3564, 28540, 18049, 28079, 28532, 21420, 322, 47970, 19345, 14804, 45991,
      45619, 49165, 28279, 38831, 29276, 27488, 43005, 10496, 42662, 5528, 35387, 31208, 40987, 21332,
      3402, 7780, 27135, 45929, 25715, 22229, 482, 28661, 14181, 39684, 8790, 38978, 40401, 2874,
      45435, 22603, 37027, 44393, 4215, 33067, 13591, 44340, 38869, 46868, 373, 48581, 39616, 27088,
      32024, 21634, 4579, 39392, 17782, 40302, 19516, 28309, 12617, 35498, 35884, 31744, 48720, 13911,
      7094, 15400, 42129, 29297, 33129, 29116, 7687, 45114, 62, 25109, 12024, 37595, 7892, 20265,
      49706, 47292, 22681, 29909, 2385, 25884, 3184, 21752, 8358, 4995, 19990, 37218, 45047, 13734,
      6111, 5373, 42274, 12431, 7918, 35811, 37630, 12140, 39634, 9645, 43841, 36448, 25313, 46535,
      5304, 38769, 22445, 10324, 37746, 41364, 3180, 29109, 26629, 17020, 4614, 30558, 428, 45144,
      36165, 46191, 43338, 21861, 24211, 10365, 39272, 33412, 20849, 16842, 9998, 23186, 7497, 5459,
      4573, 8171, 33839, 23588, 41912, 7294, 25913, 16357, 36329, 46762, 13263, 33510, 44105, 11192,
      27638, 35305, 17714, 32663, 13167, 25290, 27401, 12457, 2185, 37087, 21358, 40553, 25253, 2494,
      11032, 13611, 26444, 41257, 11762, 5235, 5763, 19732, 39017, 36078, 44767, 28280, 46354, 42758,
      48920, 47078, 18151, 41440, 18346, 21522, 39092, 29608, 19136, 9384, 21112, 43030, 16158, 24592,
      27461, 10166, 34915, 34137, 31230, 44957, 3030, 29206, 31460, 40776, 43705, 28614, 30870, 9068,
      22921, 36211, 30420, 3227, 44489, 25419, 32343, 30372, 18379, 35715, 43931, 5707, 49577, 26772,
      37654, 385, 39190, 3375, 29724, 18892, 30061, 3863, 43115, 7209, 3366, 14441, 15970, 45342,
      6075, 32810, 47848, 38201, 32661, 2095, 28780, 42962, 31465, 3758, 30136, 13342, 37833, 16918,
      26792, 28791, 46385, 47794, 13674, 19393, 16765, 11313, 46456, 22608, 8920, 1281, 46449, 33863,
      9064, 39821, 23077, 24065, 914, 22125, 23364, 31431, 26749, 33779, 41927, 17471, 19315, 44428,
      32656, 36917, 898, 23558, 46237, 40170, 23307, 17628, 17518, 971, 35852, 12130, 11461, 18694,
      44135, 11048, 18126, 6526, 35962, 2132, 32290, 11224, 49690, 2372, 18999, 6484, 18253, 38923,
      8615, 28322, 36523, 8578, 42513, 8020, 47344, 39100, 38366, 1012, 2247, 21317, 44842, 33283,
      37638, 41586, 49128, 48362, 44019, 20495, 5567, 11832, 38330, 32211, 25615, 44931, 231, 38514,
      41663, 5977, 6648, 40879, 37518, 17609, 28059, 12257, 23745, 21356, 2893, 24414, 14229, 23399,
      2638, 47261, 10151, 45310, 14417, 39356, 30250, 28592, 48388, 21210, 42732, 10970, 31537, 26533,
      29311, 36835, 5931, 3804, 30202, 33211, 48169, 2980, 16785, 25497, 3737, 31466, 21680, 47029,
      20992, 23409, 4377, 24847, 45655, 42860, 43941, 3095, 36267, 14277, 11591, 44475, 46565, 43710,
      38691, 27024, 38844, 30141, 8394, 4605, 33051, 35009, 16695, 24587, 18983, 5715, 34075, 41051,
      22739, 32476, 42198, 23865, 48815, 42084, 1876, 7789, 4305, 625, 39755, 15000, 15644, 30602,
      29897, 34419, 41100, 14032, 19140, 35630, 48654, 35022, 46126, 5610, 39231, 10644, 49988, 19371,
      35075, 45171, 4384, 14458, 16476, 12761, 24554, 20453, 480, 37868, 42001, 42703, 38465, 12980,
      9733, 26182, 28680, 15189, 45946, 36079, 31255, 47126, 26492, 47922, 7327, 273, 29650, 32906,
      15039, 23848, 32853, 15108, 16159, 42474, 2174, 43098, 26677, 20124, 46574, 38341, 31063, 4351,
      15298, 758, 25812, 23972, 22140, 7514, 1818, 13819, 46525, 42047, 27011, 47047, 14363, 13904,
      36895, 38797, 44981, 32836, 44958, 29502, 34118, 25430, 25376, 48786, 40184, 17593, 22678, 15239,
      8404, 11396, 38654, 20500, 17066, 48545, 7801, 44527, 46621, 12230, 26506, 40432, 41026, 5266,
      35759, 43567, 351, 5011, 6576, 3222, 1576, 3661, 15044, 16234, 40296, 17546, 22882, 3539,
      11042, 21163, 10824, 26491, 13586, 31849, 18124, 3604, 44359, 25608, 35065, 38938, 13486, 49620,
      14748, 41951, 37350, 39608, 35202, 40378, 46314, 38373, 26978, 33252, 41289, 44003, 35415, 32840,
      6965, 39300, 30103, 6788, 29666, 35220, 18593, 35448, 6995, 9165, 9189, 36615, 43158, 16780,
      13671, 49473, 17419, 5034, 2902, 11476, 2434, 36500, 1853, 19473, 30045, 37817, 3829, 27074,
      21051, 34499, 558, 26895, 39389, 11838, 46259, 23812, 29539, 9666, 21111, 12814, 40445, 8435,
      9985, 12486, 43561, 103, 48961, 36813, 26137, 33088, 16341, 40020, 39721, 14597, 1480, 16690,
      19635, 3792, 4980, 19666, 24640, 7503, 12575, 7122, 38789, 1866, 13203, 24081, 33384, 848,
      14049, 47307, 45633, 8658, 7515, 702, 31986, 28487, 47471, 42184, 25604, 35674, 4669, 28048,
      35032, 18239, 26403, 11208, 31333, 43185, 48346, 776, 20771, 33264, 19214, 11797, 8665, 15013,
      14224, 12868, 15045, 7836, 16089, 48552, 6100, 2055, 745, 13236, 13197, 49957, 20628, 2851,
      39857, 20164, 19150, 46519, 10746, 28150, 3036, 7460, 24113, 22642, 1682, 4877, 13723, 10901,
      49635, 21739, 5428, 15888, 29364, 36449, 41757, 7982, 8180, 23316, 25891, 20489, 9606, 31687,
      20973, 14960, 4831, 15880, 14261, 34197, 1000, 13114, 18872, 30970, 3986, 12789, 35642, 13695,
      13475, 11749, 10592, 36535, 19271, 40739, 45396, 11872, 7478, 21081, 13293, 24023, 23125, 11660,
      38198, 6750, 48818, 7916, 16604, 5367, 3444, 8569, 8929, 21907, 3931, 5348, 28244, 32604,
      11535, 17121, 46473, 22348, 26260, 16135, 10500, 18233, 13295, 28714, 27660, 13268, 47919, 34428,
      3265, 45850, 15004, 22396, 34429, 24212, 44042, 6522, 28632, 47703, 20211, 31722, 4894, 15191,
      18209, 39808, 30545, 7667, 28073, 34014, 31118, 460, 28186, 25680, 11680, 12947, 14237, 7686,
      46604, 23442, 9931, 32938, 28216, 8454, 5841, 13375, 37379, 2135, 7817, 1377, 10175, 4689,
      28426, 46127, 20184, 49385, 40577, 11813, 27520, 42504, 24353, 22294, 47724, 31461, 31869, 39163,
      47876, 4256, 5187, 29760, 4740, 47835, 6013, 16055, 3700, 216, 40468, 23894, 30500, 27237,
      13883, 21547, 22510, 11035, 20691, 35720, 14504, 7893, 27679, 5908, 4504, 9086, 2328, 44441,
      32783, 47359, 46674, 15854, 49479, 42204, 12957, 35129, 15146, 31307, 7414, 6308, 27367, 9846,
      13370, 45333, 33176, 32129, 17212, 24294, 13744, 2436, 22105, 47785, 34894, 20410, 32236, 30912,
      48463, 32884, 42109, 39509, 41121, 29710, 33116, 9349, 20840, 40353, 17239, 48605, 16176, 12831,
      38588, 48800, 45871, 48921, 7200, 36989, 45962, 890, 48014, 7890, 20399, 16227, 5687, 31162,
      43028, 48148, 45401, 41756, 8528, 40908, 651, 13906, 23231, 23343, 27497, 5010, 18148, 36687,
      28576, 34713, 33391, 49767, 46159, 35267, 2554, 3714, 16563, 24880, 21279, 38941, 12387, 33416,
      11808, 25953, 19321, 43436, 26428, 34882, 10009, 27090, 9125, 37455, 48232, 29213, 8517, 17713,
      22946, 37538, 8274, 34448, 48376, 49913, 30338, 29618, 4826, 32085, 10171, 10783, 17690, 45904,
      39303, 33543, 21674, 15219, 7511, 19434, 22922, 38109, 46998, 40520, 36346, 2514, 19718, 42953,
      17141, 35991, 7677, 8442, 48273, 43493, 48639, 43502, 13791, 8617, 4248, 21720, 26308, 2515,
      2726, 49876, 22550, 25561, 46563, 6585, 40732, 24851, 29428, 31803, 43730, 25704, 30342, 21073,
      16812, 46204, 32291, 35505, 29983, 35083, 14285, 31623, 37326, 6793, 2900, 9743, 15837, 42211,
      4704, 27325, 29519, 12524, 936, 38817, 40298, 30142, 32193, 40974, 5748, 21048, 21973, 14554,
      20562, 48808, 27159, 31827, 12622, 5921, 1720, 581, 24465, 6143, 47120, 12662, 6361, 42201,
      34561, 29123, 20305, 34088, 10254, 46735, 28681, 46606, 7499, 24975, 16000, 40862, 23013, 770,
      4091, 47648, 30053, 48858, 19580, 30107, 42970, 43109, 35980, 16313, 38042, 45022, 14356, 297,
      33784, 34173, 23494, 43719, 40396, 21600, 12395, 34845, 13995, 45699, 1278, 42635, 4724, 32825,
      26812, 20222, 42964, 27613, 19361, 18370, 46231, 45629, 37760, 43166, 28121, 3308, 17681, 29102,
      12104, 17486, 38603, 38485, 34691, 14061, 31026, 9925, 3401, 43023, 15296, 18674, 47623, 23614,
      26362, 37636, 30887, 46315, 9381, 22702, 43632, 27561, 33624, 47596, 21935, 18169, 29419, 36616,
      10593, 37423, 16674, 21393, 44422, 6293, 37181, 18587, 3425, 3230, 41878, 14463, 15353, 42730,
      17786, 46330, 16392, 16852, 34834, 32529, 43523, 41557, 16581, 17555, 30229, 4130, 38306, 26808,
      37061, 17362, 48397, 1077, 47206, 41033, 5501, 4413, 23802, 34528, 21244, 3000, 39703, 47444,
      4759, 49276, 44282, 16539, 43800, 25151, 8322, 38150, 47904, 14946, 48620, 43422, 9468, 5308,
      24988, 34482, 31680, 4475, 23090, 12261, 2417, 10214, 42119, 6985, 4120, 34896, 26495, 49744,
      5794, 32817, 38894, 24905, 10163, 2829, 46556, 37519, 13826, 30760, 32271, 23115, 22683, 28907,
      441, 35276, 38708, 34543, 15364, 33648, 195, 2705, 16460, 42389, 32667, 31902, 24319, 27515,
      39162, 16914, 40617, 44155, 32384, 29601, 34541, 6653, 46468, 1470, 10907, 41441, 43321, 6392,
      28953, 16656, 17922, 19588, 32631, 22897, 6340, 23905, 38422, 18916, 25895, 12955, 29065, 45251,
      35182, 31470, 1157, 18107, 28858, 16051, 17287, 29982, 578, 5692, 25472, 40199, 8960, 3858,
      32561, 38792, 8445, 7772, 10869, 46360, 48806, 29174, 41828, 29273, 16739, 43132, 26968, 21535,
      30281, 29013, 43840, 48722, 32477, 15041, 2740, 48417, 6128, 11575, 26970, 48528, 25631, 4034,
      16729, 26041, 42858, 41754, 29995, 19792, 40178, 20210, 13964, 27919, 18137, 30113, 37767, 49316,
      24249, 17353, 2081, 41681, 43416, 30365, 41711, 40155, 42810, 30364, 42192, 6850, 12065, 11220,
      15944, 523, 38823, 40945, 35689, 30837, 11987, 38202, 38003, 18480, 44013, 30036, 46035, 36924,
      29624, 30693, 36550, 24993, 47109, 23986, 3068, 40642, 40698, 23263, 44116, 33421, 38747, 27449,
      5396, 19168, 3759, 15703, 18829, 43811, 19224, 25162, 29247, 5491, 49787, 30973, 48781, 17196,
      36608, 47878, 25284, 23074, 42737, 10742, 30601, 38275, 32738, 44093, 41104, 1182, 34647, 12240,
      21564, 48811, 38782, 41808, 17095, 30582, 16749, 27752, 16776, 5711, 36440, 48137, 6201, 31965,
      42772, 3461, 22960, 33520, 32338, 41590, 35238, 2527, 18881, 1484, 29708, 3270, 3610, 11846,
      24066, 8760, 35552, 10369, 2464, 48582, 28499, 22039, 42171, 35906, 9389, 28175, 46339, 11163,
      48266, 46900, 10758, 45754, 37078, 23502, 38332, 38057, 42243, 28617, 37794, 5564, 5907, 31304,
      23181, 37739, 41690, 23372, 33789, 7442, 7474, 24963, 41065, 49171, 35527, 20376, 46010, 41547,
      26458, 20873, 20483, 23498, 640, 44855, 14761, 10445, 44157, 2875, 47177, 31531, 25678, 9848,
      10598, 4524, 46200, 48139, 6515, 25694, 1508, 42357, 12285, 11015, 46615, 27600, 40771, 46864,
      29801, 18875, 12793, 5739, 736, 3607, 25429, 30965, 19706, 19970, 17457, 24792, 46483, 49631,
      25083, 2624, 6954, 28739, 27656, 20367, 23477, 27623, 19339, 21492, 37082, 37057, 11546, 13095,
      42857, 29728, 9987, 8477, 30169, 18972, 39470, 10734, 2211, 38741, 25387, 27451, 31210, 32077,
      18304, 36450, 13670, 8193, 3288, 47082, 31429, 48363, 31992, 36436, 21628, 38020, 26164, 12532,
      407, 48607, 26366, 10743, 33089, 10157, 17164, 43183, 2915, 27175, 17897, 22472, 5228, 44790,
      343, 49310, 48979, 14584, 20216, 23413, 37273, 47946, 42105, 7237, 31866, 39265, 45051, 47974,
      27393, 22776, 17377, 26294, 7251, 25224, 26540, 7431, 1048, 44159, 9118, 32804, 45949, 34107,
      19721, 38370, 42959, 12556, 36316, 27204, 39089, 8191, 14279, 38463, 7672, 26391, 39900, 36778,
      43652, 17759, 48383, 862, 19261, 45075, 19557, 23428, 19272, 40676, 5568, 19284, 17874, 3161,
      24545, 49217, 31791, 1131, 24564, 31148, 31491, 37516, 43063, 9401, 35419, 7340, 24869, 48943,
      27524, 28195, 15951, 25030, 23400, 22730, 29415, 39273, 49188, 34883, 18967, 47710, 31660, 26753,
      36417, 40652, 2742, 3049, 49, 39859, 8745, 4745, 9194, 7613, 46147, 20015, 44978, 15170,
      17972, 22512, 24393, 28354, 7003, 35263, 39995, 173, 19901, 46793, 13013, 34513, 15800, 45750,
      419, 16295, 29307, 22177, 16751, 18698, 39387, 32976, 5836, 39624, 30504, 40915, 40653, 24105,
      30534, 28396, 3243, 800, 34940, 40231, 10413, 17971, 44276, 42493, 23553, 32691, 43113, 10945,
      19822, 44729, 38933, 17227, 26565, 7560, 41019, 3663, 28956, 40154, 41552, 6365, 3707, 35385,
      27612, 14217, 71, 4280, 3555, 8468, 44320, 21920, 9598, 33698, 11014, 28713, 46973, 29678,
      45563, 31178, 21609, 25408, 43344, 49196, 26733, 48428, 18686, 16649, 24775, 24569, 42825, 25403,
      24602, 49697, 13847, 49246, 42942, 39967, 28980, 2799, 30334, 5275, 10820, 31365, 24808, 44596,
      21154, 45054, 21131, 11601, 3788, 22892, 33901, 13618, 26683, 46296, 18496, 48625, 36287, 45451,
      29833, 1668, 8247, 23292, 15798, 31328, 21043, 29167, 48245, 34522, 32503, 32999, 49895, 26876,
      14499, 36251, 29574, 39973, 22952, 44578, 3486, 48172, 48696, 20705, 354, 7852, 40565, 10064,
      30768, 46182, 30621, 25406, 17104, 10476, 38294, 40254, 7379, 19496, 39588, 48062, 48295, 22264,
      37821, 44338, 2652, 36786, 32690, 39699, 49031, 14169, 9400, 38877, 22779, 29903, 21296, 28773,
      5045, 25598, 15158, 42212, 27619, 38002, 22654, 24317, 38925, 11729, 36599, 37315, 40983, 26822,
      44654, 28580, 34976, 22651, 41112, 19151, 41977, 2000, 18219, 36112, 46234, 29244, 25673, 41396,
      14402, 45849, 21377, 21538, 9036, 44531, 15075, 26330, 9986, 49731, 19499, 41632, 38805, 34613,
      42775, 6268, 34191, 15207, 46263, 38381, 6567, 12994, 35406, 45301, 27249, 49644, 37083, 14128,
      22016, 5089, 26768, 7615, 32447, 43832, 15286, 40804, 24784, 26357, 13290, 15134, 11827, 14403,
      33492, 9254, 37765, 1487, 22898, 23327, 21419, 29045, 4336, 26314, 15452, 22532, 15157, 17990,
      48344, 35316, 29156, 12362, 10259, 33011, 13700, 45947, 37452, 1703, 11327, 16731, 3994, 25485,
      5265, 7743, 3912, 38490, 7984, 15529, 930, 39238, 13889, 37007, 30385, 45237, 861, 40815,
      13000, 32420, 1594, 10239, 32878, 19487, 21842, 41171, 5975, 29288, 46380, 24461, 36301, 11275,
      44648, 25642, 26323, 42086, 25882, 11597, 14577, 49204, 26364, 18501, 45267, 14495, 29568, 43607,
      23702, 19392, 38551, 10814, 32141, 8869, 225, 17395, 34081, 42030, 19888, 19395, 20634, 37421,
      2761, 33479, 10926, 46030, 4538, 41714, 19512, 39211, 29266, 45845, 39438, 44431, 22522, 21656,
      49584, 14459, 14409, 33227, 7212, 14580, 14836, 40778, 23969, 16274, 37445, 29638, 1397, 46410,
      45749, 15952, 19820, 38359, 17309, 16599, 46341, 1246, 16030, 26644, 45566, 27674, 20958, 43024,
      33713, 6939, 45126, 13924, 3241, 11150, 48319, 19671, 1413, 28282, 41012, 34240, 29575, 41270,
      8257, 26852, 8880, 22078, 47730, 19349, 32181, 16954, 39246, 1621, 47756, 45675, 2404, 30796,
      37586, 23317, 12830, 33557, 29557, 43986, 27893, 5294, 24913, 34659, 1784, 39885, 17566, 16062,
      48445, 20382, 40877, 18057, 19066, 20525, 5847, 18622, 45473, 31760, 5211, 25730, 6373, 30197,
      23945, 36934, 34847, 15292, 1851, 18432, 28970, 17039, 6687, 40938, 42181, 25252, 18841, 15806,
      4181, 13862, 20189, 8784, 3705, 24445, 37771, 5158, 29836, 6129, 11029, 47338, 36029, 33446,
      4116, 11756, 27123, 5369, 15978, 9134, 11061, 4550, 35858, 46856, 43900, 17577, 2746, 21850,
      25747, 6072, 23920, 12933, 36180, 34380, 28996, 38260, 512, 16134, 35633, 8088, 36092, 31391,
      33042, 34308, 12627, 1976, 7337, 42452, 22971, 37307, 44971, 5216, 23622, 41399, 20310, 657,
      35037, 44827, 15943, 42013, 28057, 21871, 7027, 49785, 30812, 35601, 21546, 14794, 45053, 3899,
      29368, 15625, 46648, 10284, 25873, 18719, 14948, 38343, 31303, 6542, 42690, 5876, 49324, 15602,
      23357, 46342, 19127, 34791, 36359, 18143, 316, 729, 45882, 6215, 17298, 1841, 2386, 21345,
      22114, 43745, 5466, 38365, 46719, 5540, 23562, 23012, 32741, 14163, 9062, 28697, 18490, 14825,
      49827, 15679, 7932, 38880, 3002, 31443, 6262, 3953, 45134, 33478, 18553, 24223, 32041, 26218,
      14632, 17090, 34426, 9376, 17780, 10436, 7568, 23549, 1458, 42296, 34365, 29308, 4845, 41960,
      38152, 24380, 38921, 26538, 5936, 7673, 40436, 35494, 39591, 14174, 40381, 23137, 29628, 32308,
      30871, 28092, 32484, 32812, 25154, 10153, 25866, 15443, 14192, 13717, 17348, 6420, 38690, 47430,
      34114, 816, 13863, 49436, 10587, 49497, 26517, 5245, 38331, 48332, 14926, 49065, 37864, 23346,
      27036, 40418, 28961, 23034, 17324, 44927, 18246, 21403, 47287, 14710, 6367, 48395, 42363, 40888,
      31706, 3378, 39487, 13702, 16883, 9656, 40354, 31378, 28458, 28446, 26889, 20715, 40604, 45281,
      32111, 34348, 15204, 6892, 22134, 44141, 3028, 16297, 32721, 25134, 9055, 34885, 16228, 11281,
      25573, 36501, 48210, 43417, 46464, 16703, 32458, 6161, 42991, 19306, 48551, 40377, 39953, 4988,
      19075, 20182, 38819, 19432, 36918, 19482, 39058, 39446, 22156, 37811, 12290, 36128, 2296, 3831,
      33222, 11494, 20790, 44315, 38884, 3434, 38207, 3077, 1107, 16655, 45226, 25830, 21503, 46860,
      2146, 36814, 25283, 27040, 46778, 45189, 18145, 27707, 46651, 7762, 29632, 8145, 40439, 13039,
      34037, 36290, 27907, 24656, 16993, 5345, 5165, 34825, 1675, 31689, 4146, 31935, 18393, 4707,
      2585, 28117, 42179, 31618, 35763, 22581, 13835, 12044, 30767, 7128, 22783, 23250, 23885, 40093,
      31011, 12082, 7786, 5729, 13963, 49261, 5121, 10339, 2820, 32607, 1034, 233, 20696, 45286,
      29064, 16381, 36641, 11933, 49557, 1319, 19421, 14194, 27211, 23943, 30570, 24191, 42795, 23407,
      756, 27669, 5553, 33456, 41063, 18337, 5042, 20135, 6491, 18129, 30128, 38903, 14129, 28147,
      6689, 9693, 39652, 811, 28624, 27745, 23713, 13504, 13797, 33256, 9720, 44136, 8317, 36325,
      48421, 39927, 2630, 18014, 24531, 8677, 1618, 21723, 20564, 16171, 8489, 16338, 5455, 35813,
      48471, 22750, 7831, 16694, 23467, 5627, 4222, 35609, 21130, 18856, 42678, 10639, 10613, 45809,
      18478, 5762, 26689, 44532, 45317, 44236, 17596, 45087, 40910, 22038, 23254, 45133, 27771, 10276,
      10241, 210, 28976, 39435, 43447, 43061, 36050, 13687, 26071, 3022, 4110, 19011, 15838, 46039,
      6756, 18806, 32676, 42726, 11065, 17179, 27737, 24456, 36004, 36082, 41990, 14411, 8530, 33306,
      23783, 14337, 22954, 36823, 11450, 7258, 42764, 49141, 18603, 3031, 46317, 7229, 116, 9246,
      19475, 18809, 24556, 3795, 46265, 47402, 12414, 5879, 13396, 30392, 38491, 6802, 25304, 34697,
      8586, 45078, 48407, 5625, 10342, 15695, 17258, 34824, 39719, 47284, 35249, 5920, 14625, 16113,
      7266, 36754, 14982, 75, 35250, 26830, 44839, 1124, 25981, 42314, 16454, 45755, 6427, 27934,
      30843, 30081, 15006, 34082, 40402, 47394, 28703, 35848, 47720, 29395, 14579, 17900, 194, 48182,
      30799, 19219, 46098, 2813, 20370, 6537, 2664, 22856, 11617, 2952, 45701, 12058, 29338, 45490,
      26378, 27861, 10533, 15458, 49676, 45504, 43501, 34623, 5504, 16256, 9237, 45502, 7950, 13683,
      15632, 26306, 22071, 36752, 48320, 29278, 1631, 6108, 24339, 15814, 24383, 26607, 839, 11475,
      20626, 8279, 30633, 49340, 42844, 31544, 29500, 47762, 8875, 43097, 30914, 5685, 5733, 30292,
      11300, 5598, 2517, 25779, 19825, 35669, 47048, 18331, 1846, 18502, 20217, 40292, 34983, 27970,
      28359, 17901, 27087, 12440, 12594, 3197, 2865, 23311, 19741, 9452, 34236, 1736, 45115, 28334,
      11757, 34580, 7029, 23578, 10859, 38468, 16372, 14054, 38564, 34913, 49084, 1930, 46498, 1126,
      14233, 44700, 30321, 42697, 7479, 29036, 12589, 44510, 13588, 17306, 2888, 46393, 22034, 20137,
      36454, 8877, 30442, 29915, 48715, 36947, 8668, 31394, 41419, 10240, 7596, 43330, 8870, 7800,
      20999, 13035, 19849, 5200, 38426, 45463, 33669, 40488, 13160, 5662, 44310, 34267, 7955, 12968,
      49696, 42655, 30691, 61, 33594, 12909, 27717, 10827, 26231, 7779, 40065, 10202, 1808, 37577,
      42763, 22281, 31942, 41614, 10424, 13614, 27269, 8420, 33890, 32671, 10632, 30902, 3489, 45940,
      13958, 12203, 28964, 25286, 9186, 17150, 43189, 15650, 6658, 28374, 23879, 45458, 35087, 41987,
      32266, 42973, 1572, 32569, 35279, 46451, 16124, 13431, 6179, 32679, 939, 29188, 34755, 49311,
      8825, 31072, 35210, 15255, 42004, 22853, 46718, 3460, 49939, 6832, 33010, 11306, 48619, 36073,
      28455, 27963, 34854, 35412, 27700, 38261, 41279, 49225, 3021, 3220, 17937, 23712, 150, 12613,
      18554, 35927, 31350, 46958, 42916, 4678, 31150, 48472, 9731, 36352, 42834, 26348, 29573, 45329,
      3929, 18455, 19451, 3298, 40426, 43438, 1489, 34590, 28459, 31611, 46538, 21750, 10881, 14673,
      8478, 27545, 33254, 32423, 36418, 31165, 37800, 20532, 33936, 22468, 20916, 46457, 47693, 283,
      9410, 5070, 45662, 40845, 23542, 3633, 30494, 35042, 28958, 46491, 9501, 8642, 37786, 34861,
      12088, 33903, 9011, 16382, 4036, 6804, 46392, 4609, 48876, 31257, 586, 34495, 31732, 3789,
      47185, 1697, 42440, 33728, 48480, 30689, 36691, 49990, 22132, 7598, 38399, 36521, 45535, 12010,
      11010, 27887, 16164, 17549, 16409, 15731, 41673, 5990, 43890, 35691, 25940, 18849, 6974, 17319,
      10089, 43034, 8238, 36342, 3504, 36285, 44129, 8961, 5329, 43091, 44454, 27392, 40295, 6660,
      22761, 21430, 9284, 7289, 45319, 36250, 3189, 37042, 46572, 47823, 29949, 5260, 16157, 44711,
      16115, 22022, 2265, 47343, 35302, 32434, 6752, 10801, 31586, 13933, 29141, 8781, 15211, 25850,
      24835, 38857, 11265, 29658, 30481, 34392, 34176, 35244, 6199, 18508, 6887, 28985, 19101, 31456,
      15121, 12141, 21549, 13069, 24994, 36638, 42270, 48931, 45737, 23141, 9267, 17299, 42535, 43655,
      19386, 24181, 21110, 28191, 42740, 30224, 23271, 2582, 12903, 23861, 31943, 48327, 11863, 35910,
      25264, 41826, 6921, 42059, 26545, 38594, 25082, 42710, 30405, 21095, 39723, 21640, 7112, 43711,
      36676, 46805, 37628, 31994, 35831, 27983, 27368, 39706, 8971, 48550, 30710, 27310, 36697, 18736,
      1534, 24296, 14712, 35688, 18769, 29762, 40160, 33904, 8546, 43971, 19326, 32466, 19495, 37023,
      1139, 37414, 34473, 22675, 12505, 45056, 3618, 39606, 34857, 49110, 7324, 962, 35313, 30515,
      25548, 10835, 1975, 14765, 48448, 37970, 39241, 40229, 41496, 40356, 8057, 45875, 28206, 34179,
      24957, 26350, 5055, 20586, 2678, 46056, 30288, 20468, 24517, 49857, 24769, 2762, 12403, 13249,
      40383, 21531, 45683, 39610, 42350, 32048, 6381, 42414, 18092, 38864, 30999, 9988, 42097, 33509,
      18435, 44219, 17503, 41735, 1417, 47550, 29842, 10311, 37556, 20847, 19964, 17853, 29461, 30541,
      22777, 22633, 33484, 1486, 27335, 30088, 2111, 43716, 25055, 13651, 11886, 13909, 3131, 19699,
      913, 31140, 23347, 37752, 27876, 33486, 12429, 31451, 20892, 42005, 41385, 16430, 44225, 29264,
      4082, 1331, 46094, 14543, 34490, 44945, 49025, 13922, 49026, 41940, 10530, 32956, 41287, 19002,
      33028, 11665, 30207, 17122, 43222, 39777, 36789, 29824, 13367, 4199, 28908, 41643, 13606, 18237,
      24651, 30879, 38415, 36581, 17394, 18144, 9728, 30038, 35607, 30639, 10347, 44045, 30467, 28042,
      40977, 19145, 46325, 17163, 14145, 29130, 630, 6821, 2276, 14564, 21562, 40156, 44128, 4272,
      6, 2145, 38973, 44230, 42713, 1699, 39968, 38077, 39524, 44665, 35432, 23251, 27666, 15550,
      44077, 21956, 33726, 15671, 48105, 7132, 26991, 40305, 28050, 3455, 20512, 2735, 19719, 33137,
      39219, 3214, 46553, 7638, 30742, 17688, 47203, 16658, 1721, 38512, 6433, 27060, 26726, 18754,
      20277, 32378, 2094, 22029, 14938, 6029, 1864, 8350, 47281, 30205, 24049, 6994, 24029, 27295,
      14935, 6132, 22645, 1402, 536, 5822, 6348, 48291, 48712, 8543, 19998, 38047, 7544, 1993,
      32538, 26410, 41145, 6778, 5377, 2399, 43609, 32146, 25877, 7100, 26735, 23422, 39662, 37222,
      49506, 6156, 2298, 25668, 27093, 6046, 36549, 26280, 4265, 39383, 13542, 38803, 4165, 26063,
      10629, 37173, 1956, 16671, 34035, 28416, 1731, 25764, 31640, 7781, 19961, 32533, 19193, 18960,
      35363, 38318, 23751, 30258, 8113, 48562, 10791, 32834, 25056, 41776, 31981, 8194, 33191, 14381,
      40920, 7234, 26988, 10069, 32280, 35074, 34184, 29579, 42110, 31144, 1166, 49834, 35300, 37353,
      48203, 47542, 29853, 37187, 32390, 17271, 22930, 44194, 36808, 26794, 2269, 23691, 28537, 2445,
      23182, 24069, 21847, 24757, 17983, 19303, 18276, 47515, 5407, 2348, 26360, 45208, 16507, 33745,
      27989, 32365, 9224, 8370, 46800, 39141, 9769, 31271, 9555, 33645, 35137, 22860, 7895, 34963,
      38173, 1788, 26476, 32995, 892, 14720, 31571, 6735, 38670, 18430, 18537, 430, 25627, 11189,
      12708, 9738, 48873, 12030, 32822, 49636, 1616, 2864, 252, 7964, 27815, 676, 7096, 44809,
      10873, 40077, 16529, 15982, 48974, 1670, 24273, 14273, 10612, 2644, 19387, 13571, 32647, 14424,
      30950, 8296, 17050, 20904, 17915, 44943, 42548, 48168, 38901, 9022, 8755, 10595, 44397, 46145,
      34927, 38307, 39600, 21041, 34634, 29399, 13426, 22764, 29453, 24304, 37749, 44477, 47524, 23770,
      18221, 24221, 18106, 1053, 16356, 866, 1974, 45841, 4071, 48783, 42653, 9803, 21993, 16231,
      48491, 20558, 13469, 44366, 5734, 18457, 14791, 45465, 32688, 10289, 46322, 38919, 32414, 47059,
      48276, 10941, 30904, 12475, 18067, 15590, 36067, 29235, 37976, 18597, 22215, 25018, 9667, 532,
      37225, 686, 39186, 26326, 16895, 18104, 46169, 41135, 4699, 7182, 44181, 46337, 6434, 624,
      43996, 22589, 14361, 42683, 28070, 44831, 14933, 928, 47677, 3673, 9351, 24962, 44801, 35194,
      5537, 22962, 22317, 499, 9025, 25918, 48023, 16992, 25088, 5954, 6231, 39651, 46290, 1673,
      38269, 26967, 18035, 32411, 48527, 45344, 18109, 20713, 41771, 24379, 6651, 13852, 43141, 13822,
      31483, 24422, 48072, 18491, 15711, 25012, 8059, 41759, 27784, 28065, 19113, 36629, 16497, 19707,
      44356, 38297, 9199, 23927, 12678, 29695, 30185, 11905, 17318, 18400, 20290, 12266, 2467, 32165,
      261, 46831, 26237, 30801, 40973, 18341, 35021, 28056, 38950, 11099, 44660, 19839, 42488, 26511,
      12341, 8684, 20342, 36792, 37450, 31387, 35866, 47404, 48431, 20078, 33114, 45646, 49908, 15578,
      5854, 33579, 8777, 18178, 45457, 32194, 17203, 9604, 42377, 26888, 9366, 40907, 38391, 30781,
      41039, 12263, 1033, 593, 29890, 45256, 9679, 44499, 16752, 8224, 32474, 21238, 12208, 34465,
      27554, 37096, 11734, 34769, 7451, 40344, 31112, 2916, 5604, 21126, 1291, 3428, 4766, 21145,
      38279, 873, 27565, 37149, 4537, 35621, 1819, 41601, 15016, 47520, 28787, 2022, 45652, 48317,
      30256, 24779, 24579, 45203, 17047, 43365, 33912, 41603, 14611, 49702, 13294, 1928, 19384, 26800,
      15633, 44089, 9712, 18380, 7149, 14969, 27905, 14936, 28918, 43951, 37183, 16528, 1661, 20065,
      31482, 3734, 37084, 25767, 37655, 2549, 12604, 36423, 4104, 5068, 43167, 47586, 39054, 26286,
      9167, 41767, 8470, 25205, 46510, 37759, 35480, 4981, 31245, 43198, 47976, 44424, 45594, 43224,
      49035, 2305, 37977, 14355, 9928, 23747, 8045, 31199, 4785, 9592, 6975, 18365, 12913, 14493,
      47156, 37559, 7401, 41837, 6573, 13094, 6178, 584, 44720, 39145, 5326, 37404, 28965, 18236,
      22312, 38310, 47289, 12895, 35819, 423, 24867, 13747, 26395, 35870, 43494, 12555, 23270, 42186,
      29741, 5747, 4741, 44152, 8962, 39569, 10317, 250, 24129, 11873, 6418, 49937, 47847, 33385,
      38758, 29731, 15031, 38, 34902, 2692, 19382, 40890, 2255, 19662, 39458, 21286, 22969, 22647,
      41433, 33643, 20348, 14467, 28158, 27921, 21211, 13732, 11096, 26738, 36869, 505, 44389, 32118,
      42921, 1100, 46667, 36589, 32507, 44073, 22811, 35353, 40728, 25609, 1608, 38878, 32494, 20443,
      17846, 20868, 10735, 5382, 20865, 13104, 15686, 48672, 31518, 9621, 11235, 20285, 20241, 18475,
      6431, 41661, 47540, 5925, 43099, 26643, 17795, 14871, 1430, 39635, 39039, 45846, 28304, 14505,
      13625, 26994, 621, 21714, 49028, 33279, 12235, 42974, 31793, 15999, 7264, 14238, 25454, 36832,
      12796, 40534, 48415, 748, 16345, 217, 32588, 20192, 42467, 45312, 36458, 47548, 21070, 12418,
      15959, 32653, 7538, 14401, 42785, 17161, 8481, 7321, 30059, 13757, 47844, 8510, 23330, 7339,
      35861, 39529, 7519, 2943, 41710, 2616, 49961, 23149, 36654, 47691, 42922, 27290, 49372, 7144,
      6926, 5923, 1859, 22198, 43161, 38930, 7652, 23469, 32209, 6536, 41772, 24247, 9313, 26516,
      37295, 5697, 40001, 28508, 12477, 49579, 35366, 4152, 32595, 28993, 27507, 14682, 22496, 2603,
      9792, 35778, 9105, 8321, 39345, 7161, 35058, 46008, 24006, 30838, 42354, 34991, 48613, 29451,
      10539, 42686, 1850, 3799, 37712, 33917, 44865, 33112, 33363, 37686, 29874, 39113, 39898, 46644,
      22955, 14944, 9192, 7390, 23242, 40796, 31091, 7040, 16927, 22049, 36299, 47056, 39083, 32318,
      15747, 24929, 9683, 35159, 9936, 32716, 41199, 31928, 32122, 37434, 48862, 46986, 31628, 21616,
      41704, 26073, 42878, 22774, 11521, 31258, 13214, 42445, 27318, 29900, 28360, 20416, 27305, 16817,
      34507, 39168, 15897, 34572, 6196, 41745, 42214, 11342, 14514, 28627, 47321, 46709, 19696, 16982,
      14540, 1227, 10050, 35172, 42914, 7175, 32469, 41749, 18002, 5080, 1183, 28498, 279, 35644,
      23766, 33470, 18902, 45043, 24026, 14603, 38731, 28569, 11771, 2830, 5341, 2034, 41384, 44563,
      25937, 2326, 46238, 3693, 10388, 1400, 39134, 17036, 42279, 3916, 33656, 16577, 21456, 34757,
      41799, 2730, 48350, 20510, 5411, 3640, 37120, 17280, 14013, 32901, 4277, 47840, 27095, 35764,
      31306, 6311, 38776, 17700, 30574, 17708, 18598, 48118, 19243, 2181, 10280, 15694, 15397, 35781,
      44969, 11210, 14240, 44893, 36873, 1165, 30324, 20346, 4157, 40337, 48186, 37300, 8239, 9060,
      1952, 43697, 43482, 36242, 35513, 38080, 36597, 18572, 23919, 6631, 6390, 6650, 34340, 21735,
      30040, 33627, 20082, 42124, 42096, 30631, 12566, 8976, 43938, 9020, 49304, 23388, 19939, 15516,
      24670, 38072, 18102, 10393, 12435, 15214, 39611, 25899, 17235, 39043, 3105, 42629, 30989, 24250,
      45322, 15553, 49062, 18655, 9093, 2331, 48685, 11682, 46447, 579, 20775, 48785, 7356, 20424,
      19645, 37453, 25114, 35041, 48303, 48917, 13152, 24100, 14886, 5994, 30110, 30361, 13242, 1317,
      6809, 9141, 44232, 42054, 32629, 20204, 30922, 7406, 49094, 35218, 18842, 26856, 17520, 36257,
      38375, 16147, 40925, 39497, 18716, 24108, 4180, 18956, 37704, 48297, 46419, 44774, 25827, 7306,
      3115, 21349, 23893, 17173, 4422, 8895, 11466, 46866, 49380, 20321, 43568, 46767, 43610, 37543,
      32495, 2150, 18159, 32162, 43775, 32438, 15124, 25311, 9634, 3843, 41301, 38567, 1271, 43356,
      41426, 28101, 2069, 40105, 38406, 7427, 18977, 5875, 33976, 24986, 47496, 14695, 17689, 29043,
      5115, 32572, 16688, 21888, 2731, 21284, 5541, 43191, 43773, 22346, 43827, 49432, 33578, 15142,
      31407, 31619, 33873, 37048, 27987, 16145, 1503, 46788, 49548, 902, 31330, 21854, 19591, 8596,
      9057, 48425, 7359, 647, 36520, 25962, 45751, 26254, 27184, 44636, 49832, 34310, 11911, 24936,
      25281, 27349, 9195, 42331, 26690, 12656, 46957, 25050, 30380, 2544, 6839, 5855, 27400, 36120,
      49019, 37796, 46564, 13168, 33620, 28675, 14486, 26621, 31894, 6415, 9128, 26760, 10936, 171,
      23213, 42841, 9908, 25910, 48884, 42172, 19438, 39503, 38495, 18871, 20712, 17053, 32672, 38808,
      9538, 15334, 21449, 12892, 40010, 26334, 16810, 16601, 2680, 43294, 29029, 26054, 44291, 18969,
      47813, 21488, 35580, 317, 31247, 10708, 43462, 7576, 23240, 4896, 4564, 25716, 47237, 41056,
      12426, 9126, 5718, 43357, 31834, 31142, 25506, 1912, 43160, 21690, 49424, 39222, 28289, 31044,
      5205, 26805, 33568, 18661, 19969, 27000, 46046, 14421, 31005, 40027, 27110, 15236, 11337, 13182,
      35246, 29003, 18487, 9722, 10132, 1681, 45424, 41738, 2279, 35486, 19020, 32799, 22408, 13040,
      33348, 46652, 20663, 40240, 41085, 31352, 32506, 521, 19529, 19414, 19466, 28628, 5657, 13192,
      29528, 41600, 734, 7330, 4241, 43815, 18154, 26209, 15046, 24206, 22243, 40922, 8225, 22508,
      28224, 20633, 16953, 27078, 29640, 19347, 39481, 24772, 16144, 47673, 40, 3029, 10675, 38730,
      42952, 24758, 11960, 18955, 19962, 12092, 22643, 21391, 20109, 47246, 31420, 21669, 49325, 28977,
      3946, 25808, 17208, 32218, 29679, 31602, 28744, 14471, 35115, 33233, 46706, 30900, 36763, 45774,
      41816, 1045, 22957, 39191, 37236, 47461, 6202, 23651, 44528, 26645, 19060, 32590, 49586, 14740,
      32401, 6184, 5360, 16084, 26846, 18917, 4503, 2362, 15262, 8557, 14303, 31342, 27580, 20518,
      17887, 45978, 26066, 41253, 17009, 17115, 9856, 26060, 2817, 15463, 12981, 1583, 11923, 14896,
      25455, 20392, 3619, 3900, 28600, 33761, 21688, 10586, 9536, 14840, 6927, 19443, 27080, 70,
      2965, 44908, 12900, 15618, 32942, 5139, 40596, 9920, 5342, 9205, 29083, 7155, 32424, 38647,
      409, 30961, 43384, 25661, 1680, 33466, 44051, 1490, 27502, 47003, 14782, 32329, 11638, 39314,
      44718, 40179, 6432, 46613, 10604, 16408, 23480, 30555, 49486, 47379, 37109, 47216, 46174, 47100,
      4518, 4730, 214, 22287, 39301, 30956, 14861, 6166, 35101, 3594, 25244, 34514, 36232, 25529,
      47695, 33056, 47907, 40207, 34571, 20322, 8780, 24412, 41038, 5199, 29431, 40173, 3933, 6978,
      989, 12423, 38461, 6267, 14148, 5003, 32625, 10508, 27229, 48387, 21114, 48633, 35736, 35982,
      41014, 21590, 11594, 47715, 11121, 17995, 18905, 44879, 25911, 5517, 31906, 31662, 32699, 4207,
      37141, 39587, 11875, 41630, 36072, 4419, 33090, 1829, 16250, 48442, 4630, 16946, 13972, 9146,
      12564, 3818, 16768, 14005, 13205, 26303, 34194, 38182, 35620, 40798, 15664, 14044, 19983, 14029,
      19032, 8919, 9648, 3462, 7678, 20813, 7217, 48593, 36012, 25155, 5478, 35833, 20546, 20090,
      23856, 13949, 21981, 27296, 9519, 33640, 7033, 19200, 22530, 46995, 7267, 40616, 26341, 39835,
      31800, 48965, 36183, 40658, 49256, 19006, 2907, 36305, 13129, 3482, 5677, 45182, 38706, 39979,
      11527, 10490, 24093, 21308, 45161, 49334, 29095, 27688, 8940, 12630, 44982, 21227, 36266, 27421,
      27853, 8525, 2104, 31452, 29971, 35176, 2007, 33430, 1707, 48822, 9744, 16629, 22493, 7262,
      38791, 42647, 42971, 3923, 2344, 10463, 19354, 9312, 26789, 44178, 45622, 41005, 9520, 37280,
      35964, 28752, 47374, 31114, 29207, 46984, 7064, 6541, 22001, 22716, 28560, 37308, 3861, 25736,
      31630, 49822, 6699, 4647, 48827, 14365, 2457, 34516, 49539, 3125, 42383, 15460, 23484, 32979,
      38579, 49912, 14806, 2571, 44714, 2286, 8451, 31698, 3609, 4193, 22283, 46108, 28103, 17416,
      31884, 32051, 8035, 19373, 673, 9444, 33857, 28148, 31316, 46291, 30404, 23156, 26430, 8858,
      48944, 35492, 42042, 29391, 13656, 28836, 28657, 30479, 43210, 18166, 44483, 7680, 49268, 35061,
      34379, 11634, 40750, 29582, 40854, 3611, 19291, 32540, 2946, 41811, 15614, 29396, 46532, 30124,
      40307, 9447, 41141, 9790, 30891, 7, 45948, 4095, 25955, 37499, 37103, 23692, 33515, 6969,
      16243, 17220, 34746, 48754, 25829, 43480, 37652, 23912, 24609, 1962, 44850, 22859, 44348, 41580,
      7277, 1483, 9532, 39914, 46097, 17128, 26692, 12788, 7364, 47569, 18701, 5100, 16264, 13289,
      12496, 40714, 8807, 30238, 655, 3118, 11359, 8647, 46967, 3382, 5457, 13099, 2908, 1895,
      3488, 21955, 8692, 6747, 19269, 30379, 26142, 30596, 24032, 45347, 48204, 34004, 9709, 12376,
      35540, 26608, 49489, 42017, 20227, 2755, 24415, 16305, 47176, 45930, 182, 46919, 24898, 1370,
      47770, 12616, 35119, 34498, 8241, 49614, 20822, 19018, 35104, 5688, 35730, 25753, 36278, 128,
      33834, 24270, 9367, 34443, 5354, 49058, 19704, 40161, 8385, 14747, 29947, 36565, 15796, 21439,
      26929, 46374, 4304, 110, 42272, 33299, 29735, 40562, 2836, 21544, 17278, 1557, 16028, 16483,
      49681, 44561, 109, 47650, 9961, 42165, 42585, 28316, 843, 21679, 2601, 35166, 15785, 48269,
      25325, 32898, 13477, 38190, 11578, 16403, 36230, 48115, 8297, 40990, 47006, 21187, 7540, 33178,
      18446, 10817, 49037, 31395, 2495, 10012, 6428, 9301, 26503, 22311, 36045, 44876, 23002, 18182,
      3836, 10127, 7616, 28493, 1826, 47936, 40104, 30100, 3910, 13459, 10689, 46173, 26454, 37581,
      46513, 36842, 19736, 24012, 2012, 13299, 27193, 7225, 742, 1671, 23503, 18238, 36749, 48657,
      22901, 26010, 49734, 47955, 9253, 36528, 47015, 32246, 23732, 23900, 6407, 29246, 219, 14326,
      42415, 3702, 6810, 14572, 24850, 46329, 11972, 2289, 18641, 22726, 39677, 29951, 5563, 9207,
      31485, 25759, 2342, 17638, 22607, 35478, 16077, 31767, 1786, 12701, 29386, 11477, 17291, 15985,
      47961, 14359, 8844, 14686, 13488, 37838, 49208, 30696, 28433, 6383, 41078, 13997, 40177, 24521,
      7184, 17190, 35574, 40364, 5881, 13252, 19174, 3305, 23873, 45958, 36032, 23302, 3064, 43140,
      37031, 37776, 47758, 6181, 13577, 46618, 32465, 21039, 20340, 34144, 41631, 23261, 30307, 324,
      45338, 14509, 19884, 29104, 27880, 39053, 2541, 19916, 26409, 44554, 8368, 23445, 80, 20048,
      1803, 35807, 7625, 49095, 9061, 1106, 48349, 11081, 40803, 22723, 18965, 13988, 20088, 20824,
      46082, 17385, 38788, 26030, 2992, 5181, 15130, 323, 22533, 12051, 8161, 20757, 29617, 15226,
      8337, 19700, 24166, 28192, 9804, 41526, 21431, 40932, 38386, 10855, 29599, 26332, 29747, 18590,
      24165, 10949, 44858, 24157, 46302, 34534, 19766, 39678, 1684, 45266, 24674, 120, 43101, 19308,
      2744, 17662, 950, 22047, 4062, 49549, 3510, 47329, 8850, 10512, 6425, 23144, 17702, 2325,
      30401, 31683, 47122, 39060, 44759, 32200, 38076, 39746, 1068, 47071, 37250, 37944, 6524, 42746,
      41371, 45478, 29082, 24793, 27695, 49670, 42108, 2778, 17599, 47027, 37013, 17516, 32337, 26343,
      10733, 22330, 17961, 39457, 48260, 13996, 34551, 42010, 31686, 3581, 20971, 26333, 46164, 27336,
      20688, 27062, 16426, 37836, 9441, 26985, 16971, 48071, 1635, 24965, 49220, 13989, 44579, 22213,
      49976, 15420, 19357, 36118, 34456, 19092, 37217, 43959, 3798, 42175, 42114, 14769, 29347, 30915,
      12528, 46536, 802, 46383, 49992, 9420, 25580, 28154, 40266, 3905, 12338, 10506, 9234, 36096,
      48889, 23367, 18517, 772, 10660, 28353, 22947, 18662, 11715, 38099, 5040, 42803, 46072, 5959,
      30455, 20375, 14222, 22529, 14203, 31798, 33946, 47616, 29976, 7402, 39322, 39584, 41415, 15853,
      3944, 14883, 7305, 37961, 35317, 9084, 7563, 45231, 36669, 19652, 47020, 20201, 35496, 3231,
      43204, 40398, 12593, 40174, 44188, 200, 31214, 39676, 15429, 30939, 31221, 34201, 48935, 47150,
      24410, 17808, 47267, 3755, 33141, 12586, 30437, 13328, 13061, 28698, 4296, 30195, 38036, 4750,
      8648, 44354, 10636, 19240, 36309, 24333, 46016, 22907, 48716, 4556, 19922, 28245, 16261, 20825,
      41175, 36057, 857, 37968, 27822, 33346, 31164, 14283, 20252, 5533, 36334, 37214, 44000, 1877,
      29111, 28473, 15027, 25659, 25164, 6605, 22832, 32075, 41212, 967, 45501, 747, 17407, 1032,
      39774, 25160, 12287, 12037, 28010, 5270, 4283, 33454, 47536, 19679, 14552, 46176, 6758, 40681,
      4903, 6693, 36039, 20506, 29570, 6935, 16711, 26353, 39637, 29417, 36998, 19437, 33493, 41421,
      44419, 3075, 44259, 27583, 46000, 27404, 8675, 42187, 47959, 3563, 49673, 26776, 3766, 48089,
      2029, 16549, 12216, 44443, 7193, 21299, 9354, 31837, 22691, 12364, 23008, 12757, 2627, 11605,
      29452, 2499, 45542, 724, 25697, 3855, 17418, 9170, 39196, 16152, 41088, 36997, 12971, 14565,
      8220, 16647, 42865, 14729, 21229, 17841, 17582, 44993, 29194, 32678, 33808, 14741, 28442, 16675,
      27697, 34985, 4237, 46453, 12639, 3356, 31479, 36122, 48892, 14539, 2662, 24543, 5102, 5548,
      31648, 2789, 37785, 42404, 24210, 21746, 37971, 3548, 6082, 31995, 25846, 13956, 42074, 45868,
      38337, 20650, 47346, 35647, 20956, 36341, 19967, 33558, 42185, 42575, 30599, 3452, 47861, 36762,
      31487, 48543, 32724, 27680, 21898, 44100, 4337, 16845, 2245, 48913, 44026, 36773, 42597, 20861,
      36596, 14488, 12515, 21401, 34352, 14643, 46442, 37808, 45524, 29847, 26156, 26176, 47960, 6920,
      2304, 7974, 10996, 1653, 19055, 39571, 7117, 1243, 17204, 7679, 45390, 5031, 47603, 18618,
      19740, 41187, 41205, 14182, 10477, 47558, 42637, 43053, 14631, 17730, 9287, 22111, 29254, 39005,
      41070, 27070, 29002, 11331, 26131, 42332, 37059, 8899, 15499, 39659, 22722, 32526, 34752, 7385,
      7956, 38103, 42615, 30051, 8206, 3568, 12733, 16085, 16342, 46794, 33230, 42522, 37925, 11497,
      41507, 7947, 16177, 25941, 45064, 43353, 48195, 17052, 5225, 1544, 14731, 14084, 44502, 40347,
      1395, 25193, 21766, 32757, 4644, 40076, 46142, 26561, 26101, 10656, 13278, 14526, 31961, 47688,
      31193, 11026, 8763, 22238, 11212, 3507, 27089, 9040, 34799, 24780, 19898, 29447, 16880, 29496,
      37585, 13041, 38580, 5323, 4009, 37349, 27061, 24633, 12350, 4543, 21241, 38388, 5595, 32946,
      24001, 41423, 36829, 11890, 41765, 7449, 20206, 14286, 19090, 36083, 40434, 16714, 29085, 40310,
      30772, 28943, 49093, 19808, 38187, 24650, 48259, 36467, 6600, 29337, 7861, 35413, 9584, 32985,
      6552, 22914, 39352, 19949, 14304, 35860, 2300, 18498, 7173, 6708, 26936, 17571, 15246, 35665,
      4589, 25790, 8592, 32425, 13282, 14092, 38496, 48894, 32326, 24424, 22978, 25684, 19391, 16053,
      17479, 47189, 46021, 2824, 1647, 6206, 22624, 13897, 36003, 16355, 48235, 11993, 740, 8952,
      22567, 26328, 48992, 21478, 22379, 36748, 32372, 48229, 19850, 34471, 34280, 32908, 39858, 5766,
      22868, 23262, 47167, 21772, 34930, 8305, 2848, 20568, 21445, 18091, 13259, 6863, 27677, 32223,
      20403, 28759, 11666, 20060, 16921, 15320, 38394, 40275, 26821, 28118, 22395, 15368, 40666, 31940,
      20349, 1977, 41807, 5940, 8939, 39636, 33508, 8278, 21835, 38561, 48189, 30834, 6592, 24799,
      5303, 35147, 30283, 17446, 13980, 39216, 36271, 38129, 9314, 11843, 49727, 1052, 1984, 10852,
      48947, 15653, 20190, 16404, 7738, 34995, 34306, 27538, 43293, 43504, 19976, 3945, 48486, 940,
      11457, 22033, 37475, 33033, 19805, 45590, 41210, 33788, 34982, 44647, 31867, 19618, 6675, 22389,
      20788, 24525, 39012, 21457, 10099, 7745, 43539, 12710, 38147, 20404, 16248, 7705, 47205, 25555,
      23285, 49298, 18399, 31155, 9830, 3391, 19834, 12081, 41116, 9590, 1521, 3076, 31188, 20499,
      9024, 4047, 1554, 14575, 20063, 4915, 8582, 45098, 43926, 6312, 18307, 23532, 22249, 21334,
      14737, 24672, 11836, 45857, 3416, 11127, 516, 8908, 26896, 14188, 12659, 24141, 25815, 36354,
      15680, 5991, 24688, 14300, 38377, 17524, 24753, 9266, 8379, 10964, 27991, 20145, 37121, 39535,
      98, 49917, 29149, 44187, 32910, 33425, 9632, 30182, 46055, 33832, 2388, 35627, 26702, 5426,
      34643, 20665, 8276, 7911, 25837, 25483, 48250, 41375, 36478, 20570, 3753, 36042, 30747, 46806,
      29586, 14885, 31947, 2020, 45643, 43284, 34186, 44355, 32593, 8504, 16635, 9006, 22937, 36601,
      12200, 39739, 5893, 10422, 21247, 6350, 2507, 20272, 46067, 39513, 4253, 5742, 40360, 23394,
      27834, 953, 27156, 46160, 33263, 34906, 23441, 26168, 4012, 36049, 45082, 45277, 2658, 49535,
      42376, 49600, 42718, 41569, 27473, 49982, 4361, 2666, 25334, 29572, 19051, 48128, 49351, 44692,
      12351, 20401, 3893, 44829, 25300, 48402, 847, 10849, 12692, 17193, 42873, 47133, 46246, 37069,
      17356, 31838, 42806, 49776, 6757, 18410, 17364, 20693, 14449, 31059, 30709, 16511, 20727, 30934,
      28463, 14555, 46075, 40872, 8140, 46331, 22460, 16180, 41133, 31278, 24120, 2290, 9026, 24446,
      12483, 47755, 8132, 24163, 28724, 6981, 20027, 21369, 14774, 6119, 18295, 32155, 23934, 42673,
      49290, 39736, 10399, 42996, 21056, 9480, 21122, 25278, 1453, 45746, 48825, 41721, 31069, 27969,
      11483, 39759, 21611, 6404, 16377, 23623, 46378, 40413, 39223, 30918, 4615, 9451, 15280, 8538,
      19811, 34891, 44101, 28266, 27254, 18469, 2194, 29789, 13876, 30587, 37399, 15277, 14614, 31201,
      26752, 47694, 6730, 44200, 9008, 46256, 18310, 34559, 5787, 18862, 45954, 26878, 3277, 31411,
      29512, 14889, 31593, 10676, 12671, 32138, 33655, 31654, 19253, 14362, 12184, 32091, 29406, 17012,
      46050, 15394, 304, 10883, 25250, 22756, 152, 5862, 32856, 3445, 18673, 16420, 43749, 1418,
      4702, 15483, 45564, 5561, 31564, 7374, 21023, 22201, 30610, 27653, 22639, 17802, 13729, 39059,
      40751, 20412, 35197, 30272, 7815, 41110, 28081, 10630, 27918, 10417, 42728, 8256, 44677, 8694,
      6851, 4726, 3257, 45476, 24985, 46198, 14443, 46266, 37024, 31723, 4832, 9317, 6133, 28815,
      4500, 11500, 2942, 12591, 29551, 6872, 7397, 26769, 44436, 39101, 41671, 23403, 37369, 42943,
      10981, 5020, 14828, 9826, 38296, 37918, 35350, 11107, 45131, 21421, 19353, 12936, 41333, 2901,
      5352, 20582, 3628, 19433, 25948, 43277, 25586, 41675, 9861, 4201, 11823, 15257, 24607, 35942,
      38874, 35678, 33749, 6535, 25900, 39108, 42867, 34789, 2240, 30026, 16178, 32056, 40070, 23406,
      34354, 16470, 13623, 2237, 22279, 11444, 6902, 45700, 33150, 22775, 25686, 6274, 18461, 21339,
      11562, 4203, 47782, 36879, 38916, 18112, 46785, 17474, 12347, 45021, 41647, 30882, 49485, 28579,
      45911, 35002, 13005, 14957, 47921, 491, 31120, 20352, 16930, 28898, 40584, 11024, 38289, 43659,
      13126, 26263, 32666, 31832, 25660, 35491, 31004, 37091, 18117, 35352, 42153, 7718, 49030, 38700,
      19052, 2718, 42983, 7557, 5726, 22012, 12157, 29623, 7870, 49192, 18739, 4364, 47547, 19713,
      33035, 42425, 42098, 34719, 35332, 5170, 13602, 791, 30994, 25758, 41294, 14858, 32061, 35056,
      12117, 47901, 1285, 16773, 16618, 13297, 27957, 39916, 1043, 27101, 39076, 41677, 29912, 17515,
      41443, 15884, 3169, 28638, 36152, 426, 32715, 39430, 44334, 34402, 42188, 20436, 15188, 1190,
      3229, 30790, 30248, 26268, 932, 40824, 5356, 33566, 35329, 41540, 30331, 41917, 14768, 4530,
      2141, 37331, 21221, 20207, 46467, 45541, 9324, 32988, 41728, 37154, 25713, 20018, 18924, 2558,
      20091, 37105, 14168, 11270, 16570, 48307, 21399, 24742, 33636, 6885, 35569, 46904, 40450, 9002,
      957, 27072, 2760, 48918, 31009, 6314, 10894, 42967, 369, 39397, 12691, 18473, 34931, 34218,
      14532, 47601, 8871, 16941, 46435, 36524, 36206, 29249, 24096, 7886, 46149, 43622, 16425, 21092,
      22188, 45537, 5661, 3309, 19148, 3056, 1905, 36956, 4156, 943, 27436, 46777, 38241, 12052,
      2294, 6803, 13659, 25023, 45621, 24891, 40376, 44401, 32279, 36411, 44303, 289, 30829, 45551,
      9571, 8822, 27477, 45185, 17707, 5116, 29081, 37137, 22478, 11636, 36696, 32687, 23573, 38954,
      22968, 27142, 31877, 24551, 40283, 14922, 43230, 39694, 46747, 43767, 26842, 30178, 9580, 28679,
      32823, 46875, 38983, 49187, 6081, 38419, 19492, 1127, 27133, 27720, 36052, 46372, 16413, 39879,
      30451, 15022, 9235, 9845, 10020, 47256, 4851, 20296, 4093, 38449, 26262, 48309, 6245, 43656,
      42308, 1464, 45436, 40348, 24131, 33945, 23638, 18389, 38292, 5286, 10591, 41190, 38837, 19080,
      38550, 31540, 42498, 38976, 30671, 43518, 20385, 14865, 37974, 8879, 26744, 32880, 42082, 38487,
      46470, 22956, 10407, 38873, 40120, 32681, 28534, 27562, 22265, 8326, 10263, 38998, 14854, 31699,
      15486, 18188, 18685, 36874, 19231, 2299, 26383, 39380, 2186, 46633, 13676, 14657, 26932, 22808,
      41468, 22747, 29253, 21799, 4660, 6394, 648, 48364, 15311, 1392, 6014, 24636, 13118, 4548,
      44160, 13298, 6882, 38572, 13153, 44607, 28974, 42386, 6988, 9123, 6205, 4402, 16796, 6233,
      6253, 11912, 2990, 25201, 20076, 6739, 34053, 46607, 49294, 5262, 38018, 36690, 26471, 9264,
      17534, 29469, 33516, 39997, 10565, 17815, 22824, 19869, 26085, 25115, 33596, 24411, 25528, 10552,
      1442, 45177, 49014, 19658, 26003, 44576, 37648, 47240, 11077, 9793, 21124, 13585, 30749, 48932,
      36190, 25806, 8761, 41818, 5438, 10229, 44192, 7462, 23381, 42102, 32791, 911, 2772, 36532,
      2351, 23048, 35578, 28299, 49928, 27824, 3942, 10079, 30166, 12038, 2595, 17704, 2442, 1295,
      34821, 2649, 1807, 23935, 2861, 11168, 12993, 8897, 9311, 30398, 31022, 32132, 1748, 48915,
      18980, 18937, 9654, 28146, 20944, 4563, 15259, 4619, 8153, 7811, 9270, 12865, 2158, 48336,
      19227, 49307, 32248, 14335, 47572, 12750, 34667, 31439, 16466, 12296, 7062, 28494, 11921, 8568,
      3269, 22466, 49641, 8402, 12481, 10146, 5861, 37202, 34798, 7936, 41966, 10378, 13177, 19364,
      12732, 15217, 26982, 20450, 33352, 22878, 21712, 32382, 32321, 35902, 5904, 42164, 33201, 26452,
      38924, 14321, 48606, 39511, 8932, 6463, 12372, 28113, 31741, 16935, 24999, 26529, 41234, 16728,
      20549, 34709, 18173, 11119, 17644, 48333, 26939, 15505, 12407, 15520, 25340, 3126, 19489, 35567,
      45031, 30387, 27865, 16100, 36781, 30512, 15572, 45356, 10583, 8842, 11380, 17880, 4520, 35373,
      16054, 35705, 21402, 11335, 36197, 1289, 11426, 39990, 3935, 45617, 42345, 37520, 21072, 48684,
      1451, 1501, 42278, 35532, 42305, 2635, 31111, 37913, 44287, 43929, 47508, 45358, 45669, 13451,
      25950, 19577, 48564, 31014, 40490, 27754, 41666, 20685, 40507, 42384, 37754, 14293, 27402, 16875,
      48253, 5175, 3315, 46335, 8413, 11196, 21412, 13657, 2231, 4466, 49106, 18592, 3703, 11100,
      26594, 30490, 47846, 44174, 1884, 457, 32348, 20832, 16620, 588, 42770, 16179, 22876, 30704,
      6098, 45925, 1344, 468, 47123, 49007, 43701, 12353, 6301, 44275, 15666, 16298, 20585, 3289,
      42103, 4401, 10123, 27227, 13399, 15697, 19676, 10390, 16266, 2826, 20574, 8374, 27512, 40580,
      30658, 29871, 16323, 35542, 24901, 2993, 48980, 11574, 2088, 26152, 27735, 29094, 23837, 35979,
      22917, 26463, 29356, 12945, 9113, 23825, 20186, 36619, 10761, 12946, 49637, 29285, 25336, 3547,
      10648, 27218, 20831, 29279, 21666, 33797, 13539, 24196, 20755, 13315, 11806, 21167, 32801, 20292,
      36204, 10609, 12783, 15566, 36995, 24501, 27951, 12124, 16886, 13497, 4010, 15805, 7496, 41524,
      15480, 45668, 1992, 40968, 9097, 27847, 21127, 19682, 26055, 18521, 5579, 45818, 8891, 30235,
      8249, 21837, 34009, 28124, 1423, 436, 13084, 45221, 33978, 37188, 31524, 14339, 41221, 7238,
      44196, 20912, 23964, 34113, 43168, 43761, 43060, 5642, 2743, 7247, 26374, 26126, 24347, 32555,
      30909, 31675, 22237, 1565, 16181, 12229, 49329, 42007, 18848, 21194, 3772, 5853, 11541, 35462,
      26678, 33420, 30409, 11812, 45919, 7725, 21333, 31591, 49064, 37565, 22902, 48301, 15517, 47999,
      30606, 13976, 29923, 26787, 43809, 18192, 37484, 5129, 47288, 32350, 38061, 18555, 3242, 41267,
      29681, 49869, 45870, 5144, 31332, 23796, 979, 28745, 37009, 11915, 46558, 43680, 6282, 15971,
      29449, 18453, 41299, 5672, 9976, 29214, 11619, 7586, 20345, 47400, 45691, 31057, 45526, 11262,
      21489, 16079, 20986, 32108, 28189, 12000, 18285, 3074, 1078, 10499, 17370, 48766, 5665, 2989,
      28735, 45554, 12487, 2814, 7516, 18679, 17954, 961, 30928, 1791, 48390, 4393, 22823, 40143,
      24015, 25804, 5749, 35437, 25374, 11547, 32996, 39908, 18314, 49925, 4262, 46756, 1800, 18519,
      35824, 40151, 22328, 49239, 33673, 32273, 34145, 9233, 44244, 29239, 17202, 42408, 46840, 40110,
      48482, 38854, 6942, 35047, 29507, 33984, 47733, 5325, 29598, 43515, 15832, 37692, 26859, 28567,
      25079, 18707, 15200, 5857, 39087, 30893, 45278, 16398, 13653, 13748, 23965, 45552, 30219, 24079,
      12181, 21848, 14290, 24755, 35013, 15361, 48038, 36311, 30239, 7195, 3579, 36147, 34095, 10441,
      16307, 4204, 6957, 9163, 20627, 17567, 14832, 27029, 44197, 1, 35449, 30903, 7648, 4217,
      10474, 1185, 46701, 26826, 12090, 5386, 17351, 18844, 28816, 43052, 11347, 42802, 3979, 7090,
      21599, 34264, 17930, 41958, 25484, 21027, 29093, 24608, 44987, 24542, 24878, 18528, 40247, 7104,
      11489, 16072, 4056, 42723, 24037, 7191, 35650, 938, 19424, 18115, 31659, 1072, 43347, 35156,
      30665, 44882, 40153, 42523, 16063, 34408, 13655, 45250, 28135, 17267, 29671, 28772, 90, 44127,
      26459, 49622, 41140, 11416, 35988, 498, 22364, 35936, 28243, 37229, 15910, 20850, 46505, 29291,
      30501, 5145, 36137, 27390, 7487, 33923, 24786, 12488, 27743, 12956, 21463, 6493, 29115, 47310,
      37858, 31565, 41201, 28826, 4645, 27091, 25639, 31244, 48649, 5757, 41435, 28800, 19882, 6140,
      6912, 10520, 11532, 48956, 40406, 20589, 46432, 7361, 20072, 1457, 5201, 42216, 14511, 36415,
      45530, 32440, 29016, 1796, 21749, 46577, 3018, 33436, 13371, 15647, 19258, 17432, 21368, 32827,
      12212, 6703, 35536, 44950, 15030, 2645, 21794, 15780, 186, 43430, 8106, 2166, 6316, 32534,
      11398, 13130, 49384, 30282, 24128, 45628, 49152, 27557, 4932, 280, 20966, 20094, 28565, 39718,
      11097, 29137, 39067, 28486, 3723, 24959, 33350, 30775, 3281, 44437, 10491, 12539, 7732, 43645,
      31386, 9701, 25421, 16948, 6319, 10118, 17816, 2845, 20870, 15541, 41229, 3578, 30923, 38040,
      14023, 41880, 29880, 682, 25618, 4230, 5935, 30233, 12899, 16284, 5001, 2923, 21240, 18094,
      49718, 2691, 7827, 4811, 36510, 3446, 28346, 41778, 8156, 18765, 17473, 27183, 39559, 44924,
      44414, 48323, 28781, 44439, 44113, 48929, 1231, 7751, 108, 40330, 22514, 14146, 16839, 48569,
      3529, 3110, 23597, 19753, 23129, 45215, 24899, 38977, 35827, 48852, 33472, 37983, 12498, 37632,
      1396, 12358, 44374, 47996, 18421, 15557, 3141, 49218, 49182, 46545, 16864, 7336, 25145, 34437,
      4289, 38065, 6663, 36962, 36710, 17736, 3202, 45847, 46888, 41453, 28055, 36871, 30375, 8288,
      33597, 17834, 35232, 2323, 34822, 31488, 38008, 36663, 39035, 37972, 24735, 6753, 8480, 10421,
      42517, 19908, 16170, 46873, 15381, 42217, 42370, 24856, 26699, 35397, 34127, 4546, 43236, 33281,
      43743, 6149, 10688, 42707, 44465, 38932, 8632, 49279, 19334, 34664, 13047, 17595, 24013, 33192,
      39495, 42392, 27205, 19327, 1323, 17082, 34621, 29780, 41952, 24595, 10351, 14076, 608, 49583,
      41118, 15258, 41762, 16790, 32310, 30070, 37429, 17919, 49005, 383, 15331, 39309, 22848, 12781,
      14524, 29005, 24639, 13832, 42399, 475, 36800, 18372, 24106, 26758, 1467, 46223, 6724, 14018,
      14019, 37664, 17462, 34018, 8122, 14400, 7600, 36897, 44429, 47765, 3303, 6342, 23556, 15464,
      923, 20458, 3601, 39664, 3875, 6868, 7028, 34519, 4346, 42202, 20903, 41872, 8541, 6006,
      15404, 23728, 39782, 11402, 40075, 30389, 2625, 40571, 16718, 39070, 14881, 24626, 45886, 39562,
      39570, 22175, 14664, 20735, 18938, 33113, 41687, 47224, 18349, 32614, 41823, 5784, 47761, 43474,
      27996, 7989, 24046, 37658, 2357, 48586, 49350, 1398, 30359, 15274, 43313, 13501, 9279, 38054,
      35520, 41307, 48422, 38628, 37467, 16900, 18439, 40811, 470, 17018, 33441, 9038, 32850, 42367,
      42219, 14971, 45349, 7969, 39257, 46278, 46592, 31454, 22417, 13926, 37401, 43737, 30779, 3643,
      9724, 33614, 27844, 34914, 8501, 9392, 3248, 8913, 10427, 27038, 25237, 25927, 38178, 17180,
      10072, 32148, 33136, 41096, 11632, 18044, 181, 9206, 13660, 49198, 23923, 14766, 1143, 29225,
      19485, 44866, 37958, 20021, 38219, 40063, 46917, 24697, 13645, 37893, 30388, 1008, 33452, 37175,
      24362, 16064, 8147, 48371, 18821, 40309, 25098, 10308, 41325, 23587, 13443, 46795, 35823, 45302,
      20667, 35110, 33504, 37964, 12736, 10608, 21453, 4285, 37495, 41499, 37440, 33207, 1623, 38430,
      43778, 8134, 29537, 9737, 17210, 7609, 20623, 31347, 16467, 25417, 26559, 2877, 24433, 43714,
      44228, 34575, 40894, 6110, 30071, 4919, 23602, 38566, 38519, 43735, 41048, 10178, 47491, 35019,
      3704, 26848, 49626, 22254, 12838, 39269, 31341, 33036, 31227, 2259, 1335, 44090, 12573, 9232,
      13420, 26637, 47827, 27522, 2453, 13999, 22598, 42516, 34071, 47039, 37894, 18326, 35565, 18596,
      44018, 28852, 5038, 28822, 23787, 46905, 29223, 33531, 19409, 36193, 44585, 29686, 4400, 29560,
      42632, 15998, 25919, 38096, 8672, 36699, 46166, 40051, 28631, 3833, 22019, 49427, 10059, 36529,
      18832, 47779, 38746, 35243, 35417, 27945, 30291, 1284, 15532, 46283, 26891, 36066, 11947, 18650,
      45147, 1023, 17541, 34366, 32622, 34336, 7275, 23982, 44485, 20807, 38767, 46141, 26625, 42067,
      6197, 48227, 26507, 15083, 10890, 43640, 4160, 19469, 32270, 37558, 40988, 18142, 45202, 2633,
      26124, 32213, 34405, 9137, 31372, 11900, 4178, 44058, 20924, 32986, 550, 42999, 41261, 45854,
      39403, 47793, 11463, 37092, 20295, 34463, 28811, 29383, 13424, 4949, 18730, 3316, 31664, 37317,
      21579, 25922, 41241, 13462, 48501, 43223, 47155, 29352, 6237, 31908, 13464, 3524, 40671, 11153,
      48286, 44601, 24588, 42052, 30094, 29957, 41218, 10343, 41793, 41582, 10842, 43606, 3719, 6355,
      6521, 9288, 45561, 33315, 18398, 2284, 49851, 34996, 40965, 3503, 12712, 49874, 28796, 35541,
      31609, 24139, 41456, 27572, 26180, 10252, 44408, 19886, 34705, 32331, 3287, 8661, 5394, 31013,
      10829, 4159, 1240, 38049, 267, 46233, 23454, 30681, 48635, 8091, 36130, 12009, 39991, 36670,
      7611, 15215, 19490, 6543, 18397, 33259, 6860, 39945, 43870, 21245, 18911, 21480, 27501, 10250,
      37318, 31294, 48037, 25273, 38943, 14065, 18551, 29205, 40793, 24095, 9398, 45519, 39783, 36306,
      20248, 39966, 46349, 42238, 20879, 9562, 41720, 7080, 15871, 12335, 32616, 36109, 26610, 25044,
      11667, 29518, 4029, 16269, 26759, 17723, 48742, 10999, 36774, 42055, 39221, 49413, 17295, 33670,
      31737, 16424, 36726, 19460, 49781, 39931, 15363, 10951, 46802, 20604, 21104, 25013, 2149, 16666,
      33565, 35158, 17224, 34751, 2374, 29066, 43247, 17726, 2097, 34435, 24864, 45117, 15975, 10037,
      4764, 1410, 20177, 19058, 34220, 10007, 16366, 13511, 10802, 45252, 226, 32660, 46343, 14036,
      5128, 10337, 49909, 21882, 27163, 48436, 8628, 12896, 2949, 1174, 7901, 23980, 44826, 44161,
      20482, 2891, 37874, 12033, 47584, 29653, 24621, 32010, 34472, 35164, 49630, 32258, 18896, 21539,
      21441, 37709, 48761, 48209, 19045, 43552, 42199, 17951, 6551, 35402, 47104, 49362, 41731, 1698,
      19444, 27271, 5549, 26612, 7656, 47784, 49328, 11487, 25588, 48718, 34150, 42155, 35162, 47371,
      20554, 12802, 34279, 44373, 25249, 31638, 32304, 27308, 6036, 24441, 1497, 39193, 11821, 27173,
      16156, 18962, 25569, 3282, 31627, 39055, 30506, 32127, 19408, 29185, 12370, 38770, 750, 41599,
      20516, 28326, 19110, 11297, 39633, 24573, 311, 21908, 19587, 29744, 4665, 35750, 39147, 22128,
      1696, 7416, 12640, 6865, 28385, 19649, 5053, 49769, 23635, 33249, 7599, 43392, 43456, 37407,
      41024, 47278, 48263, 11072, 12169, 39201, 8304, 48481, 47649, 2489, 22070, 45536, 15181, 4593,
      47825, 14399, 31833, 1326, 28886, 5756, 34205, 36153, 20723, 36994, 3350, 25393, 49488, 20024,
      49725, 438, 24876, 6740, 15253, 29977, 5684, 42438, 46100, 1188, 9994, 44370, 31231, 41572,
      41159, 33061, 43388, 33376, 6649, 46927, 25932, 47239, 21569, 33865, 7981, 9595, 44735, 27132,
      47507, 773, 46076, 3394, 25869, 45167, 21565, 32116, 38369, 21115, 32564, 10709, 40748, 25915,
      11592, 23815, 28597, 15507, 28891, 11296, 5809, 22792, 47773, 31787, 22014, 49483, 48674, 29707,
      6222, 43297, 43999, 18647, 1426, 8101, 41476, 2754, 2617, 10880, 12815, 32765, 17895, 36937,
      47654, 37619, 1763, 26653, 28644, 1656, 8202, 2277, 49716, 11247, 43728, 23389, 37128, 7747,
      4559, 23643, 47263, 33218, 896, 37604, 16530, 2927, 47993, 16591, 43378, 6561, 35922, 10243,
      42536, 39548, 15726, 32176, 33310, 49117, 6401, 39704, 41027, 33138, 44169, 28219, 37111, 21396,
      40126, 34453, 24056, 18778, 26005, 36028, 31123, 4679, 5771, 22909, 38535, 42407, 32918, 180,
      47905, 21581, 15938, 20679, 10035, 10423, 46450, 8090, 11751, 35100, 21667, 22095, 15612, 13,
      4251, 8494, 3674, 8721, 13556, 37676, 7671, 29353, 17080, 18741, 21121, 40855, 40948, 47824,
      4496, 47470, 5460, 11789, 33240, 11742, 13552, 23518, 13053, 13814, 30269, 38469, 10077, 23458,
      23068, 30637, 24017, 38433, 38820, 1213, 19211, 10329, 12790, 29688, 33869, 3683, 30901, 10237,
      37470, 15662, 19166, 11550, 10287, 36474, 31200, 39959, 3914, 26611, 33231, 40141, 17003, 41831,
      14045, 47192, 23210, 41782, 48878, 39266, 32124, 44794, 44891, 44997, 45399, 45146, 44336, 25549,
      22204, 24567, 39154, 48670, 18388, 32523, 11225, 7020, 40071, 3442, 631, 26317, 49898, 37247,
      20194, 27568, 600, 38876, 47884, 9545, 26012, 17233, 44511, 39581, 7945, 45503, 24352, 25893,
      20037, 17712, 18180, 31857, 4219, 33197, 919, 15526, 12348, 8854, 18998, 9426, 8943, 32235,
      35581, 39117, 27628, 39360, 904, 17411, 32071, 26433, 42024, 8957, 29131, 44496, 10538, 31183,
      3318, 34638, 157, 46258, 4325, 18623, 26951, 5073, 596, 33831, 8339, 22081, 23883, 5434,
      27646, 37436, 16468, 12923, 48134, 10544, 1478, 47979, 22306, 32497, 10113, 12680, 7707, 33179,
      22197, 308, 39878, 471, 41682, 18335, 13360, 42883, 16614, 45198, 24478, 9240, 30459, 37830,
      13480, 41062, 15278, 5082, 17687, 36542, 38416, 9565, 9687, 20258, 12233, 28536, 1270, 42365,
      32418, 16224, 46619, 14198, 9806, 15742, 48598, 18056, 1339, 48283, 23931, 27138, 16419, 49257,
      32896, 14788, 19260, 8620, 23540, 31886, 38390, 40081, 37832, 5401, 47220, 96, 37192, 18004,
      24628, 4913, 5628, 49792, 43119, 24055, 45533, 14522, 49288, 1771, 34596, 42945, 47434, 34000,
      26656, 3349, 42085, 29088, 14050, 37988, 21582, 48646, 43244, 24482, 14009, 1491, 18805, 49504,
      3113, 36708, 12179, 27166, 15232, 12103, 49418, 32468, 29913, 6666, 42851, 15597, 44358, 27595,
      12223, 39735, 3835, 38240, 23846, 285, 17041, 18575, 25636, 33392, 19660, 17005, 447, 4291,
      17891, 34151, 20602, 28165, 8246, 18248, 15382, 45527, 27673, 10398, 44067, 44938, 21080, 16707,
      40188, 34195, 36795, 39052, 4737, 39398, 30727, 7049, 27975, 35943, 204, 30487, 18451, 20731,
      31343, 9981, 10277, 1562, 41849, 33628, 25795, 20646, 21701, 38696, 1968, 35756, 7350, 34688,
      24768, 8410, 30427, 11187, 38021, 14763, 38684, 21816, 47820, 14354, 14200, 6042, 42323, 21974,
      3922, 44566, 25880, 22336, 30357, 17185, 33694, 4149, 32846, 21937, 86, 37413, 35887, 5273,
      9633, 41868, 23835, 21707, 20356, 45040, 16657, 14608, 33080, 25263, 45466, 34211, 32488, 6690,
      49132, 27800, 2715, 11309, 44044, 42979, 32067, 46812, 23933, 32740, 26977, 37482, 39923, 15538,
      41363, 11834, 44916, 15484, 41469, 15760, 15028, 464, 9087, 3622, 24488, 22136, 17933, 47568,
      41670, 20031, 25456, 9572, 24582, 23998, 8765, 44854, 3200, 37522, 40914, 5014, 21454, 30588,
      39630, 30167, 26522, 26647, 46515, 33580, 44084, 46841, 39103, 37780, 9172, 29773, 28711, 47436,
      28450, 32388, 31851, 26782, 19828, 12248, 42347, 6118, 49746, 47953, 28387, 3876, 48290, 24385,
      1303, 46522, 40057, 46627, 2650, 47759, 25828, 6686, 40625, 6346, 33023, 47139, 27639, 3441,
      40079, 33530, 27837, 14981, 35319, 45387, 24057, 17904, 30407, 2133, 13758, 10333, 14857, 5117,
      41436, 41794, 18153, 29421, 4990, 6146, 18191, 15551, 28915, 31196, 32811, 39171, 42304, 20230,
      29462, 2258, 15125, 33360, 48554, 4420, 25769, 48049, 28235, 31701, 20972, 48975, 18666, 2052,
      45321, 15093, 263, 26927, 45066, 46858, 28665, 12792, 21289, 1194, 45404, 49643, 3177, 34278,
      26100, 13004, 1817, 37113, 38942, 19316, 24308, 8902, 33991, 40518, 38023, 15165, 31550, 38949,
      18367, 44513, 15845, 34204, 38438, 18138, 3886, 25648, 494, 41255, 44570, 44746, 44497, 46971,
      34538, 36470, 1274, 20430, 46255, 11986, 38766, 42236, 21273, 26103, 45569, 42099, 23974, 4439,
      28111, 41761, 7908, 25026, 8268, 810, 41543, 9294, 2308, 30993, 10781, 26901, 19273, 5218,
      10646, 517, 5795, 24720, 30853, 6482, 11118, 14095, 24870, 24076, 14090, 14311, 34187, 5388,
      48152, 48966, 17496, 2898, 10610, 46773, 30937, 38030, 14872, 27346, 35749, 48744, 40659, 3615,
      28819, 27372, 35671, 42400, 44214, 4185, 9037, 34421, 5489, 12492, 8124, 43228, 37155, 23109,
      27118, 43508, 48196, 35086, 20218, 4540, 11583, 17155, 30797, 45372, 44630, 48854, 18817, 35911,
      20237, 42836, 4939, 5189, 35707, 16814, 5989, 38558, 47042, 31327, 45935, 8341, 33833, 42083,
      21963, 26640, 6070, 25584, 28348, 36138, 3500, 7164, 23200, 17725, 35925, 11713, 27519, 47661,
      30210, 23818, 45831, 23280, 509, 4416, 16270, 30410, 16290, 107, 28485, 13858, 34259, 966,
      16106, 31146, 21417, 17002, 44375, 46610, 38836, 30773, 4608, 44260, 2548, 17537, 39847, 30052,
      29193, 29073, 18906, 25777, 41741, 11242, 1516, 47585, 1463, 33242, 11031, 29105, 39325, 18885,
      43788, 5941, 44749, 27776, 23568, 38453, 377, 5652, 23571, 5298, 35229, 42486, 20433, 14143,
      12004, 25803, 47300, 2867, 40004, 27804, 31557, 32460, 10385, 26961, 18352, 25478, 15081, 34895,
      44731, 15771, 28443, 37100, 21450, 49134, 14576, 46216, 9298, 6112, 42446, 8372, 47325, 46340,
      30311, 41414, 41531, 10930, 12472, 46842, 16541, 48305, 8357, 1179, 18948, 29360, 1801, 20485,
      42680, 37227, 31233, 19780, 17354, 46023, 16841, 42748, 22390, 19813, 14880, 33075, 2043, 42923,
      49502, 39426, 12597, 42394, 26764, 40919, 45953, 30876, 47743, 29274, 2858, 40621, 9739, 13755,
      12668, 28007, 18868, 16670, 1346, 43232, 27023, 9377, 3102, 5613, 1427, 23037, 29159, 49552,
      44069, 16742, 14558, 33889, 18273, 32025, 20318, 9842, 12151, 31993, 45180, 22719, 13557, 6136,
      48215, 5288, 46935, 27443, 21203, 14014, 32342, 7653, 37575, 10772, 23700, 23665, 7900, 17894,
      43065, 22910, 49811, 41998, 25066, 31716, 45600, 2935, 16584, 2232, 3592, 42985, 36155, 47066,
      38474, 46637, 35025, 4216, 20814, 8508, 30144, 7279, 31211, 45193, 43540, 34182, 43808, 33601,
      30265, 21327, 1332, 22872, 15159, 46012, 278, 6646, 26413, 13902, 6352, 23335, 49537, 37824,
      6275, 15599, 22646, 374, 27791, 2087, 38500, 9440, 16348, 20820, 25049, 19079, 14348, 45239,
      4900, 6514, 26885, 38585, 1146, 12959, 30287, 40759, 12990, 46398, 24534, 15017, 49529, 44835,
      27833, 45036, 45168, 17598, 10368, 47655, 10700, 49323, 34047, 29367, 7281, 39355, 5137, 396,
      20026, 26032, 45065, 39507, 12623, 19175, 49820, 13391, 4148, 32710, 41031, 13206, 47294, 37989,
      19711, 37293, 43124, 45924, 13800, 24349, 29514, 36556, 27774, 11778, 35082, 398, 7567, 14501,
      27344, 23030, 46068, 49262, 35331, 46846, 4214, 5183, 15607, 44776, 13058, 34282, 19609, 15699,
      49100, 37681, 6987, 22698, 5500, 4815, 47631, 43042, 4571, 22451, 25285, 4183, 42829, 3602,
      566, 10962, 23868, 48977, 47460, 45712, 18709, 10575, 6247, 43046, 15725, 47336, 34128, 45155,
      32892, 7605, 6024, 28659, 23757, 32744, 25314, 42798, 1638, 38834, 19832, 46070, 17317, 8993,
      41593, 25272, 3388, 31579, 47883, 29456, 9548, 20196, 38522, 8686, 30012, 43588, 36372, 19730,
      34424, 41373, 24731, 20552, 8768, 40618, 46285, 29494, 30395, 19926, 4048, 22613, 30426, 25943,
      42245, 40448, 31810, 5764, 5815, 30047, 7236, 23038, 41788, 46409, 15936, 38935, 9103, 14302,
      26976, 2679, 13608, 48691, 7375, 36889, 2505, 38283, 21926, 49395, 23045, 43895, 15962, 35878,
      19568, 2714, 15561, 9697, 28989, 4770, 9535, 42244, 37281, 45747, 22334, 19664, 15249, 36226,
      17016, 34125, 31583, 6375, 43478, 25202, 15815, 26770, 16854, 36261, 437, 30223, 7315, 4928,
      24681, 16933, 5242, 4471, 19600, 8047, 28456, 14299, 31963, 40464, 13066, 38881, 17831, 29106,
      47857, 4235, 44792, 38704, 8723, 29117, 20763, 17510, 33855, 27239, 9409, 14521, 20795, 43578,
      37703, 23658, 37354, 40519, 24528, 5826, 9619, 35905, 34952, 27902, 17756, 30880, 22865, 14206,
      34771, 36434, 49090, 17255, 11671, 42572, 46688, 42310, 29132, 9048, 2622, 6334, 25863, 44212,
      45327, 32433, 41787, 32871, 17396, 7573, 47291, 16612, 24800, 23637, 7829, 17836, 8708, 3108,
      1416, 31769, 15102, 21704, 31068, 3495, 37363, 37248, 30814, 35106, 14898, 16721, 39445, 16701,
      17731, 31506, 15135, 14658, 37294, 24135, 34106, 45763, 40431, 29616, 48602, 18136, 46641, 28078,
      49765, 30840, 22858, 2496, 43264, 38609, 15388, 11115, 33098, 10484, 44852, 47335, 13595, 32636,
      5775, 41700, 46642, 29498, 44762, 14934, 45956, 5148, 40380, 34050, 6549, 46891, 47963, 48993,
      9658, 10994, 34655, 28738, 12307, 49978, 30465, 25303, 42046, 1109, 48226, 42034, 6010, 29237,
      7555, 47956, 20397, 9299, 353, 1133, 45724, 44380, 32000, 10944, 22513, 13983, 3011, 43600,
      42879, 9229, 32062, 38715, 18391, 40713, 39585, 44506, 29330, 7640, 12267, 44040, 18724, 38357,
      40538, 10044, 2825, 36328, 26166, 4032, 15824, 48013, 2713, 40692, 13561, 13151, 34090, 15465,
      17136, 24632, 25418, 45604, 2856, 10085, 5536, 22566, 48991, 4077, 18427, 5981, 49352, 42776,
      9035, 25672, 31408, 48741, 11272, 29008, 42130, 479, 16214, 36552, 31842, 30187, 266, 46779,
      28667, 1090, 44557, 42739, 39525, 18342, 42076, 30578, 3193, 35963, 30910, 47877, 2337, 1197,
      46675, 7778, 9871, 29595, 30122, 5134, 14115, 39949, 20649, 3007, 38420, 9568, 10029, 28825,
      16981, 21022, 30550, 8934, 42574, 24316, 24841, 10568, 26338, 46412, 40090, 5510, 34869, 6339,
      43445, 48298, 48103, 24646, 6246, 36772, 2220, 34104, 33605, 3930, 22652, 27359, 7030, 49136,
      774, 573, 44345, 44088, 1465, 6167, 3367, 15307, 3438, 7492, 24432, 40725, 36954, 23146,
      10221, 27789, 38748, 38673, 48914, 19085, 43688, 9771, 34737, 30390, 6797, 37270, 27434, 13400,
      883, 7303, 45124, 874, 45943, 11458, 23877, 11, 27813, 10713, 46014, 3645, 10448, 41968,
      3813, 4523, 7231, 39423, 46647, 12547, 10917, 16904, 39863, 24728, 12695, 36114, 29694, 7528,
      28808, 4756, 30432, 1108, 11090, 42876, 28136, 19860, 8054, 5886, 44551, 3542, 8359, 15074,
      40589, 19528, 2333, 37768, 37791, 22894, 11790, 43628, 47118, 17703, 14474, 22427, 28883, 5785,
      27395, 5883, 37911, 7002, 8801, 39803, 46757, 34684, 17117, 31532, 268, 3142, 4800, 35868,
      7422, 21413, 4396, 2156, 28372, 32050, 1441, 25015, 25072, 27121, 49882, 19546, 35893, 13905,
      32947, 15558, 6527, 49722, 17487, 37634, 16966, 12858, 48444, 11146, 24050, 1496, 733, 44488,
      11903, 11129, 16794, 33663, 21063, 2330, 6328, 48537, 36840, 2072, 35883, 19959, 38707, 23633,
      3219, 28910, 23847, 45261, 24888, 4040, 27396, 26244, 10410, 41277, 26419, 444, 32613, 11250,
      39232, 40248, 39372, 13573, 26815, 48420, 25217, 1336, 6564, 4957, 48693, 3973, 16109, 22323,
      5964, 31092, 34344, 18925, 28612, 21222, 6991, 29938, 43704, 1474, 48990, 24645, 8857, 10877,
      1553, 37578, 12689, 25617, 41109, 31132, 48803, 6043, 43547, 28912, 44032, 52, 37954, 274,
      12231, 13721, 47340, 8490, 43142, 25219, 38951, 21567, 2119, 47553, 23725, 25603, 36283, 21197,
      30433, 34155, 10454, 15621, 34509, 17987, 24597, 5030, 34548, 14159, 6363, 40768, 20643, 15423,
      49039, 21189, 15080, 15811, 30748, 36991, 41059, 39689, 30315, 31041, 27317, 13643, 452, 36293,
      33102, 32416, 11206, 11269, 41775, 29919, 29748, 11690, 28356, 12428, 40272, 12154, 17248, 15010,
      1878, 33962, 22497, 46347, 23890, 29745, 8476, 44992, 47798, 31053, 42391, 6465, 18527, 41812,
      20779, 17697, 2532, 43165, 22147, 35189, 20347, 13254, 17162, 48079, 23876, 33803, 40092, 12096,
      16201, 39406, 9588, 37987, 43143, 44911, 23, 39212, 41018, 22083, 30271, 17247, 9132, 36928,
      2807, 32837, 7328, 13941, 49491, 26524, 17612, 35054, 6875, 6134, 5944, 9527, 40132, 38074,
      19966, 27189, 6216, 41358, 7654, 6442, 4508, 23344, 3600, 14976, 41805, 35921, 16822, 6176,
      12986, 27471, 4738, 1512, 12843, 9810, 42421, 9761, 31434, 34916, 25983, 19295, 19670, 960,
      19217, 35543, 41604, 5140, 27108, 13301, 2306, 42385, 34257, 46038, 16840, 1839, 8500, 36606,
      26980, 20928, 1563, 28005, 32759, 13581, 24382, 21713, 32824, 35171, 46913, 7325, 35606, 46909,
      43586, 30072, 19789, 25292, 16140, 40252, 34494, 2138, 17641, 14704, 11887, 11511, 47417, 21906,
      33634, 5643, 27154, 4020, 15864, 7380, 5450, 19035, 29216, 31967, 7580, 34486, 12114, 47351,
      42855, 41510, 19559, 44698, 2142, 28254, 10264, 20338, 2273, 21476, 33072, 43152, 11086, 15190,
      30350, 40313, 309, 29887, 48510, 1348, 29701, 30674, 33253, 41916, 45963, 39160, 12829, 8482,
      18512, 4387, 29862, 16745, 20692, 27814, 22924, 3639, 35174, 48488, 39675, 10963, 27267, 28291,
      16869, 1113, 34711, 24344, 21867, 29071, 4456, 24716, 42665, 11082, 13438, 42784, 24043, 42160,
      20979, 7721, 38052, 11126, 31715, 27270, 20632, 10107, 34026, 21670, 38719, 47484, 17532, 47275,
      2091, 48939, 38493, 22288, 32221, 47424, 42271, 25328, 32927, 23904, 10065, 35484, 15356, 4824,
      27805, 29636, 46914, 47768, 33815, 10307, 29589, 15750, 9010, 6456, 41454, 20212, 7579, 22171,
      30730, 36269, 28012, 35559, 4592, 7388, 44988, 6330, 8426, 768, 21018, 33790, 37431, 41740,
      43865, 34665, 42163, 44378, 43078, 28269, 35297, 13124, 13694, 7720, 9330, 35802, 14001, 28990,
      21100, 15297, 17102, 13032, 46181, 38593, 20664, 32902, 43754, 7755, 46177, 43538, 44484, 15145,
      43407, 49343, 23768, 9974, 27297, 46650, 24562, 24865, 623, 9281, 13363, 17079, 2408, 22583,
      342, 41947, 31168, 40905, 32285, 30018, 30905, 20487, 15889, 7685, 40346, 19986, 37424, 44337,
      28403, 7665, 16594, 31043, 18086, 18894, 47872, 32929, 45400, 43921, 13713, 33495, 23024, 36834,
      2960, 26845, 27357, 36579, 47509, 11551, 13867, 48020, 8467, 35935, 17109, 49979, 5860, 11364,
      18063, 15937, 1277, 13139, 36922, 10765, 33014, 40746, 8975, 3106, 11128, 38079, 2676, 44872,
      38489, 14314, 22103, 43064, 34276, 20869, 22248, 26429, 13310, 18463, 9750, 14431, 20938, 40117,
      11963, 34078, 2758, 49077, 46969, 24987, 22919, 7724, 38958, 1411, 15020, 4639, 35290, 27779,
      48644, 7606, 36571, 22618, 29889, 21992, 4526, 13172, 11710, 22059, 35006, 36089, 47026, 741,
      9052, 26275, 32914, 12574, 9641, 26371, 25404, 8165, 28447, 20920, 46570, 10458, 12918, 15593,
      23520, 38224, 33569, 30700, 11509, 30301, 37322, 35500, 30619, 20477, 7152, 32137, 36494, 30514,
      39669, 27145, 33851, 42972, 16680, 40833, 27017, 49672, 13256, 7873, 4202, 2239, 22602, 1221,
      1412, 34632, 23105, 6612, 19478, 5679, 3560, 9836, 44534, 6186, 14366, 38482, 29641, 5878,
      44747, 22303, 27807, 34368, 24540, 4097, 36836, 19854, 17811, 44581, 30719, 46575, 6871, 40896,
      9959, 8231, 47942, 14585, 19242, 11641, 44290, 3635, 3096, 26743, 26117, 45815, 2376, 20571,
      48653, 13966, 30000, 16621, 28397, 20744, 8450, 4514, 40911, 40208, 6914, 45717, 38418, 27778,
      32358, 25782, 43627, 11104, 49797, 29797, 4342, 37039, 42545, 28300, 23153, 4998, 42041, 24598,
      20259, 6898, 30097, 13019, 45479, 14916, 36364, 28843, 30430, 19537, 44925, 48141, 17844, 26051,
      40095, 28837, 48981, 7722, 13793, 1357, 26615, 2525, 41215, 9027, 40422, 15497, 32965, 13802,
      19293, 35829, 22069, 20038, 33016, 31584, 28877, 20444, 42251, 45859, 11847, 44935, 11810, 22020,
      28966, 20867, 8133, 5306, 2577, 36084, 39302, 22351, 28331, 16358, 12681, 7978, 16123, 5421,
      31360, 18714, 8982, 3998, 28875, 7409, 37769, 251, 48022, 43963, 39491, 4819, 37775, 20283,
      30145, 22871, 7845, 24481, 33469, 23591, 10261, 8860, 31636, 18729, 46201, 44841, 42497, 542,
      19821, 3852, 36270, 35380, 6002, 32199, 5198, 42475, 43324, 8354, 22913, 40622, 21594, 46686,
      12027, 43683, 30419, 19603, 20168, 14341, 18664, 40528, 46366, 29935, 19412, 22037, 6326, 47980,
      28802, 40797, 2917, 2229, 20023, 39789, 7963, 45928, 41250, 7744, 48342, 47115, 35702, 14068,
      16276, 5654, 3779, 10522, 40514, 3344, 23646, 19683, 15024, 10480, 35255, 24004, 15132, 17722,
      21813, 21979, 17483, 28197, 6633, 313, 19378, 13120, 12048, 49013, 5961, 4635, 17112, 44524,
      4457, 12172, 18968, 14707, 4194, 25814, 4497, 31529, 2780, 28034, 46816, 19007, 14104, 32867,
      42609, 27767, 4650, 8223, 35076, 43043, 10183, 38838, 13745, 23338, 39021, 47381, 3063, 46695,
      2115, 24693, 12650, 7880, 22291, 16723, 33928, 48954, 248, 30234, 45576, 7627, 43810, 25353,
      15539, 39702, 31714, 35895, 27851, 14064, 5231, 2668, 30259, 83, 42549, 22280, 2053, 34460,
      31536, 32027, 38996, 13398, 23654, 48132, 28122, 44627, 22477, 18957, 45062, 39622, 6272, 46210,
      27985, 14384, 34973, 15537, 41354, 42275, 16573, 43979, 40058, 44395, 31773, 39278, 44875, 32565,
      45176, 8713, 19331, 43289, 4191, 22752, 16174, 19872, 26992, 40835, 32453, 12286, 16962, 45468,
      22060, 17072, 40163, 8343, 5960, 40137, 34912, 3853, 48970, 22707, 8741, 47689, 23094, 34359,
      39433, 45805, 45852, 43891, 723, 12324, 30339, 24748, 5172, 42366, 28922, 2295, 17588, 42032,
      4640, 45670, 38427, 47214, 22780, 5570, 31288, 40830, 22819, 41077, 41961, 46029, 39996, 31243,
      13174, 6502, 30325, 21880, 5078, 16987, 43084, 22153, 24060, 28845, 35117, 19431, 21324, 24539,
      31302, 14100, 3777, 4974, 431, 34960, 49173, 33006, 20783, 25140, 8313, 47502, 6324, 21220,
      42949, 38113, 31757, 17807, 25799, 11195, 30360, 22997, 31234, 11238, 31503, 16890, 34544, 35439,
      19038, 45407, 44053, 34254, 44149, 43186, 5321, 27339, 32397, 30997, 46434, 746, 9162, 10628,
      30228, 30892, 21893, 38056, 49229, 4705, 8522, 32012, 15411, 24797, 11764, 14894, 39234, 1555,
      44519, 12887, 20492, 27699, 49359, 40841, 6513, 11368, 45759, 30156, 20817, 35718, 1997, 48802,
      49607, 40002, 37734, 14320, 43354, 19105, 9992, 9056, 36247, 25691, 22133, 27016, 39834, 37005,
      1558, 2578, 14835, 5081, 8201, 17293, 30190, 18121, 12322, 25468, 22363, 19277, 738, 24062,
      709, 9464, 36655, 38305, 42380, 13125, 5098, 47613, 22822, 13077, 47425, 11020, 44341, 3585,
      16887, 10921, 9786, 30411, 25245, 1111, 33559, 21342, 11180, 29687, 11259, 13377, 26434, 24237,
      15481, 36681, 18392, 27366, 6824, 30642, 49945, 3116, 25998, 47475, 40472, 16826, 43435, 32147,
      14700, 6956, 7105, 23176, 33702, 34313, 18362, 27841, 11000, 31710, 13131, 19788, 18649, 7162,
      25798, 2529, 29321, 4461, 24389, 1549, 43822, 16316, 39544, 18338, 41002, 4068, 13325, 40575,
      41944, 29292, 19545, 34849, 26931, 43448, 24499, 47356, 24637, 18843, 42336, 33858, 14956, 11879,
      3803, 3566, 5174, 41649, 39264, 20726, 26827, 25171, 6707, 21035, 462, 18795, 43087, 10969,
      37246, 37242, 6271, 31084, 33148, 10381, 5246, 1429, 11768, 24939, 44851, 20548, 33, 47418,
      33234, 41864, 5233, 23981, 27820, 1550, 1888, 40263, 10217, 40086, 37056, 8670, 5221, 9414,
      39259, 17965, 43182, 15851, 24606, 43105, 39713, 13226, 45897, 44296, 16026, 30082, 2227, 5471,
      48788, 29074, 17497, 13914, 2207, 19621, 13857, 35039, 23214, 9023, 32923, 41281, 47975, 28626,
      35471, 6165, 22879, 13920, 37490, 10048, 48637, 19497, 6454, 6052, 239, 616, 9831, 13452,
      15283, 8362, 36588, 3284, 17192, 27006, 13108, 3638, 32120, 17823, 37064, 45156, 20540, 37591,
      37386, 11141, 29663, 40840, 7278, 30726, 49318, 30944, 35145, 43, 35084, 40921, 27252, 20816,
      27686, 10137, 18798, 30135, 6700, 15983, 40171, 312, 42375, 15459, 36141, 29580, 7876, 33366,
      31430, 11642, 11378, 13517, 40665, 11131, 49877, 26596, 35767, 5278, 14430, 6062, 5694, 43327,
      8910, 6760, 43542, 42625, 16315, 39741, 2117, 15355, 39987, 38475, 4968, 831, 33184, 14180,
      43876, 8574, 7986, 35611, 25928, 1456, 15587, 19783, 23968, 31905, 35934, 47546, 22569, 27732,
      49443, 574, 38393, 26688, 37043, 16871, 7001, 30374, 14006, 5219, 42453, 29444, 30491, 30275,
      18010, 4330, 20438, 10671, 41997, 48381, 45378, 29929, 25077, 30114, 5732, 3988, 34910, 2828,
      5226, 196, 13658, 15603, 28127, 14606, 35815, 26300, 2725, 36300, 20759, 22096, 8748, 34325,
      34830, 6857, 44017, 25644, 43112, 1781, 31477, 34027, 2264, 9143, 23496, 42643, 16889, 3530,
      24126, 17237, 18828, 28838, 15518, 2971, 44580, 27282, 16659, 24990, 16172, 31950, 827, 2448,
      25458, 48145, 37844, 29761, 23421, 25725, 12153, 22053, 44134, 22089, 26652, 43349, 38380, 17998,
      30349, 16330, 31006, 42859, 46690, 29306, 40741, 14653, 14646, 19863, 11570, 21055, 41766, 7706,
      29925, 30687, 4776, 43233, 7174, 21335, 26316, 33323, 47737, 24743, 34877, 15318, 844, 35020,
      29820, 9880, 25375, 36236, 9291, 41477, 31572, 40476, 20417, 12163, 33585, 10081, 37854, 26587,
      40140, 43375, 3245, 28249, 21768, 10669, 33668, 23794, 10405, 8114, 42333, 11470, 959, 618,
      31900, 4308, 33202, 20084, 30685, 4293, 19461, 24176, 35345, 34265, 14701, 49858, 15119, 30089,
      45907, 19608, 12536, 19902, 46112, 36024, 28449, 31527, 35857, 29543, 3337, 39075, 23681, 21502,
      4771, 40689, 6399, 40521, 48122, 19001, 16922, 40645, 19120, 8892, 40243, 754, 9072, 9407,
      48864, 48652, 34833, 48521, 12711, 42578, 30192, 24018, 17089, 28143, 17345, 42063, 48396, 49360,
      27535, 21091, 7369, 40614, 23966, 42044, 44621, 15312, 7809, 8295, 39045, 20003, 2254, 3403,
      23276, 44663, 43373, 554, 28407, 48262, 35864, 43382, 14278, 37690, 43878, 18266, 33442, 10428,
      17777, 7759, 29303, 6870, 37197, 5041, 23845, 40825, 5882, 8735, 12354, 5173, 45723, 37908,
      49574, 45644, 36518, 45376, 22046, 19972, 39239, 17686, 1732, 12917, 32295, 12474, 13337, 14295,
      34955, 35856, 23780, 48686, 16492, 38443, 10414, 13024, 48398, 15176, 12101, 42950, 20959, 29787,
      24615, 9149, 986, 13993, 22986, 34601, 793, 49659, 41727, 42869, 49668, 13345, 21030, 8021,
      4921, 29170, 21541, 38633, 12160, 35579, 39826, 15224, 991, 23978, 27343, 9698, 2129, 35012,
      5535, 30149, 45819, 22384, 26271, 10091, 25632, 1889, 30863, 40054, 20993, 25203, 5637, 11484,
      2233, 5018, 20117, 37814, 8013, 48824, 32677, 38025, 5667, 11256, 28238, 48911, 17168, 13816,
      27555, 2974, 23720, 26187, 1337, 33330, 49306, 49179, 24334, 12250, 27896, 11942, 44693, 38840,
      39843, 36148, 25621, 6594, 1596, 4810, 7475, 31814, 38351, 44907, 46133, 1717, 17896, 4021,
      951, 1446, 15917, 12441, 30327, 4227, 4306, 38676, 2180, 27084, 28041, 17964, 7249, 7250,
      20442, 43860, 8398, 4955, 29577, 34372, 24208, 22430, 48704, 31929, 23455, 779, 16510, 49495,
      17455, 29966, 10653, 38017, 47617, 45199, 33977, 49806, 41248, 8475, 23376, 16849, 47985, 47249,
      38116, 23992, 48676, 31117, 10173, 48782, 35803, 7793, 38127, 977, 31277, 39316, 49078, 39308,
      27479, 16495, 12525, 48801, 42900, 30319, 29211, 48299, 35605, 2440, 10475, 22965, 35241, 13314,
      30551, 28320, 22349, 30556, 9742, 9591, 15506, 33849, 13619, 20129, 17054, 34031, 34539, 39902,
      39468, 44246, 39928, 23287, 14966, 24580, 47736, 10678, 33859, 19031, 3761, 11451, 134, 22377,
      2363, 241, 27442, 29733, 41467, 32736, 47935, 34943, 4783, 49482, 44098, 44022, 13810, 48615,
      10159, 49771, 14856, 47931, 32760, 6025, 22239, 33778, 24695, 47900, 35981, 37536, 31515, 43491,
      38131, 26544, 28566, 32364, 21528, 48041, 23881, 538, 10668, 4879, 7578, 40981, 29532, 31207,
      9169, 45753, 29667, 31035, 11543, 24576, 31594, 27423, 48746, 41422, 22710, 46921, 30489, 22230,
      30310, 14494, 4399, 47717, 47510, 37015, 25853, 36941, 11658, 42502, 32866, 28785, 44381, 20580,
      2398, 12064, 4380, 14940, 35132, 33475, 13468, 41304, 14000, 37935, 14125, 14216, 22518, 1189,
      18444, 20418, 16332, 927, 44753, 29221, 17313, 49871, 8327, 46489, 37126, 18068, 43829, 33355,
      25903, 14802, 16916, 46624, 34533, 17967, 0, 4196, 34807, 13946, 36539, 15521, 29622, 49160,
      17398, 21254, 29121, 28509, 14500, 34706, 47157, 35738, 28382, 9902, 49027, 27337, 43621, 12315,
      21958, 45257, 28585, 48025, 13841, 11056, 49460, 45326, 34687, 32776, 38424, 47345, 45706, 3997,
      3834, 32768, 48592, 31418, 4528, 27770, 30230, 4092, 408, 18303, 24377, 10253, 42924, 42901,
      18591, 13258, 38184, 8585, 3226, 9059, 47085, 6481, 19756, 17890, 40009, 4768, 39775, 35873,
      8841, 45316, 39705, 24738, 24239, 37923, 31751, 44890, 10135, 44568, 4943, 37355, 10968, 15019,
      34321, 36037, 11059, 20877, 12608, 5641, 35783, 49314, 12385, 11286, 33424, 36281, 28329, 48050,
      49647, 825, 12143, 8600, 21785, 31607, 39956, 8499, 28664, 35617, 40316, 11893, 39187, 2487,
      41398, 35649, 14851, 14121, 39177, 7419, 36416, 48548, 19013, 10874, 40929, 3039, 43280, 22454,
      29128, 14848, 39960, 4890, 20761, 29838, 5640, 6069, 39549, 15774, 5292, 19274, 24494, 43250,
      49929, 30424, 40440, 16830, 11997, 9682, 33428, 918, 8093, 49830, 30785, 27019, 45967, 8260,
      23339, 15247, 21743, 13774, 47218, 17530, 4410, 43310, 46496, 45538, 21968, 17837, 26674, 38798,
      24572, 49906, 41194, 38287, 31991, 5523, 22464, 27187, 32255, 5638, 48561, 30839, 44828, 6742,
      11958, 32951, 25754, 15610, 43968, 26680, 8590, 47148, 10571, 21870, 18224, 38764, 27627, 15665,
      40715, 5179, 344, 6702, 12642, 29846, 45782, 19286, 31438, 9263, 26407, 24115, 17698, 24324,
      31538, 31490, 29985, 47494, 16825, 30074, 19114, 8082, 37555, 29544, 28595, 48469, 27495, 16732,
      34653, 40455, 44667, 43836, 38832, 30529, 21610, 22040, 9844, 1024, 47154, 47751, 18348, 21887,
      31603, 26033, 46236, 2647, 130, 33335, 16989, 20777, 24613, 3605, 35124, 20631, 22344, 30675,
      31573, 29948, 46673, 31392, 18045, 49551, 28969, 32452, 20987, 2955, 1092, 16329, 44611, 45118,
      21270, 40038, 5646, 5085, 33891, 710, 1972, 12558, 42174, 32206, 25047, 33747, 2756, 32208,
      11981, 7309, 16503, 39737, 43967, 21945, 14668, 35304, 8889, 39621, 9320, 17805, 49166, 9702,
      40647, 5863, 36580, 21379, 16974, 24859, 30125, 6670, 12217, 21347, 30302, 49775, 12854, 34073,
      32292, 1588, 12739, 22637, 23918, 2375, 21846, 4046, 29908, 15071, 23841, 41174, 45810, 29459,
      38608, 1837, 19265, 20740, 32297, 26995, 35334, 32281, 20383, 20841, 44024, 31355, 44371, 11571,
      2437, 29335, 10005, 40069, 23892, 4269, 16197, 12340, 9378, 36393, 49462, 21003, 23497, 16027,
      1434, 25424, 36761, 4404, 49326, 14172, 10226, 40574, 46632, 33898, 31977, 29037, 3483, 38851,
      41726, 1318, 36910, 36896, 8377, 13705, 20896, 40301, 36387, 13496, 36214, 9766, 41854, 24777,
      16188, 10764, 24238, 20767, 23661, 47334, 27671, 25840, 42026, 15393, 12845, 12645, 43399, 33845,
      28233, 39498, 48380, 31191, 17403, 35161, 46371, 27059, 8613, 9929, 31796, 46288, 47789, 49381,
      38511, 22672, 31373, 1047, 36379, 31700, 27633, 38177, 7701, 46728, 11418, 43127, 11245, 2709,
      5494, 13752, 49931, 23605, 22362, 37130, 27030, 8290, 45650, 44664, 28868, 15984, 22697, 39981,
      29434, 34826, 36065, 21166, 993, 22108, 326, 12384, 43613, 4918, 21287, 33316, 36721, 39631,
      12988, 45472, 49472, 24625, 11627, 8552, 13927, 32771, 4335, 18846, 35309, 10013, 33956, 21416,
      3124, 3027, 13597, 44446, 15033, 42669, 20029, 27857, 5005, 8886, 46555, 43345, 20153, 38667,
      1321, 17135, 48441, 45325, 20333, 32395, 36438, 12637, 36707, 8166, 16423, 36667, 46241, 39603,
      38999, 21659, 32623, 49121, 13272, 33604, 13600, 14520, 11293, 6779, 41929, 18959, 6723, 29509,
      18670, 2857, 11237, 44440, 31651, 6480, 36732, 49010, 17617, 34022, 7383, 28515, 23951, 20240,
      33824, 15182, 35698, 40429, 3938, 25861, 47106, 11941, 3252, 16391, 48293, 32405, 36493, 25751,
      1510, 7729, 40284, 30862, 12050, 30927, 38208, 15681, 45861, 7335, 10649, 36809, 41049, 25127,
      16275, 6137, 6933, 13023, 4189, 17113, 28696, 3525, 42957, 12760, 24884, 26210, 27736, 38444,
      4880, 15168, 49241, 39317, 42191, 15109, 38094, 40624, 49425, 35734, 41708, 31176, 34748, 24360,
      41276, 28248, 6289, 674, 4339, 20490, 14111, 3826, 2883, 25119, 27069, 8608, 1514, 19454,
      45771, 2222, 7940, 46063, 20139, 27998, 7980, 31505, 23823, 20398, 4058, 5220, 44332, 19376,
      21925, 36105, 11011, 49332, 42479, 6315, 36279, 4045, 8829, 20989, 6039, 18804, 31101, 35706,
      9681, 49102, 10299, 36861, 42882, 41646, 49634, 39348, 44736, 15956, 17812, 23015, 44263, 8986,
      25960, 3004, 21967, 7730, 19358, 8087, 11102, 677, 12098, 33111, 6698, 32014, 48188, 36400,
      33031, 35099, 10397, 34391, 7454, 44572, 8602, 47804, 32242, 1723, 13642, 3589, 41908, 42006,
      33318, 32191, 45616, 46397, 6972, 24201, 2569, 35356, 44959, 26983, 26834, 43731, 48164, 46911,
      3623, 2350, 38093, 7537, 18012, 27134, 11674, 44403, 48780, 22008, 25778, 22500, 20087, 36076,
      6555, 38133, 11854, 35504, 31784, 19388, 38721, 21047, 39918, 732, 29448, 30855, 7849, 14714,
      31597, 11840, 38645, 11988, 44867, 2109, 13196, 47706, 45692, 2054, 1057, 33606, 46064, 32674,
      34648, 3806, 30634, 2075, 43989, 12421, 28676, 32945, 21603, 38483, 39115, 42128, 28551, 4562,
      2683, 39816, 35648, 2281, 44072, 9841, 20983, 18659, 39829, 69, 2195, 19857, 11420, 9851,
      34848, 4003, 28871, 21490, 35391, 6662, 41715, 15230, 15035, 25124, 30042, 44529, 5508, 5511,
      29682, 13728, 42132, 25942, 43696, 242, 11647, 19634, 39085, 18270, 14667, 30, 43505, 10955,
      27858, 34573, 32403, 41634, 12045, 11616, 22599, 20355, 13455, 28848, 18339, 47225, 6911, 27556,
      13825, 47083, 27375, 15738, 44140, 35766, 20985, 3957, 25571, 45806, 11979, 22664, 17666, 10125,
      11770, 8497, 9044, 6550, 16730, 4436, 13089, 20676, 44539, 33850, 35072, 27379, 43379, 9211,
      40702, 2592, 39590, 22160, 39374, 3950, 27348, 49481, 3790, 31903, 43917, 25369, 6874, 20363,
      40638, 2275, 17814, 1882, 39907, 11648, 44953, 8363, 17851, 27508, 3286, 10812, 27380, 7998,
      46908, 48642, 43195, 13240, 43176, 49406, 17149, 25070, 30542, 48520, 19633, 42747, 29776, 48176,
      49949, 19607, 13596, 12727, 29988, 9899, 30278, 1009, 9390, 48967, 45328, 14573, 13461, 27792,
      40889, 22704, 24051, 10017, 19182, 2383, 12737, 21089, 15961, 34174, 48249, 30378, 32751, 40343,
      2266, 45007, 5777, 7323, 19246, 11288, 11968, 48983, 18585, 6048, 9285, 1350, 24620, 27417,
      26441, 49312, 34739, 29973, 49337, 24168, 3474, 2312, 40180, 18332, 34032, 18434, 17051, 31015,
      25780, 36256, 47188, 33935, 40203, 649, 20610, 18503, 45888, 8966, 21757, 24822, 10780, 47830,
      19574, 14190, 8240, 32722, 35867, 35795, 10779, 35040, 46887, 25312, 45314, 41879, 34449, 39975,
      49745, 39982, 19550, 16111, 33196, 35409, 15143, 17963, 12272, 40267, 22929, 764, 9129, 3847,
      28652, 46949, 42566, 39450, 34363, 5873, 43424, 16049, 9948, 49846, 16696, 35810, 20839, 41319,
      37448, 49541, 47453, 32778, 13558, 20624, 8925, 16050, 26151, 22992, 13524, 4443, 26257, 35697,
      47233, 19026, 45254, 35388, 16031, 39492, 11239, 45008, 11878, 165, 11515, 30091, 36543, 32527,
      33820, 40601, 25722, 38022, 5551, 46189, 36275, 12570, 4127, 12471, 41839, 21718, 32546, 46129,
      19453, 42753, 26208, 29262, 45371, 37163, 32072, 16098, 44675, 11786, 7154, 44434, 17656, 40408,
      48048, 48106, 1944, 17201, 30330, 6459, 4445, 18486, 46188, 8116, 13287, 26318, 39792, 11376,
      46783, 17620, 47573, 32909, 38898, 3485, 22708, 10840, 39142, 403, 29630, 31720, 46356, 22563,
      11404, 6813, 39819, 44379, 1347, 41996, 2619, 158, 45073, 9448, 8403, 12399, 29940, 13842,
      12648, 16196, 40897, 49565, 34627, 18053, 44253, 18995, 16613, 30849, 26217, 37694, 19985, 31554,
      27629, 29910, 46554, 49176, 1632, 1176, 30736, 39254, 17, 42977, 8821, 48052, 16311, 11884,
      11343, 22339, 13576, 23628, 8277, 25872, 8641, 36429, 12506, 21678, 7301, 38597, 2602, 14250,
      43802, 23239, 1054, 48018, 40967, 48059, 3067, 47775, 2343, 16764, 47386, 10063, 38713, 38783,
      12508, 18495, 31879, 30010, 17631, 14733, 36506, 23272, 32215, 17417, 9469, 27854, 20798, 23639,
      17294, 43387, 28361, 6468, 41471, 27096, 27726, 2373, 42765, 35314, 32961, 44640, 11393, 16293,
      27941, 41920, 32734, 1065, 30179, 25542, 40656, 48012, 25560, 29310, 376, 36694, 40094, 31771,
      46712, 44347, 9051, 17664, 20235, 34389, 16418, 14083, 21719, 38217, 15199, 16801, 36453, 40972,
      11472, 49772, 38125, 45728, 1298, 41591, 34086, 33265, 35593, 23101, 44964, 26774, 43702, 19592,
      12522, 2126, 39593, 20636, 46242, 20907, 44922, 24092, 42672, 7647, 28352, 35961, 23936, 30189,
      13957, 16976, 34247, 5971, 10121, 5869, 20919, 6620, 26798, 44553, 14771, 48468, 31650, 44748,
      49051, 39701, 12599, 9577, 35997, 13969, 4602, 1593, 3955, 12929, 43004, 44456, 418, 43698,
      44586, 16094, 40479, 48845, 10545, 40529, 1260, 35785, 12949, 11514, 2564, 8868, 15501, 15101,
      26138, 36757, 7118, 47301, 18923, 1383, 31374, 25113, 25819, 38194, 9296, 32697, 12461, 12495,
      22206, 2518, 9015, 47516, 44780, 13954, 14207, 15744, 47684, 31248, 833, 12571, 42496, 9258,
      39625, 8618, 31310, 7183, 45599, 33818, 40933, 20743, 21351, 1991, 14792, 31181, 43377, 9781,
      26775, 942, 4212, 20882, 25295, 10071, 36734, 13274, 16432, 35933, 8824, 5133, 14124, 8139,
      38175, 23294, 49986, 48100, 18536, 24197, 33151, 32133, 8421, 35658, 20509, 3842, 10286, 4372,
      11759, 34300, 41284, 37764, 41296, 37320, 25170, 43287, 11974, 49172, 19904, 25356, 46666, 38271,
      626, 45228, 31088, 48177, 40491, 44756, 37611, 35544, 32514, 33215, 2615, 25441, 35155, 1575,
      3100, 28284, 5182, 1959, 16759, 30521, 4908, 39026, 29700, 33106, 46474, 24177, 17289, 36466,
      23695, 29172, 36856, 30217, 17775, 32796, 44768, 21298, 39840, 35686, 31032, 13148, 952, 19761,
      24169, 27210, 13590, 39999, 19620, 29293, 40950, 13474, 22411, 15946, 43983, 14725, 25204, 18783,
      31649, 5476, 19022, 7618, 20052, 42603, 43916, 44653, 43623, 34, 34987, 25341, 43174, 46053,
      17037, 29942, 34156, 26061, 40233, 47113, 6235, 34006, 4169, 37849, 47776, 25268, 15209, 14310,
      12744, 34400, 49680, 44059, 25001, 36878, 10111, 12025, 3023, 49394, 387, 16808, 23517, 41939,
      5436, 45330, 48789, 36228, 18903, 3735, 46381, 11925, 3584, 23326, 7109, 38928, 378, 18481,
      45964, 18464, 37607, 37464, 25504, 1793, 28636, 2165, 44815, 38631, 45557, 4911, 40853, 35924,
      24877, 37984, 27259, 37461, 1761, 6426, 35616, 14812, 28777, 29690, 4060, 3470, 21266, 18606,
      16133, 8352, 23417, 26121, 40669, 35485, 45067, 28338, 49687, 49963, 34266, 31743, 41577, 17437,
      37215, 19573, 14183, 38508, 45687, 23198, 33258, 45335, 32874, 49885, 23264, 6726, 40599, 17561,
      37205, 12036, 22996, 7569, 46894, 3043, 25413, 46229, 21960, 45346, 24172, 19705, 3296, 42364,
      49293, 4405, 780, 49671, 48532, 17657, 30208, 26763, 16169, 41509, 14173, 8135, 2987, 32935,
      18347, 32719, 22274, 34289, 3186, 34628, 1856, 29611, 28194, 21469, 29243, 48544, 2588, 42255,
      10838, 14214, 44710, 40190, 32428, 12389, 8561, 22772, 48154, 6671, 6601, 14269, 10727, 7571,
      42657, 18152, 21216, 9370, 40423, 9164, 11841, 48026, 23855, 19842, 36517, 41527, 21165, 21660,
      9937, 31874, 39074, 39801, 5157, 21841, 17867, 39860, 46730, 29996, 32034, 13787, 43352, 9188,
      12690, 33101, 46896, 12520, 1061, 17817, 5384, 12066, 5632, 22826, 18921, 16501, 49206, 6532,
      14189, 7696, 28077, 12168, 474, 32421, 697, 44056, 39539, 29821, 5647, 28100, 24224, 14623,
      47164, 1288, 7078, 41343, 1334, 30213, 26712, 46530, 47621, 3128, 16380, 2896, 9000, 19380,
      33404, 38685, 32537, 4341, 23209, 27911, 28547, 9918, 40482, 7123, 34679, 37644, 36729, 8022,
      1086, 14993, 35626, 12649, 20513, 12890, 19484, 13726, 16114, 38286, 29775, 43312, 44455, 19442,
      14470, 37171, 12108, 30034, 45206, 49280, 4292, 42471, 46870, 2449, 39313, 37385, 44772, 39518,
      43799, 34530, 42774, 43036, 32618, 46993, 9640, 7760, 27338, 24924, 38068, 12768, 12534, 19599,
      37903, 712, 21234, 9785, 47856, 36709, 34793, 36150, 6492, 20261, 7469, 29258, 39165, 34412,
      36866, 34908, 37882, 45318, 14313, 25667, 37463, 28035, 43946, 10850, 14913, 13738, 21940, 18177,
      7320, 11899, 36431, 44138, 20909, 38319, 33273, 18197, 17717, 20902, 15273, 34557, 2894, 27968,
      26923, 30618, 34102, 10792, 42584, 26242, 37342, 37748, 39523, 37693, 6528, 17663, 8923, 15949,
      37885, 6558, 1203, 41583, 10371, 43998, 19067, 1204, 6379, 48372, 28904, 27481, 5467, 4322,
      3820, 3614, 20075, 27514, 43267, 28125, 46916, 35646, 26903, 41660, 35080, 9838, 12019, 48757,
      26595, 21654, 22648, 3357, 34778, 19855, 24068, 32566, 15140, 49211, 29647, 21135, 17342, 46825,
      38627, 8170, 8687, 43605, 3660, 28778, 6225, 14453, 2510, 5916, 37462, 25606, 5490, 18245,
      29196, 1343, 31462, 49914, 43801, 45735, 15606, 11919, 42258, 15965, 39033, 6198, 19534, 40711,
      46566, 21851, 29999, 42896, 20668, 21900, 30739, 46298, 37063, 49494, 11783, 9905, 28905, 41895,
      44600, 40066, 20697, 5026, 15869, 8970, 1248, 25867, 36022, 25824, 43396, 27517, 7091, 49139,
      23378, 8049, 39023, 32098, 48090, 24263, 21632, 36574, 20275, 36192, 7948, 31859, 45883, 5371,
      10562, 7775, 10732, 15421, 6388, 46051, 28227, 43521, 39881, 43206, 14921, 16617, 26780, 33711,
      27665, 7602, 11105, 9564, 9576, 8439, 20273, 45354, 45427, 36357, 39903, 8471, 10331, 38135,
      17024, 23028, 31198, 35120, 48755, 22178, 46953, 46817, 12075, 10497, 978, 10542, 34900, 30468,
      3155, 2086, 42741, 16242, 28662, 39798, 3256, 36376, 40800, 9339, 34163, 28722, 13991, 14651,
      21595, 20254, 16969, 16213, 47245, 5559, 22535, 47880, 1500, 12299, 26773, 13270, 25607, 1526,
      32227, 17456, 21631, 39576, 28863, 43768, 11260, 25663, 32173, 5780, 22781, 1758, 43669, 23716,
      4801, 29232, 10946, 11930, 15341, 23676, 35722, 45736, 212, 42387, 8795, 17277, 19042, 17680,
      10362, 5821, 41678, 3481, 43583, 40623, 43095, 21820, 22629, 18418, 20479, 25180, 30423, 15057,
      22605, 29868, 45121, 15652, 46725, 45093, 24764, 3160, 17134, 46506, 9419, 12507, 17825, 33190,
      24152, 13849, 7577, 41911, 12513, 9975, 12484, 24178, 47018, 20041, 40709, 8111, 7698, 4428,
      1433, 20205, 43067, 46386, 3109, 45709, 26184, 10865, 40952, 2879, 2750, 34922, 43434, 47390,
      31726, 20573, 43092, 1904, 11635, 7769, 37474, 19030, 26305, 24909, 13353, 33881, 30376, 17936,
      18834, 13548, 45988, 7326, 8483, 24664, 37938, 23018, 19107, 121, 46786, 16003, 11052, 7215,
      963, 16610, 2847, 1147, 36348, 36946, 22004, 37677, 13384, 6889, 1251, 5281, 36265, 23452,
      28480, 37377, 13209, 45374, 19793, 3480, 41179, 35808, 14680, 43458, 47620, 38082, 42704, 21215,
      19375, 30864, 4411, 27615, 21964, 33321, 40225, 28203, 23990, 8729, 3451, 2628, 38352, 35138,
      37071, 32984, 24806, 24863, 10245, 13143, 35126, 49799, 42487, 41055, 41982, 48406, 16726, 19221,
      42994, 19883, 40535, 3354, 27838, 38212, 9116, 44203, 48412, 14091, 37839, 31911, 31284, 13008,
      16540, 47527, 35134, 11849, 7840, 14454, 14968, 2071, 19241, 19458, 9358, 11488, 19826, 31873,
      35663, 264, 25296, 25956, 26969, 18914, 12654, 8725, 42695, 23462, 14777, 9029, 48940, 34140,
      38632, 27859, 24666, 41894, 4641, 22905, 33358, 9042, 41305, 17779, 28790, 1719, 34558, 40769,
      40392, 10718, 7119, 12527, 4483, 25210, 47396, 30616, 20314, 20747, 12798, 36424, 30975, 38893,
      3662, 8560, 11677, 14447, 19625, 31265, 34934, 40819, 6053, 5890, 6746, 8388, 15129, 23909,
      15069, 762, 10200, 33644, 13831, 45856, 49234, 37718, 21597, 6768, 16504, 4634, 7438, 32212,
      6879, 36036, 10984, 15392, 19979, 12784, 26228, 24823, 38253, 28866, 48557, 44180, 22199, 47630,
      26575, 13938, 6596, 48995, 26585, 12893, 34202, 42519, 25987, 34382, 38073, 6000, 26670, 9508,
      35511, 3965, 12220, 39285, 11257, 21429, 23337, 22561, 29898, 32380, 30130, 18247, 48116, 21763,
      4480, 25986, 6264, 21641, 7594, 42035, 16185, 6814, 6725, 45945, 37967, 16019, 30019, 48526,
      33389, 6003, 34732, 23349, 26537, 27591, 16831, 22570, 36673, 24307, 3406, 43262, 5557, 48842,
      42427, 6597, 12249, 5992, 9238, 4430, 48958, 28998, 11370, 3165, 8105, 22146, 47163, 38398,
      48284, 46032, 47879, 12097, 5824, 4197, 38801, 24280, 4126, 43651, 20053, 18163, 17737, 41119,
      37112, 45195, 29698, 19068, 243, 21366, 34083, 22862, 22489, 12730, 15751, 43722, 24978, 42303,
      703, 38250, 17792, 42966, 44467, 8340, 16337, 26381, 5976, 39761, 1896, 35917, 35799, 16239,
      4254, 40664, 25514, 22667, 23475, 9753, 852, 34149, 11733, 8845, 16778, 43331, 37178, 28749,
      17860, 38702, 7581, 3839, 25742, 27852, 2310, 12327, 11865, 38148, 44217, 37403, 40113, 36714,
      42283, 47478, 4268, 5261, 9997, 31051, 41146, 29668, 33533, 43500, 21407, 49282, 35271, 6604,
      7792, 26915, 42300, 28104, 1296, 28156, 18483, 26388, 24979, 35264, 4667, 39946, 1026, 43972,
      30714, 34384, 6018, 33286, 33029, 5740, 32968, 19548, 43805, 38299, 20260, 48080, 44744, 5336,
      4717, 26059, 33544, 47410, 32842, 44645, 33354, 19847, 23534, 31354, 5858, 46625, 48178, 25078,
      5107, 30842, 21970, 43090, 34436, 8969, 17871, 20019, 20351, 16441, 36410, 13870, 19165, 1564,
      19896, 21744, 26065, 19021, 12276, 25797, 26443, 20722, 24396, 44819, 21261, 41144, 31444, 46791,
      40249, 45624, 34608, 30647, 14756, 34103, 2001, 49478, 41388, 775, 43367, 40186, 29998, 983,
      44237, 1387, 39437, 29390, 14150, 10446, 36209, 7285, 23994, 47489, 37724, 1815, 22255, 139,
      30594, 40324, 48773, 9473, 45192, 14703, 32789, 5915, 36272, 17086, 12277, 24350, 48767, 41242,
      27316, 46646, 13533, 6580, 38689, 26387, 46376, 5686, 44432, 1794, 26359, 5531, 35251, 44177,
      17652, 18149, 31263, 21297, 32727, 8867, 4620, 7643, 455, 12241, 14134, 16296, 35551, 30705,
      47366, 10818, 11976, 12080, 45570, 21484, 3033, 44709, 23127, 1613, 12246, 14649, 46989, 6169,
      119, 42089, 47757, 13198, 44620, 2041, 43400, 35231, 22734, 37442, 28828, 24927, 9525, 44550,
      36213, 42193, 29136, 49245, 42619, 21206, 5705, 41806, 33338, 37416, 47028, 37956, 19247, 40548,
      22649, 8707, 28587, 45820, 1275, 10354, 38835, 29673, 16041, 2215, 30006, 39743, 2009, 17758,
      48440, 31907, 41134, 15885, 23942, 14218, 34805, 8637, 21647, 36274, 5162, 48888, 8832, 18858,
      33303, 16811, 45428, 37920, 15482, 43409, 40865, 15878, 41657, 32106, 41176, 8918, 22964, 45334,
      34422, 49120, 15670, 22818, 35837, 42325, 44937, 4170, 17819, 48950, 21156, 25949, 27889, 11149,
      15968, 31326, 37610, 43252, 22270, 12774, 22670, 10383, 44694, 14592, 871, 3580, 4709, 41937,
      43012, 990, 44887, 27300, 122, 20315, 24202, 28594, 9094, 19034, 3208, 18294, 19119, 2074,
      25652, 23522, 42659, 27178, 40731, 22573, 47125, 24980, 35003, 19100, 12325, 13626, 30952, 21978,
      14722, 40152, 13128, 34480, 11501, 17366, 26697, 36014, 20174, 42118, 35657, 10843, 36315, 21499,
      15122, 47629, 1994, 11895, 18176, 10797, 26088, 26310, 16596, 10650, 7589, 14734, 1662, 12629,
      28929, 17183, 9556, 46839, 36671, 26850, 6996, 23215, 48517, 42183, 4450, 16132, 24699, 8099,
      32005, 7057, 18466, 43040, 31999, 49575, 47432, 22600, 12459, 41015, 45992, 20464, 2390, 1520,
      13985, 27468, 9747, 16985, 15801, 42395, 10603, 18746, 30972, 40626, 45085, 33185, 43301, 45722,
      35360, 34585, 6934, 1871, 37161, 24084, 13839, 21410, 33847, 8814, 29268, 21844, 44500, 36622,
      6252, 36626, 22091, 45918, 11558, 3725, 12378, 34517, 9919, 28726, 47571, 15002, 11858, 40964,
      6148, 12309, 27706, 10854, 16797, 35879, 49855, 2656, 32379, 47977, 6977, 43465, 22657, 18250,
      1311, 23759, 21789, 15706, 7723, 34708, 29408, 21363, 38528, 8019, 2153, 30043, 7842, 4952,
      31547, 21214, 42177, 45710, 17078, 3250, 35467, 18479, 1149, 40435, 37901, 31383, 39367, 42410,
      45163, 47449, 31071, 36838, 38476, 35284, 12478, 1305, 9539, 1981, 41357, 34253, 1029, 6899,
      47686, 14077, 1730, 33915, 47103, 21025, 15061, 12337, 37850, 12073, 29435, 2078, 25111, 10863,
      43611, 38075, 42757, 33096, 37345, 39396, 6219, 4751, 16233, 14058, 33369, 34803, 4463, 3163,
      9802, 23882, 25612, 42249, 14057, 37546, 26239, 12063, 48352, 29704, 46217, 20603, 29145, 49850,
      20071, 1142, 7448, 45034, 48570, 34025, 1918, 10138, 30751, 32547, 45480, 18865, 23630, 33835,
      25807, 13260, 30148, 47995, 17912, 38251, 2168, 32168, 25228, 45608, 48774, 28700, 13559, 47814,
      3682, 6603, 47387, 31998, 9375, 34658, 26036, 30117, 1202, 28519, 8732, 3198, 17608, 33271,
      41529, 41884, 19511, 20579, 28435, 28709, 34504, 22374, 26194, 382, 26817, 14137, 47363, 17940,
      20154, 5623, 35405, 2884, 5532, 8312, 41901, 34876, 23512, 12804, 43765, 27602, 5191, 4680,
      31464, 2653, 39654, 33975, 34216, 2733, 22558, 18200, 36899, 837, 12889, 2752, 23521, 23436,
      46749, 17222, 38786, 28217, 7403, 34042, 10008, 21796, 24997, 3386, 21425, 11166, 2435, 46789,
      33507, 19397, 16359, 34787, 35078, 12880, 35586, 21010, 36375, 40340, 29147, 1513, 32185, 24958,
      6451, 42861, 9779, 13817, 26963, 40540, 5092, 40963, 44057, 26453, 34652, 361, 33799, 28340,
      16294, 16844, 7302, 36240, 45618, 32282, 13063, 32325, 13984, 2346, 4468, 4208, 17683, 5346,
      4636, 20427, 49791, 44242, 36977, 25726, 4472, 38041, 7714, 27625, 47469, 18607, 41653, 44880,
      13827, 46011, 15112, 24889, 16898, 17979, 15427, 17491, 7102, 33562, 40630, 8980, 27287, 33296,
      3954, 5911, 28630, 49231, 10695, 22138, 42544, 30165, 10097, 45380, 31102, 34750, 27487, 12833,
      11395, 44383, 9855, 21001, 10752, 10030, 32065, 45757, 42661, 36868, 42388, 47341, 17281, 22221,
      42265, 38879, 1677, 31141, 92, 35708, 14655, 3915, 49819, 37933, 12042, 39305, 20915, 20267,
      22839, 49946, 33341, 3891, 2252, 13204, 2391, 3781, 24711, 1292, 43314, 5735, 89, 29922,
      8028, 25011, 28751, 32549, 18533, 12660, 36038, 27711, 16190, 43208, 20730, 25623, 18663, 53,
      45245, 42459, 5484, 5910, 38407, 43779, 20851, 47506, 19415, 17381, 27129, 35102, 32712, 310,
      1886, 37000, 13250, 1247, 25243, 17856, 49856, 45865, 33027, 875, 23615, 7623, 11277, 13633,
      12245, 41455, 39773, 28839, 35791, 39342, 3038, 37551, 26313, 42008, 47445, 14508, 18127, 26004,
      14208, 21812, 22126, 3904, 21504, 6005, 38662, 28818, 42104, 4140, 27622, 46964, 23788, 40844,
      187, 8948, 23158, 32240, 4638, 49662, 33117, 48833, 40499, 46662, 7355, 16899, 1712, 11898,
      11181, 17242, 45878, 5897, 24498, 47116, 30415, 32205, 2236, 47443, 16207, 16572, 23159, 2547,
      37054, 32932, 25929, 46628, 15403, 16474, 33394, 30221, 13308, 8285, 34727, 30793, 35379, 17126,
      37365, 21026, 28045, 49656, 45834, 24460, 20576, 9674, 23947, 36883, 33155, 41447, 8944, 18988,
      334, 8408, 41980, 81, 12518, 15924, 7787, 6164, 45039, 29918, 47874, 21721, 40917, 28405,
      6138, 16431, 22896, 39408, 7794, 35064, 4970, 1066, 46404, 32532, 44062, 48461, 29215, 29779,
      22154, 40125, 16036, 34442, 23014, 42716, 8190, 18737, 19737, 43639, 18291, 12908, 15435, 2834,
      5238, 40449, 36925, 13801, 3294, 23715, 49422, 38624, 23784, 14989, 21434, 41071, 34586, 23075,
      26052, 2931, 12776, 36402, 16336, 14154, 45089, 25657, 42066, 25590, 48813, 49940, 21798, 36162,
      41972, 44728, 9827, 32673, 32512, 13804, 24258, 16268, 38589, 44264, 31190, 23329, 22267, 1729,
      24367, 43734, 45920, 47639, 38853, 36229, 43920, 31522, 49868, 35346, 25486, 30557, 47260, 28120,
      4177, 7937, 39091, 3254, 4910, 6593, 44126, 5859, 30655, 39682, 34458, 28053, 11798, 6278,
      36503, 5513, 19791, 25885, 30899, 17250, 8671, 16951, 15390, 30517, 45688, 47, 16325, 48274,
      23680, 18586, 24480, 13064, 35788, 12310, 12983, 29501, 27694, 34350, 38961, 15171, 22840, 37264,
      9876, 17011, 17048, 43419, 5076, 39556, 42166, 10281, 15347, 47204, 36360, 20940, 27763, 25786,
      23085, 1540, 2958, 35070, 49415, 29594, 18786, 3013, 34105, 39203, 12085, 22245, 16917, 25509,
      17928, 21954, 22137, 33683, 23315, 37779, 25889, 23820, 33485, 41202, 26115, 25377, 48851, 45412,
      41043, 8425, 5291, 10323, 10285, 24862, 5357, 24568, 5331, 8731, 48361, 26642, 41313, 27849,
      37620, 26818, 24228, 15018, 46721, 34614, 6187, 17646, 39050, 1366, 45867, 49042, 12320, 45130,
      46327, 18036, 18274, 38804, 980, 25440, 12914, 32324, 22571, 25248, 14607, 21418, 41286, 22587,
      9041, 3058, 9021, 43789, 48987, 33947, 4238, 28577, 23036, 5160, 8612, 32900, 23719, 4066,
      22305, 14228, 9003, 16609, 49036, 14754, 8416, 41223, 14827, 790, 49527, 23771, 36718, 37457,
      46353, 30660, 17639, 23734, 3069, 29261, 31504, 48799, 20302, 16996, 39086, 42320, 27870, 11699,
      49516, 36017, 1897, 19452, 21268, 21477, 43114, 8141, 44671, 11513, 42789, 30181, 5980, 48881,
      38927, 30456, 40106, 5838, 5485, 34347, 6897, 31252, 26230, 40226, 43686, 13648, 23819, 33345,
      5669, 14914, 19025, 39733, 37025, 2876, 14884, 27054, 9082, 26528, 6117, 4085, 6826, 48357,
      31293, 35804, 21570, 26276, 46616, 29198, 31493, 44207, 7954, 22216, 26226, 1931, 8447, 19809,
      23709, 7752, 5986, 25961, 1953, 23432, 44644, 7362, 23352, 12538, 49890, 23026, 42157, 44773,
      33386, 88, 29563, 19155, 21995, 21626, 32522, 18524, 26484, 23687, 34852, 39002, 18465, 13011,
      29015, 38900, 49477, 8840, 16734, 20524, 34322, 37550, 12412, 21822, 32052, 10257, 25620, 21895,
      30786, 23727, 12611, 41451, 49817, 42827, 29446, 42931, 38529, 5066, 13925, 42402, 8033, 4653,
      13316, 19893, 85, 7539, 20784, 34170, 35714, 25481, 45573, 13277, 37730, 21886, 17636, 22877,
      28476, 3091, 43311, 18747, 3941, 15743, 16963, 32473, 30294, 21405, 37761, 28586, 41656, 27585,
      22434, 36911, 38651, 33413, 39848, 3264, 7317, 18083, 16961, 13101, 16836, 19804, 25699, 37231,
      9579, 42733, 38171, 1229, 33134, 8651, 7668, 44257, 3176, 7863, 9774, 48823, 21726, 48777,
      9150, 12162, 37728, 25985, 21422, 22709, 17447, 321, 48217, 7010, 15570, 49742, 28888, 3383,
      10959, 18080, 29740, 36126, 8610, 25503, 9248, 2140, 37119, 25781, 32502, 34851, 7223, 28321,
      19690, 21982, 41392, 37561, 1530, 41437, 2929, 5799, 43969, 11204, 22762, 6754, 23228, 12902,
      3508, 42362, 5358, 21843, 10320, 33347, 9704, 40285, 35746, 24471, 35173, 7834, 44068, 42301,
      13681, 40573, 40341, 20149, 35898, 25907, 38986, 29044, 16168, 11405, 41377, 38504, 30735, 25624,
      4061, 21201, 298, 33925, 12839, 35555, 6281, 28137, 32040, 49050, 2498, 31863, 33574, 19532,
      1338, 293, 46013, 45772, 4072, 16153, 13522, 29012, 30309, 29019, 39244, 17925, 29716, 11626,
      27226, 43517, 44837, 48382, 4916, 10546, 45866, 18123, 18376, 48432, 29350, 42854, 34689, 11567,
      9016, 380, 7713, 12188, 10747, 41769, 28712, 41249, 33692, 12954, 49896, 44915, 11355, 37590,
      26067, 45901, 8186, 42273, 48703, 41233, 26064, 49513, 14826, 45777, 27942, 35591, 46677, 9152,
      6071, 36461, 11462, 49392, 15842, 48898, 26102, 41696, 35806, 34243, 9328, 8355, 47845, 24894,
      35337, 6343, 1610, 21787, 31197, 32520, 31291, 37880, 25265, 41809, 9954, 14594, 48923, 41607,
      8978, 35700, 44674, 27214, 22979, 36396, 37934, 6058, 16435, 40193, 31567, 37593, 47622, 31646,
      44544, 20280, 23629, 22632, 39502, 21382, 5814, 31516, 33577, 7218, 13931, 27196, 37050, 7542,
      14223, 35882, 2926, 12107, 2697, 9382, 29397, 49849, 11198, 30264, 21250, 6384, 27462, 48311,
      40128, 459, 10560, 17623, 7074, 3082, 32013, 12921, 14907, 25670, 27031, 37257, 27255, 16452,
      26259, 5327, 49835, 45656, 13364, 3353, 6327, 35411, 34990, 21505, 47700, 27976, 44480, 17444,
      1385, 9547, 5963, 11367, 48093, 19543, 18700, 22674, 23120, 933, 26964, 28607, 12832, 41748,
      8217, 30296, 38616, 8324, 35836, 3410, 46408, 41498, 113, 6777, 2771, 11784, 10370, 29907,
      7651, 28938, 46626, 3511, 17784, 3119, 22814, 34411, 8237, 11964, 35193, 10697, 2320, 38785,
      36098, 12782, 3122, 45306, 49947, 31090, 12434, 29840, 45789, 40609, 37870, 29286, 28268, 895,
      19762, 43452, 31825, 10090, 1830, 48244, 22471, 7241, 36485, 4728, 45104, 11856, 46499, 22385,
      29349, 26725, 35530, 26109, 13962, 36559, 21231, 39641, 17243, 3921, 30976, 43601, 27104, 13166,
      49273, 36653, 31569, 46429, 27722, 1351, 24577, 39149, 104, 47580, 35521, 19016, 4825, 42871,
      14830, 10730, 35894, 4972, 25435, 24622, 49123, 26750, 33343, 21475, 1459, 18718, 46411, 5083,
      15315, 23809, 8575, 34109, 38321, 18363, 1494, 47253, 44708, 39376, 14796, 4929, 16819, 27908,
      46982, 31152, 34438, 16595, 38324, 5330, 17099, 12068, 28424, 16846, 20357, 30368, 5427, 42735,
      25902, 39068, 2318, 26914, 4984, 43748, 996, 33772, 28381, 41994, 6037, 15252, 4502, 16255,
      19530, 20845, 25724, 35452, 23222, 17484, 18396, 36815, 26573, 3362, 30381, 31242, 19570, 45773,
      47315, 40417, 31459, 9418, 24705, 26024, 16686, 18532, 44071, 22866, 35677, 12071, 17547, 33203,
      48597, 32107, 13630, 9858, 7387, 31717, 29864, 35747, 30883, 24954, 25959, 39836, 3701, 46494,
      8215, 30438, 45775, 31295, 20123, 45874, 15527, 47450, 10031, 49686, 6636, 49688, 12135, 36476,
      24612, 47040, 5309, 1103, 21068, 8555, 16798, 9898, 783, 16343, 45582, 2521, 39514, 45315,
      36515, 45880, 31266, 9778, 2932, 7620, 18695, 19527, 14942, 18042, 10432, 6462, 1255, 41537,
      43214, 34200, 2280, 13754, 21532, 39655, 47535, 30762, 27294, 23080, 39744, 32385, 48070, 27146,
      11684, 31931, 11045, 41699, 43279, 26233, 11598, 9345, 19879, 36624, 27003, 33771, 17228, 49099,
      40900, 29758, 39558, 17647, 30925, 48339, 8622, 1330, 32289, 9512, 30356, 24706, 7545, 45987,
      41542, 751, 42993, 25512, 34065, 33974, 15931, 48753, 15568, 31840, 45801, 21838, 37432, 14918,
      37498, 11775, 5575, 26890, 16136, 34788, 44360, 7931, 7476, 45680, 38653, 19770, 10501, 12600,
      40175, 13021, 43612, 25845, 43763, 46151, 13208, 1660, 29649, 8119, 49089, 29554, 3848, 22596,
      34781, 8985, 4945, 4266, 29593, 18671, 13834, 16936, 6127, 7864, 16367, 3687, 22041, 24692,
      39424, 20178, 24547, 24053, 33886, 31185, 10260, 13492, 3047, 25543, 19697, 26225, 12607, 29906,
      38763, 5016, 2371, 30157, 16221, 30889, 14117, 48700, 9708, 10888, 38794, 12148, 46103, 8067,
      23056, 37511, 48880, 36005, 14917, 49638, 24559, 26954, 127, 24190, 34011, 24267, 32135, 40663,
      40582, 43912, 6657, 10359, 45651, 14879, 40882, 23297, 4349, 43847, 35748, 32785, 29865, 841,
      27650, 46740, 4977, 4565, 40805, 35731, 37871, 25635, 45050, 13144, 19498, 21013, 4406, 10876,
      3456, 26786, 9897, 23278, 23058, 23626, 47783, 49034, 39120, 32178, 11106, 25234, 15011, 20480,
      38408, 17034, 46373, 17605, 22284, 18870, 31560, 6679, 48850, 15308, 28438, 29699, 38815, 43188,
      34193, 30516, 34978, 21202, 19632, 30064, 47600, 20160, 37360, 33999, 2471, 31223, 49153, 7026,
      20821, 30369, 44817, 1455, 37965, 19111, 32086, 30817, 20066, 45647, 10580, 30218, 21696, 17935,
      42636, 8387, 4312, 10714, 19566, 35986, 10080, 8664, 38865, 8688, 21753, 4320, 44598, 40814,
      10551, 17028, 40494, 19655, 1201, 33900, 47906, 2724, 25550, 38168, 2406, 33914, 29652, 5300,
      782, 27077, 11215, 41622, 8898, 17511, 8038, 7346, 22926, 15163, 16792, 26823, 41263, 35085,
      23773, 30845, 32481, 23686, 10882, 4350, 30476, 15243, 24189, 12304, 2492, 42020, 3655, 32941,
      4869, 21132, 28870, 26778, 21840, 46430, 7922, 33103, 22342, 26740, 9653, 16537, 12357, 37916,
      40754, 42346, 29609, 46212, 19244, 28431, 48566, 22278, 20297, 4287, 11965, 44588, 4744, 15415,
      12016, 19764, 23673, 12234, 15638, 48287, 9723, 36921, 47497, 4007, 21617, 23832, 1254, 17439,
      33026, 19910, 33465, 29953, 30673, 26662, 21593, 23220, 43350, 39007, 21385, 33081, 9601, 38293,
      6263, 47151, 40036, 172, 5479, 11815, 36682, 48278, 7875, 46517, 37282, 37479, 26781, 3448,
      27828, 19890, 4625, 23604, 19176, 13340, 40636, 11222, 24677, 33667, 41227, 8014, 32560, 23473,
      31089, 38626, 35296, 9397, 46418, 1615, 33924, 30439, 27831, 18235, 44316, 41906, 27611, 3397,
      6410, 42654, 45238, 27879, 34604, 3694, 49354, 2393, 15375, 29719, 13374, 35127, 18090, 21998,
      9965, 36992, 33403, 894, 2903, 8310, 43328, 10452, 13415, 48068, 9839, 1087, 32609, 15556,
      41013, 11243, 44884, 36747, 34270, 25414, 1215, 5825, 346, 43288, 9396, 4418, 32579, 29633,
      46106, 43184, 33993, 36184, 28049, 12260, 33244, 4937, 26192, 26791, 5810, 10943, 14978, 43296,
      21265, 44323, 45921, 16606, 33015, 36986, 3808, 41667, 18838, 39000, 39205, 24397, 38994, 24907,
      25239, 26384, 41801, 2278, 25410, 33419, 4106, 45529, 19236, 10919, 41639, 39172, 43451, 1060,
      5124, 20406, 46951, 27550, 38541, 6607, 133, 49468, 9559, 33534, 29439, 10062, 14553, 46492,
      27012, 25859, 37278, 5259, 8737, 12119, 44162, 20440, 379, 31339, 5252, 13401, 27100, 6812,
      1937, 27329, 35038, 21090, 5282, 24269, 1676, 7473, 22179, 5689, 40082, 32394, 36430, 46300,
      28674, 26150, 44846, 22855, 43582, 2626, 9550, 27217, 37287, 18492, 10043, 16804, 49004, 5150,
      49969, 29634, 6395, 40219, 47199, 23073, 37003, 18941, 19365, 26742, 29110, 7341, 2405, 35472,
      30367, 43068, 37058, 8211, 31096, 18876, 34221, 40352, 9049, 25836, 49079, 37488, 15559, 10353,
      2414, 2262, 24164, 43855, 31606, 10152, 43455, 28855, 14958, 21916, 21862, 17218, 2540, 48474,
      42948, 32936, 6525, 8544, 11155, 41544, 19876, 30101, 40823, 1568, 18943, 20848, 4936, 43503,
      8513, 48009, 36473, 2967, 49648, 30724, 24200, 42334, 22400, 11644, 26222, 26487, 11191, 15322,
      20770, 1672, 14600, 36960, 2546, 19827, 27327, 40024, 30605, 7825, 23201, 42660, 34672, 27904,
      2536, 3588, 15718, 19419, 18321, 14452, 549, 18358, 23059, 30959, 24235, 19429, 23722, 32475,
      25148, 16824, 25679, 12871, 47760, 13015, 43914, 26882, 4004, 28764, 42126, 31685, 25071, 28737,
      26344, 42649, 23245, 11990, 41149, 21980, 26810, 19688, 29931, 35116, 345, 27797, 35482, 16334,
      14612, 30243, 21738, 46867, 31215, 12383, 30548, 37303, 10312, 9334, 42606, 8830, 25089, 19341,
      14442, 15113, 6147, 41615, 41450, 38656, 40762, 13014, 18579, 3746, 24266, 24303, 7688, 27749,
      35977, 40947, 33907, 29370, 48257, 28608, 1755, 42121, 17321, 2501, 6291, 31861, 24047, 40415,
      47130, 42809, 49414, 45534, 38448, 12821, 46526, 32381, 28860, 18652, 24185, 10861, 12705, 32882,
      43372, 34139, 4376, 19927, 18076, 44860, 22816, 39361, 28720, 20112, 11060, 26628, 30683, 42524,
      37886, 26112, 27039, 24696, 20629, 388, 46552, 49948, 19143, 38471, 46363, 13381, 14156, 137,
      17728, 21523, 44001, 8018, 45634, 14699, 4143, 10581, 6958, 34951, 7293, 8987, 25087, 26435,
      44989, 42601, 15287, 30212, 22503, 40608, 44043, 38989, 36969, 27950, 819, 46, 25577, 35206,
      39679, 31960, 33880, 29157, 25638, 47690, 603, 5393, 31046, 48895, 19048, 49466, 16230, 31574,
      17994, 222, 40480, 49881, 44294, 4989, 25728, 27225, 36894, 397, 15345, 33696, 18513, 36421,
      18605, 46005, 18808, 10622, 32435, 26601, 2639, 46049, 19463, 19712, 2046, 49730, 8667, 8282,
      20253, 45690, 36093, 46954, 24137, 34070, 44934, 12560, 10987, 44085, 29606, 46711, 11788, 12960,
      28497, 16590, 2456, 42554, 28589, 4812, 37190, 29979, 14428, 22506, 14469, 33862, 33841, 20635,
      35652, 24072, 21519, 14265, 25723, 19590, 33618, 14438, 47675, 48341, 15156, 21052, 20716, 4505,
      13514, 7165, 43477, 17989, 9893, 6770, 39626, 16183, 28923, 47618, 40196, 21829, 7186, 41624,
      22186, 31203, 5155, 35347, 4467, 22526, 20274, 17433, 19234, 28126, 31652, 46047, 6562, 26851,
      27994, 38813, 23305, 1152, 36972, 1192, 19160, 14412, 49646, 45393, 33943, 32611, 17982, 3379,
      11696, 24348, 16200, 40271, 42915, 23619, 20170, 37313, 33527, 22932, 12989, 39140, 38843, 45776,
      17980, 45086, 46724, 43306, 43973, 47938, 43234, 24825, 41618, 272, 12138, 813, 35859, 6195,
      7628, 45579, 4084, 32657, 30084, 37299, 18160, 24311, 22193, 43217, 16851, 29552, 38740, 41803,
      5550, 16068, 3341, 31592, 28032, 8903, 29177, 40399, 46708, 28685, 39942, 15637, 10670, 42862,
      19536, 27954, 28166, 3690, 36245, 23917, 27845, 10032, 25438, 19205, 1686, 33563, 9220, 23374,
      29869, 539, 19973, 48171, 2685, 49951, 15929, 537, 12311, 43047, 44470, 1006, 25182, 36178,
      4534, 40026, 15241, 47236, 30055, 23838, 36498, 15912, 48277, 36392, 11791, 5527, 44239, 43960,
      5464, 23072, 32931, 7996, 40109, 28286, 5332, 47132, 12745, 45851, 8809, 23529, 37741, 49993,
      15822, 46597, 9124, 12841, 15826, 30016, 18251, 31713, 15974, 14113, 46128, 38969, 43844, 43466,
      45187, 9499, 30421, 2707, 35168, 47672, 32455, 31038, 49824, 28869, 38618, 1921, 25887, 46387,
      16262, 40122, 13330, 48098, 14490, 46104, 3964, 2855, 6626, 12398, 10198, 15205, 13085, 45965,
      32136, 15220, 1527, 14798, 18387, 23273, 42140, 49155, 39395, 41877, 15488, 13639, 9089, 27428,
      21474, 47764, 30033, 13617, 14943, 6239, 38601, 48179, 42980, 10601, 2764, 19383, 21060, 11448,
      44765, 7574, 23020, 48771, 7742, 49266, 46018, 12885, 47079, 22874, 7993, 28881, 20503, 15342,
      45825, 45287, 33399, 17120, 32903, 27667, 31734, 40926, 43207, 37382, 10124, 10186, 48264, 28472,
      25460, 31915, 14627, 29365, 6504, 21373, 24150, 13332, 37674, 27275, 4220, 2545, 1482, 36319,
      28425, 21585, 28461, 11922, 38807, 43709, 24463, 2950, 7510, 48053, 37343, 38111, 16155, 19367,
      24733, 49342, 27363, 34918, 22782, 44079, 26920, 3014, 8634, 33433, 33877, 17146, 22825, 29384,
      13241, 1280, 26948, 19841, 3819, 16807, 39174, 43080, 18488, 2292, 40273, 16502, 31161, 2973,
      15265, 49863, 13070, 25729, 41724, 27085, 33882, 6045, 30186, 26942, 17668, 12079, 34092, 47222,
      48150, 48162, 28941, 37955, 9363, 42782, 43994, 11469, 36033, 28620, 1838, 17902, 2341, 15865,
      8184, 9350, 33261, 45403, 8873, 30524, 22271, 3313, 19348, 46594, 34563, 44082, 32895, 15490,
      47081, 40782, 3427, 38614, 22983, 7395, 38575, 41208, 39290, 28009, 40822, 30729, 42462, 34130,
      12093, 20005, 13940, 46081, 25969, 33275, 33619, 36103, 11430, 4498, 36595, 6494, 3234, 20984,
      33883, 34023, 20097, 24814, 21208, 44960, 14349, 15519, 4774, 34641, 3874, 18699, 43823, 27333,
      6285, 41182, 8509, 12684, 37608, 7570, 46307, 25581, 35684, 10455, 7889, 42547, 6419, 35425,
      20391, 41417, 8422, 23096, 40474, 37503, 5337, 19815, 47099, 1805, 9177, 44800, 26057, 6249,
      37898, 8591, 12133, 35357, 11234, 36026, 24553, 26793, 12519, 45506, 15877, 23657, 42144, 31797,
      2127, 8051, 39031, 2572, 7934, 18244, 41635, 8151, 47447, 14844, 37166, 43333, 8146, 43637,
      5168, 7178, 4184, 25809, 39822, 12493, 10721, 36460, 34887, 40850, 48717, 32033, 28313, 23187,
      18860, 27174, 30014, 9252, 48213, 42756, 11935, 32862, 24024, 39871, 8432, 355, 14106, 41948,
      45014, 43212, 31930, 41359, 39369, 27661, 27067, 7011, 41642, 21020, 28846, 49572, 8395, 10356,
      19858, 28085, 8979, 20120, 31296, 17442, 10836, 32037, 33813, 9090, 35431, 32387, 32190, 33274,
      7898, 46602, 22935, 6126, 8459, 21897, 26125, 42343, 47802, 14445, 43871, 32366, 12013, 5786,
      16642, 23668, 30017, 18899, 7204, 39046, 45523, 37507, 30830, 39872, 41408, 36104, 14236, 6909,
      17265, 20036, 42539, 38913, 40909, 9154, 7979, 10925, 43025, 40873, 20876, 45020, 37366, 7171,
      575, 7348, 20364, 34385, 24694, 34682, 30770, 15895, 6906, 36353, 9707, 38909, 18900, 10088,
      18003, 35209, 4209, 23967, 49968, 38130, 22325, 39294, 37274, 41774, 12709, 31426, 99, 7859,
      25490, 28017, 25633, 29867, 45752, 3903, 47169, 43401, 33336, 14243, 34936, 38206, 9295, 33025,
      32516, 39866, 6867, 31690, 9193, 5658, 10470, 29017, 3787, 4688, 26304, 30991, 3966, 29138,
      20226, 14654, 45890, 38639, 48805, 13445, 9153, 22715, 18644, 34725, 29967, 19328, 43173, 35034,
      15710, 27198, 49434, 40885, 32952, 49072, 44430, 35416, 42646, 8866, 5477, 46729, 43594, 43235,
      33186, 31669, 17512, 14324, 43453, 29499, 42681, 42326, 18306, 49528, 44745, 46827, 27531, 24955,
      14483, 11339, 41225, 35469, 45389, 2256, 35177, 10710, 14020, 12430, 27577, 36891, 30252, 2948,
      18034, 33759, 25719, 31782, 25400, 32002, 32693, 33107, 35027, 8462, 44678, 7924, 40868, 26907,
      16627, 41525, 45235, 32912, 22479, 7872, 43130, 30076, 10594, 42800, 3989, 43566, 43418, 46301,
      29920, 10887, 29830, 49844, 26947, 13772, 48143, 5416, 19292, 19678, 25392, 47251, 14422, 7495,
      7022, 12221, 7103, 22376, 3496, 15406, 18833, 14882, 34511, 38145, 32493, 17191, 5547, 30774,
      27960, 25177, 32630, 5514, 39656, 1873, 3637, 46394, 28935, 22157, 33809, 28263, 43346, 33248,
      21619, 37409, 5317, 20179, 29133, 18920, 38255, 4716, 23607, 5472, 14615, 41685, 7917, 41497,
      25749, 35339, 10174, 24830, 37133, 42628, 36985, 270, 33664, 23948, 27058, 42927, 21096, 39912,
      24330, 32192, 49040, 21171, 6455, 13402, 1923, 11510, 25870, 10642, 45172, 32685, 33727, 4109,
      14723, 27576, 32637, 8213, 45227, 28008, 36908, 44054, 8292, 30485, 29436, 6436, 43213, 44750,
      4121, 46862, 14647, 7075, 2033, 30717, 685, 4375, 44521, 25206, 4002, 27456, 12361, 24375,
      49933, 19470, 11800, 9517, 7136, 36201, 26422, 6248, 45837, 6744, 7850, 18759, 41431, 4802,
      3517, 42623, 43437, 29026, 29260, 10160, 2361, 19864, 16660, 3478, 17720, 15503, 20402, 28301,
      5659, 2201, 44295, 26077, 10314, 12346, 32153, 20520, 18039, 20859, 269, 49589, 23738, 35227,
      177, 33091, 23410, 26214, 32415, 32057, 35259, 48868, 46569, 21178, 31959, 24749, 20911, 4842,
      31696, 48533, 32638, 14072, 5135, 7768, 38013, 22162, 34712, 32238, 42579, 22169, 22786, 912,
      40791, 10061, 20787, 19582, 32231, 32084, 28162, 15336, 6876, 41064, 12585, 49260, 622, 40654,
      27901, 49244, 49143, 8878, 2287, 45974, 22087, 18470, 9703, 34030, 16175, 8514, 12584, 25448,
      28434, 25054, 40148, 33511, 223, 23755, 41382, 35378, 30277, 7553, 2208, 48738, 21149, 10425,
      31761, 18523, 18217, 12374, 45660, 41219, 14789, 10990, 34302, 49581, 29041, 45443, 15319, 35502,
      6992, 18772, 8532, 5556, 37046, 23842, 44622, 3752, 8094, 28686, 36644, 48161, 2190, 30861,
      48414, 31256, 47968, 46336, 8928, 33063, 15741, 39400, 28762, 22527, 45721, 19946, 18788, 5716,
      30446, 38940, 6578, 9383, 36464, 33267, 49853, 36614, 41517, 17678, 12898, 42778, 43982, 32797,
      31901, 8852, 33476, 48986, 19268, 878, 36765, 44266, 7767, 37625, 45658, 42895, 17114, 39151,
      36750, 10231, 35493, 359, 8136, 35913, 3132, 39003, 40242, 10379, 15947, 28611, 43304, 11455,
      31404, 48064, 31322, 34901, 37856, 27642, 35286, 14652, 27552, 43229, 18776, 43899, 1328, 35624,
      10771, 30057, 40212, 21497, 19189, 6951, 35703, 35068, 2796, 30787, 16536, 13549, 18766, 7196,
      11681, 5706, 36140, 41489, 1356, 42203, 40220, 43444, 20111, 411, 47352, 16387, 25399, 40786,
      34747, 286, 28932, 31858, 4161, 34430, 36013, 23423, 31314, 44730, 41783, 24391, 35211, 26494,
      39794, 27948, 19912, 24654, 33652, 38100, 32198, 39833, 28142, 47422, 48452, 4258, 34925, 49493,
      37204, 35275, 18560, 5844, 6300, 31772, 8096, 31539, 41170, 24428, 12509, 10182, 44932, 4584,
      24025, 42805, 24896, 32053, 10084, 13544, 18438, 37179, 17556, 1261, 19170, 36313, 9085, 30670,
      24358, 213, 21406, 34455, 4174, 6341, 5414, 15097, 34972, 49867, 1117, 31375, 32620, 10696,
      28108, 30054, 10569, 19000, 4525, 24505, 514, 16552, 48497, 2584, 27179, 34957, 2425, 22528,
      9875, 32709, 21011, 30538, 34239, 32105, 14945, 41623, 25240, 5634, 28678, 29314, 46549, 19716,
      45023, 44317, 34180, 40074, 5132, 38114, 40530, 42830, 15622, 19099, 32820, 6422, 8511, 46466,
      47897, 48942, 16699, 45990, 2918, 27465, 15268, 5554, 13159, 22701, 2533, 16401, 6460, 42045,
      37509, 37857, 28705, 9477, 41087, 24923, 45905, 48400, 22397, 12127, 43893, 4590, 13078, 33285,
      10879, 10468, 42744, 22517, 49226, 13405, 11816, 36508, 12799, 16681, 8487, 2497, 16634, 38955,
      8518, 3103, 23961, 12256, 34446, 900, 8813, 34989, 15547, 16394, 18207, 48429, 33632, 21186,
      6292, 29584, 37659, 24744, 14264, 19957, 7885, 1650, 35178, 140, 23598, 30537, 25276, 44501,
      23366, 13743, 37352, 39480, 26757, 18340, 45589, 16548, 21099, 29464, 27113, 49097, 21428, 22712,
      43069, 37037, 20844, 15260, 5588, 13554, 7047, 47658, 36657, 30978, 33463, 13388, 43838, 29803,
      27439, 40427, 15672, 30044, 16505, 4577, 16906, 1148, 19931, 3459, 16837, 15180, 18760, 26729,
      14280, 11318, 22365, 14927, 16104, 22067, 24684, 12116, 10517, 40856, 34226, 42546, 17307, 25982,
      41228, 8138, 2937, 14120, 3559, 3528, 18541, 15988, 28462, 10982, 39128, 20481, 46190, 24431,
      46440, 18859, 45425, 15454, 27504, 6258, 15705, 23858, 520, 45738, 38738, 27827, 31621, 46818,
      18763, 31812, 49131, 30198, 30007, 14353, 45585, 17501, 48689, 33125, 45384, 49437, 4749, 11857,
      2878, 40610, 348, 4847, 3469, 46929, 17590, 3706, 37756, 28319, 16598, 3634, 46115, 29319,
      14420, 1664, 14186, 13836, 37185, 2842, 18507, 43026, 1450, 25698, 34452, 17742, 28090, 2242,
      30686, 35545, 36008, 4628, 4343, 25810, 15137, 19500, 48165, 41462, 5807, 21860, 7137, 10290,
      34146, 24875, 33646, 13693, 20898, 43062, 513, 24732, 1101, 23878, 25834, 29738, 10795, 44787,
      15713, 38236, 18568, 13169, 26174, 22456, 36592, 44459, 36767, 5390, 39935, 47643, 30150, 45229,
      12503, 12535, 40690, 26684, 12596, 42694, 22974, 26960, 4282, 8542, 35888, 24436, 36728, 3984,
      7185, 45996, 31983, 36968, 25327, 14807, 39064, 49899, 401, 43845, 45826, 13638, 37702, 47086,
      12480, 32843, 14149, 19774, 30247, 33169, 9498, 25740, 22798, 38907, 19069, 8710, 24291, 37738,
      41200, 44176, 43202, 28897, 30396, 7871, 18005, 32023, 7828, 36102, 23288, 26009, 19188, 11176,
      8846, 36640, 8025, 25718, 27131, 3144, 30345, 32261, 48997, 12904, 45402, 18884, 3740, 2130,
      49001, 6983, 48875, 27786, 33232, 8771, 17339, 36851, 40458, 46832, 30002, 39413, 37486, 38974,
      44914, 37910, 24420, 40511, 12494, 19398, 34434, 31237, 43192, 40923, 9962, 41892, 45807, 16069,
      39471, 38268, 1836, 14983, 8175, 38470, 5047, 38119, 13593, 30322, 1604, 15676, 12156, 36610,
      19305, 1475, 25951, 1145, 15894, 22035, 10906, 1235, 46158, 4907, 9660, 4545, 5006, 6694,
      18725, 30680, 18202, 35640, 40453, 35049, 21361, 25086, 33013, 37072, 679, 40999, 11177, 47651,
      4848, 31048, 29818, 18305, 20699, 39090, 18851, 21394, 24167, 3268, 40729, 2873, 38166, 10884,
      47645, 25930, 44797, 36512, 3135, 16056, 11490, 101, 26831, 22806, 38625, 19196, 12152, 63,
      30249, 2604, 33810, 9787, 49777, 28770, 13837, 24771, 5224, 22086, 49446, 38668, 36363, 4391,
      21623, 5138, 11754, 27704, 3012, 29153, 7575, 18134, 39027, 41501, 42379, 7107, 27013, 40742,
      23079, 45995, 9302, 30176, 30753, 28130, 44715, 23844, 9333, 23260, 40129, 34309, 33127, 44903,
      39399, 1569, 39429, 1715, 18997, 38062, 40765, 22591, 44631, 13096, 32096, 29219, 572, 39371,
      38841, 31409, 30943, 18267, 11389, 795, 49292, 2157, 5673, 37468, 30305, 33059, 13302, 20535,
      25125, 34358, 5417, 6445, 3417, 41888, 35828, 21479, 31925, 43218, 16486, 17355, 29275, 39370,
      12545, 7051, 28701, 4953, 44427, 49295, 48941, 33500, 39722, 4612, 48017, 34553, 49227, 43406,
      38606, 49088, 42069, 22802, 1220, 9198, 28578, 48368, 39714, 21790, 28784, 6011, 7050, 19509,
      37613, 37907, 2481, 46195, 24039, 31865, 36085, 11507, 142, 1056, 46293, 23737, 17747, 12035,
      3179, 49808, 25505, 26556, 4101, 48166, 44280, 48202, 21433, 25029, 43051, 37526, 45355, 2090,
      15314, 32971, 46807, 18167, 17181, 3901, 23779, 38479, 26302, 44791, 39768, 25166, 29031, 49562,
      613, 26247, 36678, 7534, 35638, 14928, 14406, 49703, 28421, 18525, 17949, 13951, 4363, 23899,
      40955, 22938, 14920, 46885, 42997, 14838, 13376, 20926, 49283, 19767, 41559, 15883, 26840, 22893,
      18819, 14841, 34859, 13202, 14177, 33699, 8579, 22220, 22194, 24902, 718, 10376, 44941, 27533,
      13968, 36938, 27111, 11533, 36722, 12343, 28648, 22000, 23479, 32030, 6712, 14775, 36706, 14377,
      44652, 25856, 4398, 4659, 32545, 5934, 5507, 31228, 7823, 42560, 24964, 35175, 1598, 29035,
      33752, 27953, 8779, 2657, 30260, 17909, 37446, 18516, 26664, 10042, 15841, 32589, 10087, 11743,
      48114, 37576, 13640, 8751, 4051, 33973, 18190, 10716, 9109, 25626, 9870, 15579, 42576, 19951,
      1890, 41047, 39947, 20801, 17845, 41278, 34946, 22130, 28641, 46691, 18181, 18602, 19301, 40547,
      42538, 37323, 25545, 8332, 42250, 2444, 16229, 4794, 11717, 18774, 13028, 29025, 34483, 47966,
      21697, 39466, 42161, 2319, 20152, 37815, 49003, 42691, 13525, 18742, 705, 30986, 36652, 41028,
      12408, 7484, 31972, 35359, 39024, 22904, 15862, 20899, 17000, 12795, 20988, 13574, 43744, 18356,
      1523, 33564, 7757, 22461, 16118, 3778, 15289, 1547, 43017, 41029, 18334, 28187, 43489, 3246,
      42510, 23801, 18009, 48558, 48624, 30452, 13320, 45997, 26053, 7603, 2798, 36999, 32855, 27334,
      46017, 6124, 16818, 880, 20336, 20745, 44384, 13532, 49938, 47331, 8856, 16872, 48198, 33732,
      38425, 2805, 8356, 17021, 22577, 5425, 31620, 8008, 8453, 10579, 39237, 21890, 15967, 33774,
      17859, 24724, 30443, 1612, 28392, 18985, 1706, 47567, 41594, 44248, 28623, 11714, 30236, 41861,
      9970, 33225, 31149, 33602, 23850, 22541, 35475, 17766, 12284, 11602, 35582, 7221, 26706, 29270,
      8604, 24610, 18628, 20166, 18357, 48477, 39541, 32032, 12962, 24516, 20197, 25220, 46239, 28492,
      13564, 36936, 33074, 39598, 28063, 26860, 8000, 22594, 26377, 19372, 10493, 42886, 49695, 46439,
      31542, 6883, 18789, 8371, 18139, 36712, 42569, 14641, 576, 37235, 2924, 46928, 27116, 28692,
      2411, 31380, 34935, 49475, 44742, 25576, 2947, 22261, 5601, 29331, 44324, 35066, 47859, 5161,
      27242, 24871, 11040, 11289, 28418, 33738, 5599, 18918, 44530, 45906, 14275, 42426, 3183, 43205,
      28215, 12438, 4164, 22531, 40238, 17944, 10535, 32831, 45421, 29726, 4200, 15992, 25288, 47849,
      11068, 8228, 10274, 25361, 41484, 44012, 47454, 4796, 3757, 8815, 12029, 38612, 49401, 47183,
      8742, 7420, 33152, 44193, 18025, 31151, 5781, 21276, 43157, 34814, 26566, 4762, 47364, 22944,
      34274, 8283, 35401, 31080, 18571, 37206, 47662, 33213, 19786, 27787, 17828, 12844, 13771, 43155,
      33739, 2070, 40201, 15783, 22575, 23217, 43079, 11609, 30460, 11387, 22543, 18441, 9274, 1691,
      7921, 9534, 38891, 1693, 28471, 995, 43457, 14912, 39686, 34398, 47528, 12369, 11013, 32102,
      36627, 9573, 18559, 49164, 22548, 47941, 37469, 24458, 17217, 33135, 21465, 23203, 5584, 13680,
      22845, 32597, 6831, 21237, 20494, 17892, 9816, 30174, 20188, 23309, 20228, 49889, 45804, 31424,
      14930, 3398, 23256, 27137, 31156, 34556, 12972, 4080, 21016, 16858, 33567, 16186, 7007, 629,
      38345, 14344, 38005, 290, 49998, 21764, 28040, 4211, 19806, 21517, 1173, 27389, 36016, 28303,
      10334, 27361, 8189, 31745, 17088, 43238, 24897, 11779, 28829, 17119, 41412, 48630, 41367, 47024,
      38956, 3678, 3897, 44940, 39189, 29526, 28596, 26945, 24919, 9222, 31694, 4444, 37793, 48051,
      39617, 26285, 40253, 32410, 40428, 24523, 4778, 30568, 31473, 9423, 22112, 11175, 31888, 2677,
      22790, 23025, 38557, 25335, 21915, 23805, 12308, 3745, 34838, 41365, 31435, 18609, 24828, 45433,
      21722, 14108, 14221, 9009, 8227, 20935, 23319, 46809, 30759, 26921, 49587, 25355, 6606, 22714,
      21877, 14040, 39800, 33806, 45071, 31614, 14634, 42499, 40361, 40958, 39418, 17025, 49918, 25796,
      45898, 4713, 3387, 38033, 8157, 27903, 31104, 33934, 29876, 37951, 43687, 18751, 47664, 15777,
      13792, 49269, 18515, 32775, 29549, 33631, 39614, 42335, 8757, 13896, 2538, 2605, 14839, 46665,
      36950, 14197, 6223, 19003, 46849, 30495, 47731, 28052, 14133, 30850, 45562, 7199, 36237, 44447,
      43506, 16534, 36888, 45173, 25971, 41650, 43096, 49714, 36864, 11585, 5379, 21501, 39020, 43425,
      9365, 41719, 20772, 6489, 36125, 41641, 28335, 1471, 31382, 15092, 36804, 4673, 12280, 485,
      7791, 12740, 32973, 11736, 6068, 3977, 20680, 478, 1266, 42116, 13185, 19406, 42009, 14787,
      6241, 42143, 30656, 8010, 29857, 3949, 32662, 44066, 18282, 44740, 35838, 21319, 23414, 28222,
      27560, 1259, 45779, 25141, 30370, 32829, 4344, 23323, 26477, 18887, 22950, 1804, 1844, 10980,
      47046, 19467, 47016, 23579, 38966, 26632, 38768, 26530, 24663, 9995, 7913, 26952, 6332, 14929,
      8589, 48708, 7412, 41391, 39618, 25508, 5671, 34856, 37723, 30366, 28651, 451, 483, 11931,
      20856, 16278, 20994, 34301, 39660, 41492, 23754, 36562, 487, 26687, 39318, 39209, 38678, 31936,
      45264, 30400, 5444, 1042, 43100, 49678, 36782, 6619, 49416, 14093, 19335, 31790, 14613, 24342,
      48405, 24132, 47812, 19594, 17574, 43545, 21272, 47992, 563, 42154, 20250, 23543, 37998, 25415,
      33229, 3166, 29683, 48964, 15395, 10623, 11414, 13724, 16735, 13974, 9489, 44503, 27972, 17984,
      36063, 35761, 48060, 6713, 14890, 30756, 3475, 46720, 6280, 5953, 28089, 6101, 20163, 13164,
      11973, 44643, 31806, 1380, 47532, 18665, 43421, 6087, 48389, 31637, 11792, 29691, 43414, 48957,
      36794, 44399, 37807, 41037, 27010, 10039, 21533, 40043, 22975, 2394, 21716, 40169, 607, 5420,
      20353, 44902, 10898, 43359, 39877, 17060, 30196, 47395, 4195, 20639, 29578, 29569, 10809, 33506,
      42910, 29326, 7429, 12106, 34880, 35938, 11358, 45288, 47409, 14869, 13583, 47033, 45157, 34260,
      34897, 19958, 12014, 32645, 43193, 17139, 10726, 22690, 46504, 25031, 4718, 7700, 36040, 1309,
      7912, 2397, 14783, 3050, 8715, 40331, 37234, 506, 42791, 10788, 2136, 46671, 42182, 19905,
      36241, 9098, 39431, 24581, 4755, 43560, 11379, 4365, 20136, 15576, 44015, 49459, 31264, 27342,
      10513, 34554, 42852, 15300, 10509, 21198, 41069, 24713, 6627, 17213, 3710, 16902, 40587, 14742,
      38446, 22272, 29730, 46702, 31893, 44649, 23063, 34219, 40400, 34135, 8281, 41695, 30323, 21693,
      38586, 39609, 12978, 36377, 18468, 24321, 1399, 38477, 6616, 40409, 9075, 6709, 9307, 33022,
      43682, 7060, 2430, 15348, 13756, 30571, 39167, 44868, 44615, 44967, 49038, 37513, 13113, 41466,
      4440, 37502, 33695, 26159, 17975, 42313, 28198, 10201, 18578, 24246, 47250, 12694, 23313, 16884,
      39022, 47871, 38339, 29298, 38312, 22370, 21525, 7819, 39985, 26229, 33007, 22803, 38753, 3266,
      33020, 16827, 22864, 35325, 8505, 18966, 47084, 47685, 44628, 43153, 37572, 49564, 47143, 27427,
      48101, 37373, 38860, 26438, 48902, 44796, 39096, 26480, 2018, 49073, 7042, 35683, 9362, 44450,
      19917, 16410, 13088, 8233, 32960, 14583, 45149, 30093, 27422, 11229, 33278, 16784, 11718, 9900,
      12244, 13815, 9513, 13736, 41490, 21633, 16716, 26448, 44391, 35376, 38120, 33344, 9642, 43717,
      19102, 13953, 15370, 25004, 24947, 15902, 24541, 27999, 37397, 13961, 3498, 24839, 22621, 17292,
      38630, 17440, 15788, 41411, 32417, 6377, 17236, 4490, 29562, 3978, 26203, 32454, 9938, 34804,
      10786, 28168, 35849, 43602, 21985, 24590, 35237, 7113, 9809, 25925, 37831, 30056, 49237, 29407,
      48008, 11216, 3911, 2803, 43196, 20838, 28782, 29151, 14659, 34797, 45612, 18904, 39642, 45410,
      41942, 47746, 2120, 34669, 35528, 4024, 41797, 42451, 12762, 45024, 13916, 38686, 6286, 39823,
      34021, 20819, 49728, 13354, 4871, 17431, 26813, 26814, 17847, 21085, 18973, 41189, 7690, 20871,
      20068, 31003, 13594, 49233, 39295, 18712, 47089, 2173, 19993, 19411, 46002, 22382, 6257, 10070,
      46071, 37867, 11793, 44110, 37896, 18873, 9250, 12022, 32772, 2819, 33532, 4105, 18262, 45676,
      29199, 14876, 13735, 13390, 48971, 23884, 1302, 43015, 4964, 16736, 6637, 14360, 39820, 40749,
      18531, 46156, 2006, 8603, 29884, 32029, 43848, 33497, 35280, 46852, 48343, 26893, 36362, 2447,
      19687, 5871, 39604, 12113, 3995, 1198, 3473, 7695, 9138, 16894, 583, 26007, 4808, 28409,
      34760, 17660, 31988, 47679, 30058, 32143, 15491, 49455, 17414, 24751, 49991, 25016, 872, 44788,
      42461, 39042, 35390, 11263, 13741, 26741, 19137, 6453, 9644, 6208, 38149, 3213, 29018, 49396,
      36215, 4993, 5736, 45422, 37649, 34067, 40224, 41230, 24953, 20647, 48206, 36623, 36651, 49272,
      40777, 30560, 10429, 47269, 1874, 20894, 14416, 8653, 38984, 7644, 36371, 36849, 36819, 650,
      32437, 39708, 27298, 7740, 48660, 12562, 43662, 38858, 38252, 26021, 25990, 36166, 28550, 33681,
      41432, 14480, 45877, 7000, 13589, 39788, 17055, 22644, 27993, 30643, 257, 25696, 3045, 11994,
      22590, 38167, 45196, 38517, 33689, 22630, 1939, 4236, 30626, 23336, 45601, 2468, 29108, 38039,
      6531, 49915, 2184, 4223, 41545, 43880, 44297, 14315, 25999, 17067, 46745, 31864, 19407, 46289,
      7472, 26075, 15476, 38521, 38317, 5094, 31292, 13915, 15986, 43308, 14307, 31729, 10631, 3620,
      12706, 42898, 24702, 24571, 33474, 41933, 43943, 18636, 32301, 522, 37165, 19628, 19640, 43094,
      9946, 26713, 23577, 43633, 23789, 24652, 32171, 13199, 10305, 47035, 49364, 41374, 48138, 9139,
      47687, 16815, 43988, 47467, 4037, 14099, 9775, 45903, 21093, 30347, 31948, 35213, 41407, 17195,
      28358, 16362, 22438, 28171, 47656, 16602, 13244, 48443, 18084, 37986, 1011, 3026, 34167, 48267,
      19082, 38816, 35348, 49684, 42622, 13763, 16067, 4065, 4991, 39716, 28847, 28033, 41792, 12095,
      37364, 33237, 20242, 17340, 9626, 22247, 3157, 11295, 49845, 42057, 11132, 30667, 44707, 48228,
      15126, 20515, 46925, 24739, 1834, 33878, 34526, 20386, 14132, 11828, 32354, 7271, 30458, 6438,
      35741, 22565, 40691, 28252, 15117, 23748, 16908, 24301, 11473, 38833, 46199, 30778, 34871, 36391,
      23875, 3509, 23370, 41142, 22498, 18401, 24872, 5096, 24477, 14666, 30152, 12785, 26861, 19794,
      37088, 35463, 6672, 28332, 8197, 44873, 32064, 33794, 49315, 1290, 49230, 2688, 49076, 28422,
      45697, 25214, 24138, 11291, 36909, 25516, 36441, 48976, 46370, 26877, 30488, 29060, 9853, 44255,
      4186, 7046, 19098, 45741, 8174, 4345, 15468, 18373, 28157, 28285, 42060, 9379, 14176, 22833,
      25129, 13634, 35392, 6775, 3518, 44423, 32038, 40407, 42131, 40234, 20414, 25075, 27034, 48916,
      46497, 46933, 4547, 3677, 33381, 46207, 39638, 16010, 41817, 37758, 14075, 29792, 3463, 11326,
      27492, 17655, 14853, 12549, 34950, 13173, 34291, 37980, 27248, 8121, 19108, 18654, 45803, 47594,
      13430, 1123, 41368, 2904, 13086, 42027, 37753, 31081, 6260, 33325, 23249, 28528, 11325, 4888,
      10203, 29817, 25610, 36620, 14386, 34209, 8516, 33255, 10322, 40861, 10661, 3864, 29786, 48193,
      24199, 9210, 8127, 3079, 27352, 49570, 25558, 49649, 11506, 42456, 11581, 45116, 24971, 40667,
      10722, 35381, 44009, 6830, 12281, 5334, 39297, 43554, 11928, 37829, 37675, 8534, 2214, 32718,
      46932, 39557, 48465, 21375, 19606, 10705, 2249, 29248, 38780, 42700, 6836, 8185, 27309, 701,
      10914, 23937, 15755, 35239, 36553, 11629, 13823, 31187, 46184, 11693, 22718, 16833, 28813, 6534,
      14531, 28479, 9504, 4978, 100, 36802, 42890, 28619, 43875, 6151, 5403, 11199, 7726, 41554,
      19132, 3440, 19638, 11316, 49205, 49255, 34377, 804, 43271, 30715, 49215, 19992, 4624, 27416,
      44805, 36590, 11679, 18634, 38387, 38226, 34741, 1966, 5621, 39207, 11727, 27203, 44820, 17428,
      34496, 10868, 36783, 40463, 32686, 3062, 23356, 18043, 34942, 33195, 6673, 13387, 1322, 17947,
      789, 32448, 44158, 3187, 30199, 31535, 16461, 41102, 12228, 27458, 14171, 4294, 3865, 21559,
      2061, 47595, 26833, 1964, 5402, 30466, 29591, 4446, 16664, 9156, 20341, 15875, 26223, 35446,
      1690, 26590, 8862, 27403, 32431, 10235, 44954, 47504, 2641, 46883, 11631, 47914, 2063, 16550,
      16384, 31028, 9071, 22980, 46902, 26779, 9973, 38338, 34677, 8999, 40735, 12837, 12405, 7505,
      17953, 16637, 14805, 24973, 30858, 49119, 12255, 156, 44300, 10443, 13935, 14383, 35424, 41138,
      48046, 30159, 40215, 23983, 36554, 7929, 2478, 6639, 6064, 43002, 39315, 1393, 18611, 2959,
      10154, 23114, 39235, 28043, 46880, 24508, 21828, 41130, 49599, 43470, 8887, 26496, 32039, 4961,
      37617, 14046, 29941, 25383, 31895, 21620, 10266, 31855, 4902, 43122, 14053, 3355, 29201, 10767,
      1625, 34892, 49264, 36816, 25021, 23318, 31938, 35553, 12034, 14730, 28510, 42507, 38200, 12456,
      37872, 47705, 12548, 27755, 28581, 46550, 34183, 31507, 49805, 41464, 5429, 21765, 23689, 42990,
      46368, 30073, 6842, 35608, 18723, 38846, 21340, 34133, 9676, 32758, 6815, 14903, 3015, 44892,
      10155, 21278, 43681, 31033, 2241, 39217, 47398, 15326, 34671, 47940, 22234, 36252, 32253, 33459,
      14151, 43180, 4596, 1038, 4206, 25299, 34091, 36689, 46044, 18078, 3562, 24629, 27171, 4999,
      10149, 27783, 28983, 6795, 39615, 47348, 46218, 38050, 47984, 14867, 16787, 38839, 14675, 47382,
      4736, 34061, 14660, 30695, 43397, 21914, 17505, 34605, 9185, 34056, 20952, 15009, 34362, 40903,
      19777, 41504, 38716, 46799, 29357, 23829, 39274, 11787, 42260, 7013, 34661, 39687, 43849, 40883,
      38661, 34673, 4618, 15001, 8011, 26281, 905, 30397, 46062, 19161, 37708, 49761, 45120, 45605,
      20797, 4167, 40949, 36504, 45613, 36906, 25501, 7997, 34043, 3322, 26609, 27816, 43251, 44173,
      45392, 3741, 30402, 34481, 26070, 32944, 247, 11188, 25330, 5422, 10004, 25690, 32865, 47712,
      41342, 27099, 47413, 28177, 9081, 26721, 39738, 1716, 47131, 7430, 26965, 31173, 9181, 45973,
      49464, 36477, 8885, 10023, 30530, 11112, 38428, 38552, 28373, 32682, 36926, 25655, 27714, 49627,
      22155, 26864, 37653, 24156, 42677, 49267, 6557, 7068, 30754, 3172, 34668, 11361, 31425, 11271,
      10112, 2479, 3769, 45939, 7486, 8911, 44894, 49017, 5979, 23162, 44461, 30672, 26659, 4706,
      21491, 34242, 28629, 12657, 17538, 33884, 28068, 14970, 32700, 35770, 39551, 35845, 47022, 49393,
      40250, 10856, 28862, 48270, 29028, 318, 38132, 13952, 26873, 13348, 8072, 28318, 2508, 24388,
      5496, 46222, 46845, 39, 43177, 44575, 1371, 15564, 36822, 24635, 288, 26591, 3492, 10185,
      17405, 47633, 832, 38560, 20232, 21370, 43889, 20394, 28972, 25048, 34250, 31325, 42620, 39796,
      46406, 48411, 41722, 49327, 16975, 28568, 26034, 21884, 4484, 35971, 19616, 22939, 46906, 47464,
      47227, 21664, 36317, 5699, 15337, 41072, 20533, 17296, 4840, 23348, 7129, 26466, 17460, 34795,
      20100, 40300, 34367, 46848, 1035, 40349, 8, 24098, 30050, 39414, 40632, 8762, 29770, 941,
      34997, 15661, 13692, 43329, 35800, 39337, 43676, 37101, 48668, 3522, 9799, 42768, 45045, 7261,
      10288, 21440, 5044, 13369, 4742, 40099, 23269, 17035, 7992, 13950, 17931, 24186, 715, 15575,
      5383, 8553, 6790, 9607, 20040, 48748, 17315, 18898, 14544, 45414, 40204, 40620, 21928, 25132,
      33188, 8255, 32915, 19651, 10038, 45998, 16236, 40527, 34049, 9393, 35723, 13319, 22122, 21938,
      26560, 15920, 9251, 39645, 40189, 32287, 31077, 7467, 49299, 27652, 1857, 8323, 13766, 18879,
      34637, 19862, 36117, 20459, 12749, 4987, 45970, 7520, 39417, 46415, 14672, 1420, 47180, 29924,
      22524, 42773, 30757, 19519, 18505, 46654, 5431, 32055, 3319, 37948, 37391, 25637, 48795, 24989,
      19695, 36516, 40023, 46871, 27899, 44688, 35389, 25136, 44856, 22404, 32578, 40852, 36548, 49108,
      26043, 4424, 15560, 16583, 4560, 29161, 32501, 8236, 1352, 17822, 26136, 46833, 37695, 30590,
      20769, 25033, 15238, 25687, 12105, 28934, 41611, 34476, 15609, 30688, 2218, 23683, 8805, 25720,
      4228, 37459, 1945, 33906, 568, 25384, 47671, 17741, 42489, 30613, 39225, 40724, 26048, 44909,
      17798, 48726, 12166, 17056, 40255, 38480, 8992, 32461, 27057, 8336, 4022, 31364, 42071, 21530,
      38750, 1050, 37406, 26482, 24010, 14684, 16942, 24145, 14813, 17614, 37283, 13555, 22830, 19448,
      544, 16443, 42197, 1887, 36406, 10010, 32422, 34356, 28209, 32241, 49794, 41150, 9502, 30744,
      36563, 9655, 13135, 2477, 36967, 42955, 8338, 26198, 4821, 39123, 9080, 13930, 35146, 37140,
      35711, 19801, 48838, 33780, 4115, 6051, 40515, 17367, 12142, 49699, 32186, 34971, 34126, 18050,
      43081, 8086, 26369, 21000, 13710, 12206, 26959, 32074, 25096, 46281, 29302, 38720, 7255, 820,
      40500, 46348, 48007, 32990, 10408, 27483, 5210, 45969, 17751, 29438, 27875, 25267, 42441, 12077,
      27620, 45178, 13158, 22166, 9507, 46918, 30126, 47285, 25320, 16587, 19297, 39842, 5251, 23739,
      44626, 40991, 19172, 17539, 5720, 49503, 10373, 31612, 23113, 10328, 25539, 4113, 24857, 41355,
      48322, 46941, 8218, 45234, 28736, 284, 5093, 36695, 30463, 48076, 39378, 35114, 44899, 40783,
      5917, 19318, 16046, 31530, 22900, 28116, 21571, 29184, 30240, 23433, 19425, 13789, 22732, 6498,
      28181, 28002, 10645, 48591, 27513, 32081, 25422, 17042, 32519, 656, 25067, 36692, 27231, 33666,
      20563, 7085, 3413, 5456, 13482, 46527, 33876, 38953, 32641, 3532, 25153, 12195, 15306, 33076,
      41931, 14810, 49977, 32893, 29626, 34649, 30648, 12553, 803, 13485, 2784, 46568, 46994, 26892,
      29107, 23431, 230, 202, 43412, 16096, 2334, 13607, 17873, 36642, 24452, 44048, 38887, 22767,
      9214, 27164, 9558, 40322, 7417, 43260, 18749, 33483, 46609, 37026, 47539, 46715, 15475, 14752,
      24444, 38692, 39152, 43563, 20640, 34331, 29380, 19024, 14897, 15461, 32306, 22585, 367, 32239,
      42591, 45353, 13020, 48507, 8319, 7554, 11623, 12754, 18186, 29522, 35558, 42909, 35288, 456,
      42269, 28271, 40265, 39582, 45733, 18189, 16210, 26195, 31724, 33796, 16414, 34295, 2137, 13137,
      8306, 3162, 33958, 23677, 15834, 13339, 28345, 18085, 17389, 2700, 27212, 39428, 49189, 42610,
      9112, 3695, 49883, 33693, 4171, 4687, 26416, 12590, 18770, 299, 29555, 7587, 18355, 31580,
      7124, 30603, 47505, 29440, 1840, 20162, 10602, 25897, 26232, 1718, 24921, 36791, 10739, 964,
      45212, 13913, 22129, 17869, 31626, 7839, 47500, 30940, 1581, 41672, 36872, 10953, 40481, 2566,
      33819, 22586, 14272, 20303, 31605, 2183, 10319, 46811, 36428, 9570, 49284, 47178, 32487, 47612,
      26079, 23530, 8029, 47868, 36422, 46357, 35018, 21487, 45030, 39998, 6635, 42319, 15770, 27826,
      42176, 41967, 47242, 44104, 7488, 13875, 753, 21997, 10833, 10205, 21306, 48547, 26552, 34058,
      45351, 4125, 2788, 21451, 41053, 41819, 39751, 48891, 3371, 40452, 39478, 31356, 23268, 18204,
      26153, 15351, 36711, 39271, 34956, 21929, 49542, 34238, 43576, 25211, 18855, 14415, 43638, 9646,
      33239, 23363, 3544, 39589, 3347, 28294, 11388, 1714, 29994, 47168, 35635, 9933, 26414, 44144,
      40979, 49355, 42254, 2583, 36151, 12951, 37107, 18113, 23300, 2957, 3971, 24438, 2559, 38543,
      6180, 20826, 25062, 39726, 38755, 2684, 30406, 31617, 4935, 26157, 47290, 12410, 38371, 27149,
      13218, 45336, 32068, 9456, 26731, 47350, 42812, 27320, 12764, 9509, 39240, 38749, 48335, 5284,
      14638, 42593, 47819, 33552, 48695, 3334, 2060, 26912, 7457, 23662, 15276, 15528, 43231, 2171,
      40444, 46379, 40055, 37788, 26606, 30964, 42514, 12891, 5521, 16317, 27683, 38732, 28337, 5973,
      22623, 28727, 45546, 42877, 42721, 14702, 34988, 22887, 25450, 23962, 25944, 28427, 30583, 23975,
      49588, 30046, 46287, 17125, 21310, 16487, 8650, 35273, 46139, 35584, 24725, 32139, 6745, 13271,
      7558, 41326, 18963, 39592, 32036, 26238, 33372, 12268, 17607, 37589, 24781, 1642, 26857, 3686,
      291, 31412, 2085, 48107, 29296, 43604, 11747, 32612, 47514, 36119, 32361, 32644, 30065, 1765,
      45058, 29096, 48140, 26577, 36837, 20687, 13292, 22711, 27362, 29229, 49111, 22262, 689, 36904,
      49786, 19401, 25002, 5894, 40276, 36101, 24759, 20488, 7926, 48769, 49409, 41338, 46653, 2797,
      12236, 23609, 21466, 31956, 49158, 33581, 23277, 32346, 4885, 1216, 18933, 11773, 46593, 37210,
      23724, 5605, 2089, 4739, 4286, 22584, 35809, 16088, 46658, 47266, 46983, 37176, 12139, 30139,
      4438, 7202, 39319, 46244, 21086, 1827, 5453, 21878, 29000, 18408, 28504, 1870, 49438, 41237,
      47810, 34286, 19960, 48473, 14317, 11524, 12209, 41616, 24328, 5927, 37950, 45148, 26904, 188,
      14893, 38577, 31399, 45816, 16554, 12273, 34055, 28575, 30585, 33375, 27406, 12232, 48866, 43358,
      34153, 20846, 19126, 25391, 31847, 35939, 5648, 9514, 48239, 30004, 14257, 36294, 12583, 42888,
      14696, 17365, 30664, 19039, 40405, 28637, 26031, 44683, 45914, 38432, 9053, 20362, 13215, 31484,
      41378, 24840, 714, 31519, 31167, 23582, 45596, 9811, 23124, 26696, 41152, 12530, 26949, 33058,
      27986, 38060, 18970, 34670, 27162, 5164, 2221, 6538, 48632, 32159, 21769, 45760, 32571, 40694,
      48830, 2687, 8704, 13592, 36867, 2178, 48692, 20476, 17083, 37735, 31393, 48879, 35121, 21936,
      12825, 31534, 18952, 13404, 17526, 29597, 11891, 43769, 2976, 12672, 49122, 19417, 27418, 14843,
      42288, 5589, 48631, 47704, 6755, 6632, 10933, 12842, 22653, 16326, 32814, 21012, 11147, 30533,
      7106, 9173, 37722, 44838, 39950, 30711, 34245, 3101, 38146, 21901, 19146, 16009, 26795, 4807,
      48318, 34487, 32868, 124, 21075, 33445, 2704, 8759, 25531, 33926, 45331, 14535, 11391, 7962,
      25126, 47160, 1705, 9434, 49263, 46797, 30713, 47457, 5678, 17854, 13812, 33327, 7322, 6999,
      24844, 43907, 9212, 15693, 18026, 14127, 47101, 15413, 43787, 42599, 49006, 29359, 22405, 47023,
      22844, 18308, 10325, 37560, 49168, 21105, 24372, 25101, 40944, 25554, 35370, 42509, 36099, 27958,
      28240, 46759, 44202, 14251, 8485, 6120, 7459, 14003, 2485, 18290, 14833, 25306, 16683, 21783,
      9904, 47902, 42561, 31121, 4509, 39771, 22846, 45107, 3668, 10971, 24019, 33940, 13790, 6947,
      5985, 8865, 13960, 24653, 24439, 41587, 6517, 7930, 23995, 45739, 28994, 19866, 33965, 14525,
      45971, 8696, 13981, 48511, 7556, 752, 26130, 15818, 35789, 46209, 10572, 47718, 11740, 9926,
      48572, 28051, 9805, 48039, 7286, 612, 34074, 15856, 41791, 39320, 7098, 27888, 12850, 46511,
      41022, 5406, 49465, 23448, 20379, 20042, 16318, 49469, 17305, 3552, 10228, 33167, 48905, 14864,
      9818, 43175, 12806, 13355, 37979, 37717, 28606, 9542, 43692, 13333, 25578, 7662, 7138, 9406,
      1586, 46948, 3711, 10462, 19776, 14822, 32480, 49431, 4397, 38743, 5106, 22546, 7517, 5952,
      19668, 48042, 3884, 19078, 32648, 3658, 9813, 24922, 46611, 41802, 39793, 42282, 31363, 21117,
      24701, 21791, 9249, 30650, 28986, 30474, 13730, 44975, 28062, 27283, 2991, 36186, 44302, 32386,
      35792, 41564, 14465, 24421, 17977, 21853, 45092, 24943, 16303, 38855, 43726, 45674, 47095, 1947,
      15933, 46135, 10018, 48218, 23810, 32774, 47799, 2293, 13887, 24158, 35563, 35625, 17670, 48034,
      17410, 14247, 12860, 22475, 28719, 35301, 21098, 2535, 19501, 33589, 45796, 46186, 41127, 31281,
      35, 18114, 13133, 19564, 41370, 19865, 38830, 30475, 49149, 47208, 34255, 9614, 18717, 37068,
      3152, 26599, 13899, 33502, 36339, 349, 48316, 29387, 5731, 24895, 33147, 8063, 5461, 26554,
      2038, 4323, 31671, 43887, 23836, 35769, 45088, 7790, 39861, 19553, 41941, 46567, 5968, 43755,
      41438, 2870, 7748, 25487, 42173, 22416, 40013, 10605, 16141, 35957, 14262, 12756, 502, 24011,
      45359, 3505, 23083, 22744, 24774, 23342, 31319, 35726, 30304, 25732, 32557, 26368, 22235, 35550,
      28655, 22619, 31050, 11794, 33121, 10291, 37936, 46006, 15546, 18979, 44498, 45922, 42142, 46058,
      47563, 22622, 31799, 48112, 41259, 14004, 30998, 16597, 24110, 46313, 48000, 208, 30123, 6886,
      38982, 31078, 27303, 11276, 48199, 10330, 49713, 8232, 1747, 4147, 28518, 44807, 2703, 25445,
      16471, 27756, 9272, 35341, 5437, 6115, 27645, 43045, 45304, 14338, 47723, 34994, 1666, 36848,
      3993, 28733, 12772, 21077, 10117, 19654, 44154, 34666, 13499, 3888, 15543, 12129, 27447, 221,
      48658, 33054, 26095, 37592, 24007, 6586, 11983, 45132, 42793, 48418, 33811, 42015, 13090, 42508,
      12992, 17877, 26264, 30108, 38526, 46920, 22121, 32887, 6162, 12778, 4075, 27692, 14112, 26858,
      43255, 33684, 24302, 30170, 30738, 43032, 34256, 43351, 25886, 2250, 38378, 33786, 3139, 9789,
      42531, 32937, 7907, 41718, 1628, 9939, 42023, 20086, 45748, 3523, 23612, 611, 37582, 13122,
      8030, 8143, 14107, 39415, 35832, 22285, 41268, 1265, 8137, 11829, 23613, 28420, 38007, 2316,
      34115, 44182, 20780, 18059, 19351, 33133, 33555, 35152, 40869, 3329, 28339, 9593, 49214, 12332,
      14698, 26405, 3794, 13667, 33165, 46518, 26989, 23898, 35598, 12490, 16888, 47653, 5025, 16643,
      25916, 21896, 39988, 39444, 31251, 2815, 49147, 40315, 31657, 5800, 41905, 32870, 34230, 42208,
      43597, 45220, 38414, 31124, 27047, 29322, 24710, 45627, 4554, 24745, 38322, 23062, 45434, 40578,
      965, 22183, 12669, 40487, 43054, 42608, 49221, 30244, 36892, 43653, 4187, 26133, 39093, 25589,
      36121, 34774, 12008, 10415, 47144, 6488, 36979, 27432, 9151, 40539, 32770, 14464, 30732, 1592,
      14950, 40543, 13425, 33622, 25477, 10643, 6986, 30417, 37454, 21648, 48187, 12723, 32445, 41893,
      6290, 7518, 31436, 9355, 17559, 7391, 27978, 31872, 34418, 5880, 11557, 8351, 31697, 32483,
      5405, 38334, 24448, 24961, 5727, 25756, 42457, 9944, 9019, 34432, 4163, 40531, 23539, 5118,
      2170, 47355, 20335, 20578, 7071, 6035, 17943, 21426, 22682, 38223, 23632, 28025, 15685, 8941,
      29155, 16809, 26253, 40807, 4224, 45665, 31474, 36865, 12463, 34970, 44258, 7316, 11508, 12032,
      27553, 43117, 39781, 32552, 4388, 33118, 29791, 12131, 24479, 16349, 35821, 18484, 29614, 34369,
      35254, 421, 49966, 3595, 2694, 12238, 2905, 34491, 11502, 29051, 29576, 937, 18345, 39501,
      23152, 21079, 9030, 44097, 23774, 29643, 5578, 36785, 37301, 48211, 27634, 21668, 14375, 13184,
      32396, 2045, 43431, 37698, 23746, 12293, 38238, 19525, 49082, 5804, 17382, 8364, 45498, 24601,
      22055, 38537, 42658, 4501, 11883, 26658, 16684, 15740, 21943, 1946, 21482, 47777, 19279, 42937,
      31917, 34827, 40898, 27284, 34101, 42738, 4670, 29080, 12826, 37897, 37124, 27448, 34261, 38199,
      40244, 42450, 2424, 2131, 37115, 33721, 33047, 47607, 26513, 35184, 10711, 13808, 15212, 29564,
      7012, 38089, 42477, 26266, 39484, 14155, 43677, 14808, 26397, 31878, 40102, 503, 21483, 19579,
      17371, 7559, 47887, 7988, 39078, 45308, 13361, 27809, 15201, 32315, 36259, 8405, 47753, 48490,
      35881, 37584, 24641, 46764, 8300, 18949, 5338, 6386, 2099, 34944, 22519, 15272, 2706, 25175,
      11866, 40035, 27741, 24048, 43942, 10525, 49223, 34583, 5982, 13567, 46146, 37731, 45716, 40062,
      20970, 21036, 2082, 5708, 11842, 35226, 15425, 32104, 19124, 30299, 15616, 20371, 29200, 43248,
      19565, 15530, 546, 37358, 43325, 43269, 27455, 25952, 37439, 46375, 34644, 3844, 28959, 1020,
      23060, 8769, 27026, 23081, 10094, 41246, 11027, 15175, 48910, 43486, 3365, 26682, 14556, 7774,
      48027, 2455, 8390, 24409, 13764, 19208, 907, 13977, 14268, 49954, 40966, 36456, 27274, 28978,
      28384, 42463, 3080, 10298, 26679, 22314, 13622, 42120, 24721, 2609, 6145, 6214, 16328, 8540,
      26191, 45145, 39161, 41016, 40443, 10300, 31034, 15746, 26045, 8342, 6811, 40286, 31563, 11311,
      23516, 25065, 1654, 45431, 43259, 12700, 7985, 33482, 39251, 22170, 34001, 35088, 44289, 27496,
      3099, 48721, 20720, 9322, 13157, 34123, 47839, 36698, 31329, 36990, 38964, 3816, 25390, 12445,
      19153, 48385, 23601, 1790, 25492, 26922, 27150, 31596, 37073, 27544, 40144, 22236, 5468, 48735,
      44834, 14436, 21989, 37603, 23426, 19907, 46694, 547, 40755, 46323, 33970, 26146, 13874, 3468,
      32962, 13194, 35869, 44920, 38568, 29585, 4793, 32109, 315, 29325, 32904, 20006, 9115, 1915,
      45769, 450, 45426, 5760, 20244, 16847, 38439, 27936, 26450, 47934, 38912, 6362, 31678, 12811,
      19237, 36907, 44402, 19471, 34745, 37471, 41292, 10309, 1237, 19197, 26668, 33864, 40767, 10606,
      26603, 19320, 20263, 18567, 43690, 26676, 25526, 5196, 6547, 15014, 39306, 13891, 26881, 44322,
      8900, 33546, 556, 20380, 7508, 33812, 38456, 17259, 19468, 20377, 30532, 21808, 33888, 47559,
      45586, 37667, 7582, 44785, 47442, 30741, 22084, 40508, 8079, 27493, 5778, 31421, 18497, 41683,
      41418, 40032, 6440, 39329, 13512, 21388, 42822, 32742, 12099, 11365, 39441, 15533, 19749, 9629,
      11495, 43691, 33163, 43866, 20264, 7110, 46643, 5440, 33017, 47138, 25858, 10784, 24807, 49534,
      3345, 18564, 20883, 42794, 2769, 31163, 48567, 11227, 39785, 25750, 39555, 12011, 8360, 8629,
      40517, 18407, 13416, 39049, 39476, 14778, 46810, 38161, 2309, 46878, 11537, 42934, 8914, 46923,
      30645, 26584, 18928, 48236, 4182, 23826, 26163, 16551, 2193, 18195, 36239, 13115, 43981, 1059,
      43859, 31370, 49016, 36173, 3612, 40756, 27900, 1368, 40985, 42630, 22324, 37160, 7968, 12655,
      19144, 40420, 19887, 16631, 24271, 11428, 2367, 1940, 36452, 13427, 24928, 16834, 8679, 25527,
      1374, 21875, 46707, 38400, 11870, 12155, 47873, 4720, 1872, 2732, 28951, 45309, 46079, 13344,
      23043, 1063, 11282, 40834, 23234, 24275, 31119, 32524, 21756, 31450, 7552, 39118, 25258, 26981,
      31240, 42899, 42875, 6228, 4087, 23293, 15281, 45101, 48214, 36222, 29822, 35483, 29962, 27221,
      15772, 15879, 38859, 12738, 11685, 2428, 8935, 43650, 40810, 26394, 46922, 22045, 24585, 29720,
      41795, 41829, 11125, 47052, 41036, 48476, 42897, 761, 22717, 47927, 23627, 11833, 39595, 43170,
      31779, 41117, 44507, 15068, 47991, 9091, 4198, 4479, 38118, 33633, 37859, 48638, 45975, 17147,
      13987, 12603, 21645, 27708, 49383, 2005, 30895, 15316, 24998, 9563, 36107, 41429, 32998, 32773,
      17490, 38298, 41596, 32819, 4026, 12568, 47481, 12554, 6325, 21459, 720, 21894, 6393, 20708,
      29651, 16477, 39296, 29053, 23106, 12797, 5805, 5194, 28717, 17470, 22857, 39095, 22604, 26874,
      8583, 44252, 49458, 23163, 36091, 32160, 2332, 19070, 29183, 35035, 3423, 14284, 27593, 25748,
      33918, 45568, 18529, 15049, 15050, 1546, 4834, 40895, 33968, 9578, 29078, 33284, 44091, 37662,
      44205, 21144, 21733, 43305, 6878, 3608, 46636, 46612, 9874, 40358, 47646, 35855, 12567, 44269,
      44444, 14370, 29284, 11503, 15462, 21910, 43608, 48313, 8674, 45411, 26186, 37852, 26474, 44966,
      13257, 15451, 24318, 601, 29271, 2968, 8214, 42940, 28023, 35180, 7072, 2859, 20451, 1916,
      16793, 16257, 20596, 35990, 3827, 19734, 28654, 24520, 30200, 46276, 23523, 30253, 6508, 15569,
      7681, 23808, 16090, 31160, 44027, 23536, 29547, 34853, 30079, 2790, 19139, 6309, 28259, 34770,
      617, 39125, 24002, 15684, 16605, 19831, 19374, 31083, 25546, 44682, 47152, 40727, 40637, 21865,
      32707, 25225, 19836, 32180, 37053, 19505, 38087, 26363, 18206, 47822, 5474, 10096, 7888, 42839,
      2152, 21710, 30068, 20311, 45447, 45076, 15987, 32257, 38051, 46937, 33224, 43724, 5268, 27319,
      31677, 32654, 43997, 6741, 32603, 42443, 16640, 40497, 37553, 19637, 40357, 24698, 2721, 36058,
      26650, 3421, 49758, 22066, 5449, 32905, 27489, 27136, 12444, 44970, 36088, 2862, 30295, 1649,
      23910, 7502, 48509, 9530, 41963, 13531, 31604, 7318, 13225, 26906, 28257, 39824, 24773, 29524,
      27537, 14954, 8048, 36333, 10078, 36830, 31747, 32753, 327, 16615, 7332, 14052, 30184, 41132,
      17865, 28218, 1186, 25178, 31642, 15147, 16856, 47912, 10920, 48655, 5372, 8267, 8196, 8681,
      22050, 9300, 7228, 12060, 46041, 2209, 48835, 25106, 45632, 33379, 25324, 41032, 11030, 32341,
      5937, 6323, 46990, 17645, 36006, 7405, 2359, 9791, 40789, 16860, 10950, 46105, 11769, 43839,
      20432, 19639, 7536, 40730, 41934, 259, 10911, 34044, 14346, 11079, 29403, 29795, 45218, 47610,
      16769, 12269, 721, 22812, 3537, 3147, 38842, 36380, 34500, 27943, 27324, 37506, 41636, 16719,
      26068, 10122, 38311, 2701, 6681, 44492, 47749, 49616, 37715, 29343, 3361, 24934, 12624, 16931,
      45595, 48066, 31830, 16354, 14550, 8081, 22627, 31180, 33464, 37329, 35112, 15325, 40000, 21443,
      43536, 10811, 49606, 4588, 41925, 18286, 27931, 43746, 4941, 3671, 49880, 43666, 4221, 11765,
      39653, 34099, 31184, 34907, 32883, 4685, 28170, 45170, 6505, 33079, 44050, 47816, 47729, 14510,
      21161, 49523, 23009, 10932, 18403, 41558, 34281, 41702, 30414, 17699, 39527, 43074, 26288, 30377,
      41487, 18336, 18835, 14378, 23143, 8373, 4690, 30115, 43906, 19248, 38516, 13434, 45207, 45032,
      49055, 13688, 20997, 31453, 38473, 49047, 10640, 39943, 9971, 18734, 14185, 30060, 5512, 5156,
      41640, 49213, 40867, 5214, 25695, 39944, 33124, 48709, 47923, 4623, 18697, 20387, 10507, 26796,
      7404, 6625, 14819, 11194, 19400, 15148, 18837, 25310, 40536, 18234, 30592, 42145, 26404, 22406,
      35073, 18893, 16324, 46388, 26801, 4843, 6575, 23547, 41478, 3472, 29280, 46978, 28574, 32059,
      21467, 49660, 22352, 6634, 22509, 21169, 13211, 37640, 3967, 17619, 41915, 14517, 17799, 40675,
      28296, 22934, 27232, 31850, 473, 24130, 22176, 24750, 29807, 48804, 34374, 1580, 7676, 18720,
      45429, 28367, 91, 21990, 32100, 830, 42907, 38035, 32028, 34941, 11323, 10479, 38272, 14041,
      30470, 40245, 11544, 46150, 10275, 20675, 10701, 49253, 13725, 16578, 44833, 11022, 33378, 8838,
      33659, 22453, 47964, 15872, 2516, 19837, 32594, 25630, 25332, 5254, 22793, 46520, 46034, 10471,
      42987, 23511, 14512, 32070, 47786, 3302, 34290, 13465, 31916, 18131, 34425, 42159, 41810, 5848,
      23887, 5339, 13223, 12540, 39057, 30661, 36882, 2751, 40672, 29819, 14062, 25297, 36383, 28292,
      31561, 2122, 11522, 37316, 2986, 1349, 3553, 38710, 12922, 49138, 13460, 31777, 18927, 13903,
      9651, 44466, 33353, 44991, 36471, 31377, 47117, 47479, 3274, 15288, 41444, 37151, 20148, 25975,
      4814, 29027, 40781, 33331, 7157, 6503, 43531, 44189, 265, 4433, 45933, 21355, 16131, 37940,
      16805, 22413, 15640, 36797, 3301, 47521, 26351, 12998, 13722, 15197, 38852, 5202, 43654, 3233,
      39488, 44687, 48640, 24868, 10021, 47832, 4909, 36733, 49921, 5505, 39180, 29927, 1809, 13967,
      45140, 35876, 34545, 44870, 39546, 48082, 15836, 36949, 26046, 24374, 44946, 18411, 22635, 12911,
      24586, 12326, 24325, 40942, 30827, 36916, 5353, 7756, 40200, 35516, 18223, 25641, 8794, 15309,
      28882, 37890, 254, 592, 969, 46024, 21336, 41251, 25447, 21786, 33795, 14220, 28533, 49546,
      16086, 28776, 1355, 42490, 26412, 29333, 24593, 38186, 8216, 15266, 9142, 7353, 10341, 29834,
      45731, 18404, 18447, 31366, 39799, 6688, 22788, 33280, 33093, 42670, 5163, 43187, 30894, 40127,
      1493, 32601, 30764, 38421, 39924, 18220, 47575, 23229, 32845, 6356, 40147, 24529, 33856, 40033,
      12366, 10461, 42247, 43557, 44476, 9993, 461, 19089, 14987, 38790, 41585, 10867, 33860, 392,
      24707, 42935, 14947, 29664, 7304, 10102, 9730, 2734, 32704, 43933, 18930, 41285, 16909, 1028,
      27510, 43133, 32491, 10387, 16245, 47920, 31400, 18580, 14105, 9482, 39674, 1228, 49068, 23617,
      16517, 49958, 38128, 18820, 44737, 19040, 41494, 41054, 40559, 16592, 8588, 24341, 23135, 31946,
      18796, 1083, 47597, 10180, 23592, 12302, 6944, 42293, 36513, 41093, 23320, 32444, 6845, 2288,
      1595, 34138, 32860, 14979, 42012, 35287, 43751, 23642, 40726, 47579, 29785, 9033, 39727, 12462,
      15430, 19745, 34686, 25681, 9773, 34611, 7437, 33373, 16866, 14476, 7914, 8964, 25585, 14964,
      15091, 32035, 5391, 30968, 14637, 24225, 28660, 28741, 40588, 42816, 48359, 22158, 11959, 9657,
      40484, 17830, 11654, 18616, 13165, 39693, 7097, 35636, 26747, 47166, 49712, 28188, 37795, 26311,
      15973, 27748, 15874, 40884, 33408, 38123, 3207, 18703, 6353, 35994, 39648, 21543, 46225, 19720,
      19125, 27530, 31945, 10056, 28571, 27917, 46661, 15808, 18780, 7731, 10957, 7604, 18241, 36219,
      3399, 9912, 5834, 23148, 12111, 12973, 4607, 40394, 45821, 21948, 33781, 19598, 28061, 13038,
      8148, 49467, 11431, 43831, 36811, 12499, 17480, 43159, 13052, 6520, 45072, 3181, 39358, 2143,
      35603, 36367, 4281, 41306, 35374, 42014, 6227, 44723, 3894, 37079, 3616, 36111, 19925, 26717,
      1743, 49112, 12735, 15441, 48248, 25591, 4950, 25896, 47619, 49547, 2039, 18128, 13239, 10519,
      25746, 21629, 32585, 44878, 43266, 34630, 26373, 13530, 3501, 43648, 44365, 16272, 19526, 5217,
      12164, 6763, 37378, 48759, 27351, 6582, 49608, 224, 35602, 26937, 21521, 42329, 21065, 10641,
      16291, 49044, 21293, 11452, 46782, 25014, 46516, 24171, 168, 43857, 28306, 37393, 35330, 25775,
      30630, 4696, 38778, 11453, 42072, 19518, 25257, 18007, 35443, 22943, 47004, 15866, 36971, 34729,
      6091, 31975, 41838, 38126, 9575, 48893, 37135, 7344, 49331, 7636, 21819, 40044, 47480, 15745,
      37239, 23066, 45862, 25035, 10194, 31029, 26307, 1665, 33410, 4371, 29933, 33411, 13684, 37309,
      42607, 33156, 48109, 759, 48536, 43991, 17585, 33018, 4284, 34842, 34868, 33041, 22817, 19046,
      12675, 47439, 1978, 36136, 42397, 955, 11456, 18721, 227, 44004, 42595, 32943, 29014, 24361,
      4317, 18912, 2420, 43371, 29615, 27486, 12368, 48820, 34303, 4452, 33503, 31336, 39812, 1075,
      17188, 16099, 26879, 40146, 38540, 25973, 5312, 32457, 33658, 11051, 15432, 47406, 9028, 26161,
      40467, 836, 16037, 23138, 19757, 4734, 37750, 29230, 10212, 29885, 29460, 25195, 45068, 42062,
      19300, 49520, 27971, 31643, 17495, 33094, 48083, 34656, 21472, 24631, 10624, 42321, 38273, 17383,
      38329, 30191, 8638, 26996, 234, 32749, 43863, 3721, 38497, 49693, 1394, 4715, 27165, 46938,
      43550, 5120, 10555, 25094, 43977, 41764, 43237, 49500, 6602, 34817, 30919, 7445, 15778, 9309,
      27168, 23003, 41617, 34685, 635, 20428, 27119, 37017, 21437, 35716, 6495, 23891, 45611, 25246,
      48127, 25540, 39797, 529, 32197, 27485, 26971, 18317, 42018, 33954, 24838, 28771, 22355, 43821,
      48123, 28995, 26525, 43154, 40858, 44132, 42564, 10168, 47965, 11909, 29854, 29173, 24873, 21432,
      33300, 6918, 38188, 27419, 41350, 36254, 36625, 6785, 42954, 49238, 24679, 36505, 21338, 42227,
      9749, 28613, 18406, 42117, 828, 44536, 49356, 42894, 42146, 38726, 4542, 7153, 16586, 26207,
      5593, 6919, 44047, 18818, 11956, 28097, 23775, 23169, 18214, 6335, 21005, 44783, 6357, 22521,
      11006, 18934, 35266, 40649, 42342, 14331, 7716, 19750, 40391, 41009, 35234, 20233, 34843, 21485,
      34520, 24144, 48819, 19057, 38423, 46311, 26358, 34527, 40951, 23538, 48326, 12394, 48201, 23295,
      13351, 1119, 41076, 8164, 36793, 27141, 35445, 21821, 17001, 43276, 6157, 23175, 22849, 6685,
      2030, 34904, 34045, 45885, 13366, 29972, 9881, 43003, 23907, 32288, 2225, 32164, 22006, 34777,
      18422, 3590, 19147, 37336, 25262, 25261, 38281, 3328, 49242, 36857, 7299, 2324, 24740, 37851,
      42194, 47811, 4043, 24812, 46369, 27049, 9329, 16862, 34597, 5043, 44382, 32187, 19845, 25308,
      27194, 15161, 21572, 39122, 48599, 35015, 2047, 1495, 35441, 48370, 14450, 17329, 13813, 8839,
      970, 20642, 45708, 49440, 23950, 19765, 41725, 27592, 8773, 42960, 39724, 48627, 19941, 23167,
      9201, 7826, 35682, 8242, 43956, 21836, 4015, 7500, 20934, 4278, 27753, 18784, 16710, 22628,
      34284, 40699, 38548, 18277, 44779, 30021, 30743, 38922, 44624, 46629, 21129, 27558, 49540, 4313,
      20678, 32251, 5870, 23179, 33730, 36675, 41474, 40017, 4698, 11137, 21138, 44008, 275, 35465,
      40414, 22549, 15133, 26518, 13309, 27806, 36143, 12698, 32087, 11599, 45110, 42075, 22843, 22759,
      49045, 36264, 2661, 23076, 2748, 19449, 34252, 24213, 7669, 33951, 49297, 24292, 17390, 10232,
      33219, 9668, 11454, 12367, 34683, 42902, 21002, 16518, 28944, 11169, 3351, 435, 40939, 22661,
      36255, 17148, 30701, 11074, 2594, 3422, 11518, 47771, 41956, 8797, 37279, 16700, 38992, 146,
      43450, 26282, 10495, 22737, 11114, 44220, 13481, 25043, 30872, 33838, 49209, 27864, 47384, 5359,
      48351, 32513, 25147, 8614, 39485, 17386, 42958, 49322, 7799, 45456, 7824, 33032, 3868, 4649,
      48698, 27177, 9544, 2737, 3111, 11862, 35599, 48937, 7952, 5970, 14994, 34715, 17956, 30528,
      40795, 76, 6628, 47722, 35011, 14147, 10687, 35976, 31525, 3005, 10543, 9276, 2345, 6088,
      10269, 16271, 33119, 15803, 46277, 35320, 10658, 988, 15179, 36324, 45950, 18428, 41549, 6717,
      14816, 37716, 28653, 46815, 15084, 36097, 45727, 9005, 9727, 16060, 9226, 41446, 2270, 696,
      46676, 23753, 23087, 21931, 11896, 25789, 47896, 17835, 37798, 39814, 39977, 40640, 39312, 5516,
      46326, 33969, 9176, 34564, 32216, 15208, 9691, 21805, 6173, 16287, 9991, 2667, 33309, 36715,
      16565, 49169, 26464, 25196, 22482, 15391, 44318, 42381, 13742, 23226, 43603, 47719, 15428, 35890,
      22888, 45037, 17797, 13127, 41573, 6417, 46656, 20016, 7854, 4684, 46581, 24413, 21643, 29472,
      37041, 20007, 32665, 28928, 27014, 16564, 30765, 30737, 44286, 27682, 34005, 45079, 45289, 24289,
      44713, 44706, 13781, 16853, 36755, 43481, 18550, 48369, 1027, 33501, 39815, 44061, 23886, 36002,
      253, 15270, 1795, 36602, 40847, 333, 39965, 45560, 31073, 43864, 49675, 7092, 27143, 6174,
      37594, 39195, 21899, 12349, 49729, 38882, 22326, 7167, 29479, 36540, 37683, 1967, 20118, 16521,
      20523, 4447, 12443, 3860, 46183, 8115, 18210, 31635, 35672, 16624, 21486, 14433, 16300, 357,
      43614, 1297, 45938, 10804, 33571, 24097, 43770, 8827, 25935, 36249, 6153, 29891, 14413, 36419,
      48573, 9485, 14070, 37062, 34784, 17626, 49151, 38634, 42936, 42091, 44272, 27548, 26114, 46338,
      39552, 46344, 11285, 4059, 30591, 7739, 20203, 44137, 30792, 43102, 8806, 15502, 8958, 29,
      37258, 42639, 34337, 27064, 11554, 1825, 6032, 35695, 41193, 24459, 11860, 37691, 44874, 20729,
      13550, 44999, 19028, 11496, 1869, 33199, 33200, 32302, 1782, 24434, 17344, 984, 45136, 34343,
      29675, 45548, 24589, 23107, 17301, 16838, 9892, 4122, 7585, 17876, 47626, 10218, 35830, 32723,
      32643, 49894, 30039, 8158, 18773, 12579, 25800, 3554, 38711, 2981, 37799, 13783, 22074, 15362,
      45976, 38621, 13959, 17643, 30627, 3408, 7798, 13910, 38583, 7882, 22773, 15498, 49361, 11622,
      39521, 34161, 11117, 21578, 20441, 19807, 20575, 26042, 41206, 2906, 32234, 24727, 32978, 6844,
      48493, 34595, 2068, 37587, 27046, 31220, 17813, 30547, 25432, 32336, 34612, 10924, 13706, 32179,
      22428, 9755, 20020, 37060, 47928, 12592, 41865, 7150, 9450, 48821, 42491, 35987, 10773, 18462,
      1611, 40282, 34468, 15099, 30789, 18301, 1345, 13627, 21103, 44567, 45197, 43496, 31974, 49357,
      33846, 24715, 24766, 28262, 46943, 48882, 49554, 23224, 7807, 40561, 16306, 26082, 32541, 43245,
      18638, 42352, 42448, 30967, 9574, 29567, 34598, 41472, 154, 19513, 11610, 39971, 12094, 31064,
      30069, 6817, 48587, 34562, 34867, 20070, 8005, 47173, 4510, 36134, 43020, 26866, 1037, 34048,
      24193, 17752, 19760, 41011, 34599, 4153, 7408, 43149, 48848, 34874, 8400, 14301, 36965, 18989,
      6669, 10574, 2587, 38723, 3140, 12719, 15723, 11892, 9209, 25794, 4225, 16520, 11310, 33916,
      43479, 22728, 43342, 35466, 2021, 33417, 32816, 34403, 12259, 14542, 19289, 8835, 2702, 11315,
      17673, 49116, 24455, 18735, 5524, 22507, 12167, 43150, 1751, 35589, 28823, 34323, 38288, 37478,
      16333, 16802, 33288, 31904, 39347, 12626, 14640, 9832, 35125, 41120, 46689, 36054, 10684, 44704,
      22202, 39311, 48870, 7426, 12128, 38063, 40936, 19848, 1891, 2634, 28895, 18801, 6261, 5032,
      16273, 38048, 19494, 16639, 34903, 11750, 8348, 33963, 14015, 24649, 1943, 22972, 49999, 8803,
      46753, 11851, 16187, 48505, 39455, 31553, 43073, 11356, 35661, 11333, 16685, 8173, 24827, 17553,
      25194, 40492, 25926, 30326, 14358, 8834, 48495, 36628, 11491, 4275, 30308, 6761, 48508, 49308,
      33992, 14630, 44777, 15753, 10664, 26050, 30913, 39127, 39388, 35154, 40320, 10673, 35107, 24320,
      34198, 1713, 25676, 33423, 30503, 6950, 26197, 35216, 17092, 29420, 36826, 31001, 39150, 43299,
      49022, 1256, 19390, 25231, 28159, 4708, 1767, 12054, 47124, 22094, 40145, 43464, 27130, 27511,
      6122, 19653, 24293, 29313, 34423, 43569, 1036, 39490, 45423, 28729, 7089, 2550, 5365, 43575,
      27836, 40912, 49789, 22273, 11057, 17425, 33517, 15758, 35225, 31287, 20220, 22582, 44279, 38092,
      41907, 16092, 683, 33707, 7763, 1787, 49249, 23189, 33247, 46987, 34772, 18456, 48092, 28119,
      4100, 20572, 2782, 44928, 25084, 23193, 32967, 28298, 26865, 39158, 27466, 48174, 21855, 30938,
      4210, 5957, 7363, 19430, 24082, 26321, 47021, 21858, 22941, 24483, 20001, 5099, 28134, 14895,
      14, 38124, 17767, 32515, 3297, 35215, 31978, 28723, 1641, 31868, 45762, 43694, 29329, 27637,
      43524, 24088, 47945, 5184, 12863, 7381, 9822, 34225, 47598, 15736, 11253, 27589, 22023, 19106,
      25007, 29054, 24937, 7663, 44433, 19135, 25005, 11726, 25482, 1683, 6250, 46559, 10556, 28436,
      8316, 8643, 1606, 7923, 28093, 31766, 22851, 9670, 1405, 12193, 6287, 41751, 14949, 40784,
      13855, 5903, 7546, 12491, 26704, 35928, 47543, 29209, 17791, 23157, 31853, 39088, 16513, 9857,
      826, 48600, 41518, 3991, 11946, 23095, 26349, 44504, 24313, 6993, 43200, 170, 30617, 46798,
      9443, 5480, 47001, 23427, 41978, 42447, 32652, 41900, 49124, 3348, 29169, 26919, 49505, 2910,
      38530, 48690, 8144, 42848, 49515, 49185, 14891, 11701, 8376, 6714, 39745, 25076, 36605, 30037,
      29162, 602, 5998, 7477, 3, 23505, 18368, 18016, 38101, 25379, 18419, 47462, 15164, 39732,
      42930, 26094, 9757, 3393, 5176, 49060, 466, 32592, 24419, 28046, 47473, 30553, 13784, 15144,
      5301, 16813, 49553, 4338, 8523, 47805, 11766, 11820, 44823, 7198, 29010, 11955, 906, 8345,
      33908, 13868, 26703, 36658, 20857, 37537, 41495, 29904, 35410, 35637, 38718, 36350, 49640, 7590,
      19914, 11611, 25420, 43495, 32587, 22680, 24378, 38441, 17999, 12437, 27644, 11589, 31829, 25974,
      37530, 12409, 47353, 47391, 28622, 48256, 21687, 49902, 9762, 38775, 29142, 31691, 4692, 34175,
      36489, 34966, 948, 33406, 2014, 37224, 46855, 29474, 24227, 15565, 32841, 1249, 31951, 47458,
      30865, 4052, 34462, 2598, 39813, 46829, 27730, 32412, 13229, 7224, 32228, 41780, 20077, 38515,
      28031, 13720, 49888, 7208, 19077, 23721, 2349, 6880, 17701, 25583, 7583, 17468, 24205, 4610,
      41553, 22442, 42556, 11505, 31297, 28336, 33448, 13243, 25994, 35344, 49400, 30546, 18069, 38156,
      23050, 3784, 27760, 391, 23145, 40773, 2766, 40293, 13190, 13220, 34933, 8922, 46854, 35816,
      13551, 2909, 4904, 31219, 7428, 39695, 11608, 20521, 26493, 16915, 31103, 25979, 33671, 33008,
      11512, 33733, 27582, 9980, 6485, 32367, 20198, 29826, 22098, 45756, 17734, 16310, 35847, 39102,
      6121, 14578, 43273, 14601, 24821, 41664, 47342, 8676, 47998, 45485, 49651, 25978, 44845, 17421,
      48081, 46944, 35004, 23500, 18187, 30800, 21891, 23082, 37035, 25172, 1879, 2614, 49319, 2297,
      32861, 41962, 2151, 9863, 4558, 41684, 45294, 2206, 23726, 10001, 39663, 8309, 26592, 22827,
      27895, 43797, 46490, 47411, 22163, 3550, 46134, 5123, 18604, 16045, 34576, 35048, 42280, 29635,
      4881, 8847, 44758, 21773, 48130, 49632, 16706, 47625, 28545, 28423, 39612, 32278, 16990, 35519,
      34371, 9849, 26278, 31249, 4374, 14202, 46965, 13498, 36846, 46590, 13359, 42801, 29385, 20828,
      29843, 17957, 10034, 25707, 48810, 23941, 35420, 14770, 16757, 10690, 12086, 45934, 18162, 5817,
      48667, 11869, 23750, 31788, 13830, 18459, 7550, 41620, 33967, 48723, 22347, 29588, 45702, 9610,
      3533, 3837, 24603, 32351, 33164, 32260, 27186, 3613, 115, 45274, 36702, 7795, 42981, 31270,
      19524, 9315, 4031, 42064, 54, 13441, 35937, 49707, 21983, 17938, 30662, 24763, 45135, 47531,
      10188, 37646, 37700, 41192, 16472, 16585, 14931, 25254, 44204, 11940, 3070, 4862, 21589, 17467,
      28603, 40061, 24233, 9161, 26618, 21708, 45200, 33961, 25352, 3185, 33777, 7172, 43243, 38410,
      44979, 33488, 8874, 11004, 2912, 42580, 20781, 14152, 31523, 35277, 2197, 46113, 48220, 11248,
      26456, 1797, 10366, 18974, 19368, 39258, 30567, 25123, 11290, 14118, 23552, 34338, 19812, 945,
      30246, 8972, 14602, 34992, 10937, 47972, 23839, 3352, 31502, 9872, 45791, 17941, 38501, 14055,
      9202, 11566, 2698, 37995, 14395, 36276, 13820, 13845, 35512, 5293, 22101, 37826, 38904, 7734,
      10851, 44046, 11924, 34696, 34508, 26295, 32575, 3963, 30947, 48860, 44095, 7125, 39206, 11305,
      49008, 13829, 17882, 29470, 15688, 24490, 13770, 7691, 38981, 11073, 42228, 24041, 10935, 23098,
      15172, 7053, 10923, 46073, 41655, 47209, 15756, 37182, 41824, 12840, 25524, 45299, 43579, 35203,
      30536, 24356, 38694, 1340, 23997, 14560, 44592, 15794, 43598, 15955, 16340, 22688, 25139, 23586,
      15669, 40753, 13537, 25802, 17760, 13044, 5290, 29234, 26449, 35000, 12976, 46623, 13341, 20592,
      12731, 35978, 22885, 20734, 43402, 12614, 48279, 32714, 24925, 49471, 17739, 5072, 30946, 25365,
      688, 5761, 25152, 47145, 19913, 33735, 26227, 14705, 40116, 42403, 38277, 17981, 42100, 40206,
      30584, 45625, 10958, 26944, 2026, 17911, 41046, 22143, 28265, 10191, 27279, 33609, 18878, 8616,
      8580, 8299, 15843, 43083, 49757, 8890, 30821, 12436, 40668, 25597, 46400, 10806, 1861, 14102,
      37524, 21185, 47589, 19779, 45507, 3450, 37932, 37402, 2930, 32392, 23672, 40138, 24404, 24020,
      12381, 34505, 4464, 31442, 48355, 14911, 3739, 41035, 25144, 25700, 48282, 29771, 13030, 13103,
      42277, 9717, 22562, 39459, 18731, 3624, 10902, 166, 27411, 33206, 9585, 19677, 2226, 2534,
      6369, 3336, 8298, 26479, 16938, 14368, 37272, 5663, 22252, 9099, 45575, 38793, 32042, 36385,
      41985, 11809, 40011, 28507, 28019, 8778, 1955, 28096, 44599, 29101, 48231, 47668, 2727, 6913,
      17253, 48924, 45430, 20948, 31764, 48084, 3182, 18535, 16093, 2412, 20941, 10199, 19722, 27850,
      14212, 27001, 43758, 3173, 25100, 26648, 3807, 20791, 11041, 34780, 40680, 15833, 15012, 25191,
      33911, 43265, 49983, 35252, 27170, 24149, 40374, 22118, 16400, 5022, 27891, 8863, 606, 14870,
      37170, 20658, 32451, 11080, 45470, 24231, 8743, 38963, 856, 1926, 14581, 31944, 26000, 8785,
      19152, 27817, 23188, 38107, 9402, 17017, 30906, 44, 2812, 45175, 43263, 23566, 40433, 30371,
      11861, 40826, 14628, 20484, 39284, 4604, 5816, 19729, 42988, 13170, 15492, 36154, 39818, 6435,
      47105, 47795, 19742, 31641, 31468, 24776, 14405, 44117, 38576, 2051, 1025, 30118, 3073, 9467,
      19481, 31990, 39970, 6881, 41825, 7884, 43242, 535, 49972, 18648, 17616, 10053, 8823, 3796,
      10244, 3926, 34294, 5597, 1573, 12339, 7343, 24195, 14142, 38466, 17899, 32851, 28542, 14570,
      49816, 28167, 10296, 42322, 27176, 13805, 27635, 46705, 22450, 9257, 11047, 36959, 40003, 16760,
      8819, 49492, 31882, 33468, 37742, 42529, 17151, 13948, 5050, 40326, 37733, 9216, 21460, 49628,
      12402, 44721, 22659, 44564, 31775, 4954, 43882, 26748, 49524, 46478, 13193, 39869, 33319, 27906,
      21108, 45108, 19507, 36578, 28650, 44309, 39013, 1739, 49778, 30507, 43487, 8203, 22088, 10256,
      22457, 16611, 23151, 36001, 32859, 37347, 26440, 32078, 3429, 5248, 44877, 46970, 42432, 5884,
      45109, 25305, 16697, 13978, 30231, 25793, 19210, 9800, 42804, 33842, 7513, 42656, 32377, 23391,
      3059, 17475, 49590, 44458, 6711, 3433, 4044, 40334, 13572, 42537, 26154, 18926, 12291, 34703,
      31674, 2897, 33549, 14225, 7784, 41000, 8917, 12810, 13599, 23160, 23304, 33764, 39106, 27429,
      28849, 974, 14905, 22210, 15455, 42472, 31970, 36798, 620, 31762, 3597, 9952, 21321, 38944,
      5418, 45174, 33592, 38028, 31546, 24983, 39958, 48524, 16022, 47195, 43488, 22617, 2028, 12544,
      45483, 232, 43570, 41220, 31595, 23735, 3763, 11007, 47895, 17477, 40557, 7280, 15416, 30576,
      45184, 48391, 21912, 15446, 2512, 4852, 5996, 20467, 40986, 33983, 15571, 23640, 48648, 24887,
      35675, 33052, 31049, 24630, 45361, 15139, 36198, 11655, 6706, 4570, 35818, 40685, 13677, 7197,
      17918, 29067, 47385, 47752, 18416, 12406, 9639, 7453, 35926, 27435, 102, 17282, 28765, 13885,
      1722, 17178, 31002, 18360, 35537, 35952, 41703, 28957, 45303, 48840, 25646, 20009, 40790, 24116,
      8581, 45823, 43380, 9700, 32066, 21694, 38117, 39479, 10272, 16004, 1210, 28909, 13707, 33250,
      1443, 19988, 38664, 920, 805, 48409, 12159, 34532, 37451, 13483, 40384, 40470, 46573, 28297,
      24475, 23922, 42276, 31672, 49617, 18629, 21857, 1153, 21944, 31590, 1084, 19889, 35597, 3097,
      23785, 44775, 25120, 44226, 16219, 45276, 4489, 32702, 40371, 4476, 49135, 3072, 43940, 7527,
      18944, 44616, 29662, 1880, 35364, 12729, 34811, 32339, 2998, 10899, 8714, 16058, 49274, 18426,
      20110, 13447, 4966, 47032, 42068, 12636, 40851, 11058, 6945, 19686, 32204, 4465, 40913, 5905,
      3974, 47604, 34792, 4385, 25904, 37288, 44818, 20591, 25894, 1775, 34378, 40993, 47074, 21892,
      11375, 23170, 46539, 3877, 5493, 19121, 10193, 22232, 28293, 8503, 40997, 57, 49484, 12319,
      19009, 36611, 26110, 29934, 37348, 35956, 17744, 36637, 13884, 43592, 11615, 40235, 38053, 41686,
      33162, 9913, 15448, 13357, 42594, 22240, 40687, 19955, 16073, 38946, 39018, 3649, 17268, 10270,
      23652, 44281, 35729, 16926, 9014, 12610, 26339, 4226, 1862, 4836, 1272, 3906, 34093, 2562,
      2838, 735, 37144, 22953, 17885, 23133, 9713, 11604, 32170, 9608, 36248, 84, 5013, 43908,
      20158, 45961, 11646, 8607, 31020, 32958, 48015, 2736, 49159, 44637, 10128, 36720, 13343, 39856,
      149, 23667, 9380, 38779, 24903, 13860, 553, 36647, 28267, 30867, 35128, 40839, 48238, 48408,
      44689, 21717, 30597, 47312, 35217, 40018, 37680, 20694, 15787, 356, 4587, 36841, 44396, 32659,
      43454, 47433, 44962, 44603, 47358, 9688, 18651, 2267, 34141, 18499, 20161, 3879, 26933, 39938,
      1745, 32680, 23451, 41519, 6964, 19851, 49219, 41083, 40899, 48426, 4973, 26828, 33750, 43533,
      20645, 27365, 47913, 4549, 47186, 48701, 35093, 7977, 12770, 30942, 39742, 8207, 37411, 44385,
      18802, 40230, 2488, 11603, 22196, 22120, 17489, 28573, 35142, 5064, 19088, 45459, 36200, 19817,
      29021, 45598, 42162, 48004, 218, 32982, 14902, 1314, 37390, 24984, 2655, 49059, 49987, 20508,
      12862, 33364, 22487, 4451, 35043, 46461, 5412, 40707, 48590, 31818, 17763, 5180, 46741, 23430,
      25110, 35384, 36246, 37540, 38209, 40368, 28323, 44697, 42449, 4099, 25649, 44478, 7131, 20032,
      21318, 6609, 27823, 7728, 7004, 4767, 25852, 5945, 5587, 46743, 18823, 675, 38611, 36123,
      5019, 43415, 24136, 21367, 48729, 34399, 23134, 39957, 46324, 34570, 38389, 4334, 42702, 21933,
      28370, 34013, 15396, 26908, 15904, 9453, 30267, 29763, 8673, 25436, 8460, 27664, 17677, 668,
      13939, 39340, 30343, 15227, 40046, 46792, 10130, 26320, 25427, 24284, 812, 24040, 32044, 17843,
      37077, 26953, 29936, 14681, 2101, 45522, 27709, 11403, 9421, 44549, 23237, 48616, 32706, 41312,
      9439, 5737, 24836, 32621, 40503, 11579, 6251, 4069, 5635, 19795, 11888, 7983, 44821, 3369,
      42473, 8649, 29676, 37627, 41969, 35501, 11724, 32090, 5320, 8441, 22226, 45166, 24387, 44761,
      17783, 11880, 11366, 11649, 49658, 26701, 23756, 28857, 41541, 42947, 3008, 30317, 5866, 48200,
      30155, 24314, 41676, 31517, 46206, 38573, 28973, 49533, 33460, 24467, 17074, 39632, 36564, 39192,
      6864, 42645, 36433, 49018, 46462, 20004, 8678, 44273, 32229, 19264, 10227, 40792, 42195, 15301,
      45977, 41186, 23971, 35212, 24117, 12707, 19578, 22251, 35666, 15925, 42220, 33388, 22945, 18328,
      36225, 16623, 2002, 8937, 46048, 28256, 44010, 21557, 47850, 15573, 38655, 8843, 48768, 24655,
      36216, 14636, 14097, 15860, 16203, 31754, 14426, 22421, 13848, 13711, 13502, 14347, 21771, 47051,
      17085, 41079, 48314, 6405, 10133, 35044, 22345, 14992, 9500, 27795, 15716, 46424, 32195, 29937,
      22017, 28945, 13191, 46608, 21084, 34199, 8056, 31712, 35487, 34879, 16641, 49996, 32617, 16464,
      46294, 49333, 335, 17399, 31475, 41739, 5768, 40457, 9567, 15642, 29324, 14790, 38613, 43131,
      38771, 22991, 31962, 21807, 45571, 4245, 12102, 15279, 28281, 14466, 1224, 5143, 7709, 638,
      36853, 21088, 12633, 10318, 43559, 31733, 7733, 23699, 27263, 37762, 26221, 24075, 5130, 26509,
      19974, 35407, 45581, 33990, 28954, 20368, 7447, 37787, 36604, 3381, 29603, 28239, 46512, 28210,
      23306, 16547, 37721, 6104, 10659, 19906, 40613, 27922, 31082, 12679, 29627, 46091, 6799, 32554,
      2480, 27863, 10830, 32508, 38615, 10515, 37230, 40619, 13982, 8973, 13838, 1639, 11374, 10083,
      29129, 35696, 29828, 11614, 13228, 14081, 38883, 35752, 12849, 22316, 7509, 38484, 41097, 35097,
      43587, 33995, 33157, 45057, 19661, 2465, 16777, 31768, 44213, 44495, 13613, 45211, 38364, 34040,
      28755, 49619, 20550, 8808, 45418, 5566, 22381, 7608, 31494, 20888, 24946, 1437, 43274, 42353,
      19754, 18081, 42253, 40705, 531, 10768, 45001, 40306, 32730, 22231, 33608, 44802, 34717, 38024,
      9812, 11054, 38154, 41992, 30120, 16263, 7034, 5802, 33775, 36010, 20741, 29556, 49195, 3217,
      16949, 175, 44646, 45848, 42396, 31108, 19314, 38995, 41613, 744, 40688, 48485, 44005, 41238,
      22801, 7703, 20271, 35940, 36314, 2570, 46250, 11845, 2519, 37221, 5058, 43793, 23032, 1957,
      47903, 44634, 24104, 12023, 7095, 15426, 15674, 38486, 26799, 1574, 32997, 9541, 29477, 42246,
      21455, 22511, 3223, 37002, 8457, 21313, 33843, 15512, 1927, 36326, 23334, 24584, 4488, 11088,
      31526, 26165, 44344, 8058, 10483, 1842, 38320, 5690, 30824, 38280, 1601, 18511, 29859, 24659,
      24179, 32518, 37942, 24337, 48304, 44613, 25090, 22720, 3244, 22327, 42708, 29944, 18283, 43851,
      49137, 33427, 26056, 3962, 21741, 849, 11818, 29981, 10022, 33987, 38355, 16516, 14144, 24418,
      1304, 3019, 36426, 14546, 29788, 1233, 11992, 36660, 43961, 32754, 24112, 33930, 31576, 49629,
      45391, 424, 31841, 16879, 13083, 28095, 30612, 4118, 27648, 809, 24274, 28517, 48401, 38772,
      15067, 45989, 19725, 11252, 33573, 38717, 40168, 1208, 11203, 23867, 41857, 42241, 41351, 49826,
      46790, 46910, 25977, 17098, 24332, 49752, 39326, 14244, 29542, 37672, 35327, 1929, 33401, 36812,
      14392, 43913, 22729, 49190, 41926, 11780, 25946, 49430, 27051, 18992, 24401, 5701, 25564, 2216,
      25073, 11320, 31060, 22966, 31267, 41822, 16314, 4568, 28844, 40651, 41173, 18359, 6599, 1847,
      881, 15615, 6063, 2188, 40367, 21481, 35760, 48764, 17330, 2781, 38229, 35306, 42525, 45367,
      18561, 2560, 16216, 44702, 28394, 9551, 530, 27265, 42831, 5612, 23022, 40021, 49955, 18146,
      44099, 9978, 18390, 47383, 12432, 11363, 39568, 2401, 44668, 20064, 9635, 30298, 10549, 18764,
      7256, 17124, 46742, 30777, 5928, 1833, 4753, 11482, 13691, 29646, 27547, 4872, 49569, 46696,
      1472, 40700, 19617, 36472, 11746, 41588, 6692, 19943, 36739, 46069, 25247, 43103, 47538, 47682,
      8662, 18840, 5314, 25347, 11657, 43760, 10459, 44007, 5560, 25773, 31794, 18420, 12769, 8069,
      5819, 13188, 37241, 12331, 11446, 5136, 8746, 41535, 9147, 21568, 1440, 28110, 13714, 9696,
      29068, 1206, 40878, 12473, 45323, 45626, 38016, 16127, 31232, 47780, 16648, 11932, 9600, 48159,
      12827, 27347, 12333, 27245, 43272, 13479, 43620, 27925, 44109, 27910, 23103, 14724, 33390, 12271,
      10197, 15807, 35765, 39854, 41747, 49543, 31067, 14187, 16070, 49560, 32485, 16469, 40007, 31272,
      34097, 14910, 24689, 16795, 45247, 4240, 5090, 25197, 30718, 6466, 40558, 8936, 39425, 31204,
      29457, 47881, 1315, 12718, 19672, 9223, 38266, 10352, 8074, 42975, 34122, 15598, 41493, 36361,
      43275, 37269, 28599, 41283, 23368, 13578, 14909, 1046, 17968, 23435, 26001, 39766, 15964, 32357,
      14941, 41007, 3138, 41239, 41852, 38451, 28496, 22110, 20286, 1772, 29772, 33674, 14590, 23420,
      35265, 36522, 1287, 3948, 29852, 2621, 13291, 24627, 24536, 14814, 42749, 28428, 22984, 23682,
      41629, 36583, 29914, 12017, 38303, 48258, 17544, 2238, 34181, 49592, 28609, 1205, 4664, 48841,
      39073, 24497, 40496, 46264, 31396, 27147, 45233, 25914, 47141, 37006, 33731, 29422, 34066, 42807,
      45889, 17246, 25131, 24101, 15737, 37359, 40501, 40679, 12964, 20854, 9999, 31581, 36277, 3825,
      4958, 29993, 2777, 24719, 39401, 48814, 9144, 46221, 36070, 14582, 8896, 46253, 10011, 43707,
      7683, 21500, 33131, 15070, 41101, 45602, 41105, 30854, 3054, 11686, 6917, 40712, 885, 22713,
      6288, 18599, 6409, 14007, 35562, 5274, 14529, 24403, 35721, 32517, 29020, 35377, 35008, 48292,
      5758, 12847, 19948, 24147, 12965, 45048, 749, 21965, 2355, 3437, 12344, 23631, 20407, 39647,
      12059, 49032, 8912, 17991, 47354, 3976, 12620, 42285, 12517, 6210, 13616, 32809, 16881, 23459,
      9347, 43009, 10667, 24634, 39517, 6027, 3699, 35566, 8652, 19997, 1329, 34860, 14034, 45059,
      18543, 21553, 42002, 39292, 5125, 1571, 35662, 39184, 15698, 29143, 27655, 19549, 41638, 39048,
      29503, 28544, 40982, 24038, 18458, 28325, 39955, 37639, 49558, 24718, 35188, 48494, 34143, 41882,
      30384, 34015, 20809, 46693, 11850, 8449, 14624, 34819, 15542, 2202, 3477, 37186, 24671, 8265,
      27546, 15628, 25843, 36862, 12049, 201, 21044, 40323, 695, 13776, 43792, 1428, 16868, 47072,
      8551, 3733, 41298, 32166, 28250, 41290, 14213, 13002, 36156, 29839, 31344, 10719, 17691, 15264,
      35355, 36810, 6019, 9891, 44590, 18417, 39623, 2450, 37757, 1504, 3768, 39533, 28788, 6990,
      43476, 41226, 21218, 11804, 22119, 32340, 36886, 32717, 32992, 18757, 11758, 4129, 17872, 11021,
      43774, 3527, 36568, 766, 31735, 17187, 49848, 37472, 31136, 24910, 15213, 37802, 38246, 6294,
      10870, 44556, 48853, 23589, 325, 29879, 14687, 23191, 7595, 3689, 33292, 33554, 17445, 36189,
      28864, 34619, 33823, 37990, 11186, 41, 5831, 22214, 24678, 10158, 44124, 5108, 19597, 41260,
      43584, 6595, 42968, 26274, 8229, 20249, 34676, 27830, 19307, 11612, 45313, 41930, 29144, 19343,
      45853, 23688, 25317, 46670, 27581, 44377, 21320, 40568, 9760, 30318, 26576, 11233, 23230, 49973,
      18929, 19112, 42835, 14328, 16485, 37600, 11995, 47537, 22768, 16913, 36459, 8414, 10019, 49170,
      19209, 14371, 40871, 37456, 11675, 22296, 49428, 18327, 10573, 2720, 31045, 10162, 5955, 12912,
      18563, 11728, 35958, 31731, 16189, 43995, 31780, 43398, 43530, 19612, 27855, 33588, 32639, 24623,
      44625, 31052, 36831, 37514, 31682, 6084, 15763, 35965, 11716, 39629, 6952, 47322, 17251, 18831,
      43658, 34893, 9690, 29358, 27246, 37917, 20804, 19117, 44533, 2844, 47566, 13043, 36139, 36475,
      48973, 44545, 35949, 49667, 34454, 11540, 11520, 48185, 24392, 42031, 19903, 829, 28564, 7808,
      20925, 18364, 21037, 185, 21280, 49905, 5546, 19562, 26076, 23390, 24737, 21561, 22676, 24008,
      28598, 22755, 4574, 43316, 14491, 48933, 14533, 39712, 3960, 33049, 29621, 31019, 35717, 35372,
      20962, 24083, 20905, 11621, 37725, 49926, 13141, 28429, 12189, 10392, 37142, 12056, 26686, 44114,
      393, 22148, 42095, 47293, 49879, 38554, 27182, 867, 24834, 11144, 433, 44119, 47667, 27866,
      16737, 14689, 8365, 40956, 604, 14048, 43721, 2774, 37949, 5029, 37020, 42868, 31397, 25706,
      9680, 21337, 47929, 3571, 8452, 24638, 23054, 19918, 18208, 47899, 9989, 36233, 40085, 43599,
      32303, 18500, 17423, 28526, 46588, 30163, 38434, 6185, 29154, 18041, 47826, 21715, 25831, 36662,
      3859, 15412, 3958, 20319, 10282, 24866, 30147, 39242, 540, 33773, 1749, 25165, 36194, 45672,
      7483, 44574, 26135, 10841, 42444, 6664, 13134, 48539, 10301, 37302, 38581, 17171, 41272, 2313,
      22307, 32558, 16265, 975, 23359, 30752, 14900, 12953, 44184, 22410, 5119, 7818, 18140, 40311,
      18008, 34738, 15346, 4948, 41068, 2632, 360, 30539, 29916, 36915, 19228, 20126, 49573, 8550,
      15793, 31305, 20415, 38349, 17525, 41983, 42378, 39561, 7039, 17111, 9373, 33679, 47803, 3896,
      28028, 5909, 15626, 20381, 123, 17789, 41736, 44862, 16770, 31441, 27008, 21094, 43164, 14460,
      10494, 11855, 46254, 6096, 1768, 32344, 10219, 37929, 38284, 47069, 1452, 48294, 43571, 27871,
      21283, 9942, 40650, 9092, 45832, 48163, 11961, 2806, 2681, 12927, 23358, 48832, 34342, 27102,
      39849, 3314, 23717, 35966, 16945, 12882, 10563, 20978, 8396, 49756, 28588, 40459, 20497, 23084,
      46582, 26447, 9292, 15773, 135, 6077, 24222, 12652, 28789, 11996, 5856, 24336, 2944, 29837,
      22446, 27944, 35753, 5465, 32119, 10224, 27470, 22696, 15941, 46448, 37254, 35028, 12433, 26622,
      3237, 26635, 23492, 48515, 44947, 31031, 34981, 17711, 36546, 47962, 13712, 14574, 16747, 49942,
      18913, 15105, 24522, 23565, 23033, 14410, 26847, 44490, 40831, 17461, 31309, 46077, 12018, 32169,
      22241, 12685, 6061, 11399, 21344, 49404, 11423, 31666, 45944, 18534, 49862, 35687, 28521, 45679,
      33494, 37673, 11486, 5887, 17917, 1517, 10297, 11971, 14538, 7177, 2380, 1236, 35394, 33429,
      34475, 28105, 35653, 45923, 8796, 28725, 571, 5404, 7765, 48087, 9133, 47073, 23362, 13217,
      25461, 23973, 38455, 24453, 41165, 42495, 36779, 31582, 22977, 49509, 31934, 3724, 26134, 25,
      41957, 42750, 22828, 21734, 18382, 24218, 1365, 23807, 16582, 47932, 3204, 41500, 32863, 41815,
      4442, 14094, 45013, 35444, 34762, 29465, 32144, 15237, 13346, 19350, 14391, 2065, 43302, 13678,
      25489, 1858, 5061, 49779, 18243, 16893, 21331, 26461, 4975, 17875, 7639, 17415, 13437, 35930,
      49161, 29224, 32655, 2792, 44474, 10897, 5207, 35045, 11299, 29030, 19081, 12726, 26093, 23375,
      4651, 14047, 25908, 37843, 15131, 16579, 29126, 6624, 42731, 30214, 34809, 15817, 7712, 37928,
      34360, 1017, 855, 41300, 15963, 42577, 9412, 5719, 17286, 33938, 6501, 8192, 8633, 15104,
      16897, 23743, 40332, 17986, 15759, 37512, 47038, 48088, 26887, 37075, 29346, 19885, 26930, 22036,
      8443, 23282, 19299, 43076, 33308, 10614, 21930, 3718, 5888, 42893, 33019, 44227, 48489, 10114,
      4412, 45298, 24848, 42221, 24886, 41224, 30703, 44656, 34646, 35899, 11184, 8455, 25701, 49944,
      15584, 18022, 17481, 28867, 13018, 40438, 37319, 39566, 26436, 2794, 22537, 29471, 28355, 38604,
      29737, 44208, 21184, 7719, 18867, 22481, 43674, 12897, 29120, 41386, 34993, 47197, 3821, 17448,
      21152, 12822, 33317, 7088, 29210, 9239, 41712, 32224, 49236, 40362, 12667, 40053, 49447, 31924,
      27762, 36312, 37435, 39671, 31109, 35014, 4309, 37489, 19290, 38139, 27551, 25677, 2646, 12202,
      32079, 20835, 26979, 37963, 24591, 34100, 6421, 25499, 20990, 14103, 40451, 4661, 13513, 31446,
      30153, 12578, 19674, 15604, 21157, 42106, 23136, 41770, 38545, 18791, 20098, 31172, 47229, 41217,
      12359, 3846, 22679, 13540, 35118, 9631, 16712, 20555, 37473, 26080, 15299, 19402, 41317, 47161,
      25269, 27668, 37669, 32731, 3261, 12526, 29848, 34794, 37127, 40842, 32803, 37093, 47696, 40493,
      3867, 28377, 27261, 20543, 6023, 47196, 40554, 32763, 15040, 11091, 40717, 48580, 43947, 13472,
      24804, 1602, 15062, 19717, 44060, 45822, 36297, 7591, 29659, 7506, 21262, 19319, 48423, 24203,
      40192, 37483, 32802, 22987, 9213, 31079, 31229, 29534, 42515, 22638, 8727, 15749, 14932, 1535,
      49075, 21524, 27715, 39066, 6307, 13803, 14028, 26297, 3652, 18813, 22724, 48006, 48556, 3647,
      34873, 39940, 3215, 16622, 6255, 47954, 10815, 42021, 9526, 26098, 48996, 21147, 32511, 5714,
      26420, 49000, 28003, 7313, 29341, 48807, 45461, 45559, 28237, 16525, 31056, 27288, 47865, 4053,
      45282, 48181, 43522, 20957, 25181, 43641, 47187, 5101, 28604, 46304, 44415, 13901, 16903, 30086,
      5924, 41023, 8430, 245, 29911, 5483, 5324, 37527, 2364, 4307, 47339, 42722, 8800, 11731,
      29590, 31742, 37090, 39331, 27982, 13145, 30035, 18797, 13811, 37012, 5277, 24549, 707, 16047,
      27681, 23585, 14527, 39776, 1578, 28672, 27235, 20181, 2524, 59, 11067, 1419, 10597, 16151,
      7260, 36645, 10769, 16321, 42218, 21903, 925, 1362, 29023, 40891, 46117, 43139, 19980, 16717,
      39010, 42419, 20147, 27234, 44766, 33003, 19270, 26843, 28505, 18254, 46295, 3575, 17550, 22920,
      28163, 22275, 25844, 33153, 48384, 30457, 2144, 2167, 17803, 49457, 32989, 34034, 45125, 15058,
      15354, 43616, 45005, 27929, 39681, 21200, 16327, 30422, 46382, 44910, 20498, 2205, 32110, 43199,
      31298, 49091, 25323, 30434, 16017, 29705, 10076, 43784, 45069, 45345, 22805, 11943, 13520, 12766,
      25947, 48057, 33208, 16973, 28516, 44473, 23044, 17589, 29042, 6677, 1479, 12328, 31338, 561,
      32268, 1522, 39805, 26346, 33630, 6446, 30138, 44886, 4290, 26340, 14351, 28524, 32189, 45364,
      22660, 28015, 12550, 22579, 19311, 33587, 26446, 23223, 34569, 4591, 13761, 43830, 14530, 49597,
      24926, 16970, 40416, 6621, 915, 972, 19427, 37324, 30969, 118, 10548, 12801, 22881, 20656,
      976, 49602, 6728, 39983, 17753, 2423, 4407, 1689, 3411, 3133, 1187, 16944, 39252, 26127,
      19083, 1144, 19803, 13635, 36202, 16383, 25137, 47492, 48710, 47772, 12587, 36031, 41156, 23655,
      49971, 46251, 37914, 39146, 39210, 22797, 46085, 4723, 15063, 9231, 26709, 41835, 39596, 47973,
      11526, 28553, 29152, 15692, 48328, 9361, 15855, 25402, 11200, 15218, 3717, 31811, 17528, 46110,
      33084, 21014, 20751, 1158, 26824, 20778, 33603, 39183, 43291, 39772, 13853, 9494, 32739, 48728,
      6331, 29004, 8456, 24122, 26488, 10948, 20266, 47446, 3920, 33246, 15820, 29525, 1867, 3872,
      46991, 11298, 21191, 15383, 30312, 3680, 31137, 15730, 47000, 32701, 20556, 11651, 23987, 8506,
      17424, 42122, 44518, 36799, 18936, 15405, 29400, 26605, 49837, 5318, 27966, 46054, 34967, 16013,
      2660, 32570, 36570, 4205, 41372, 25452, 44183, 19439, 27469, 33068, 21414, 35214, 15844, 12565,
      44686, 24794, 38509, 16509, 30983, 3728, 47286, 2966, 12132, 39526, 14809, 32928, 40089, 30333,
      14975, 14661, 24515, 32054, 29114, 743, 42714, 16439, 33105, 11400, 16434, 13031, 807, 39767,
      30702, 22290, 11702, 39802, 6516, 33409, 15495, 7290, 11307, 16515, 8041, 21780, 13071, 5868,
      32949, 25776, 45311, 7021, 20325, 20753, 15478, 95, 6279, 9796, 37351, 12934, 29478, 33920,
      7617, 44125, 49454, 16756, 21663, 16161, 1268, 34345, 5725, 17346, 36286, 3094, 42892, 12952,
      32689, 49566, 8988, 44733, 19940, 23192, 25871, 47674, 35077, 43661, 25647, 15900, 23742, 11012,
      30454, 6103, 43257, 32864, 35679, 49074, 31437, 14332, 41595, 16215, 46422, 26825, 49652, 39015,
      4874, 32669, 8828, 8810, 19005, 8645, 27842, 28971, 27033, 35668, 15891, 1085, 42231, 38354,
      38538, 44016, 33514, 30280, 14477, 3582, 43018, 33426, 25337, 15687, 3295, 46781, 20785, 10502,
      34740, 2403, 15548, 22093, 42178, 7300, 9070, 8126, 46508, 5835, 21830, 18493, 17170, 9069,
      4786, 46444, 19329, 27575, 410, 43220, 12091, 22933, 33145, 14230, 17606, 41332, 18573, 41362,
      14679, 46268, 2816, 24425, 13049, 16074, 40041, 34237, 41356, 24960, 32498, 11443, 24257, 45279,
      20793, 37143, 39831, 26481, 4585, 48677, 448, 22268, 43492, 14587, 39386, 45248, 8977, 4417,
      25118, 14418, 8965, 48899, 25423, 21408, 46985, 4041, 37153, 12741, 18038, 49271, 30227, 23266,
      39245, 26248, 40969, 25771, 19191, 39354, 10558, 19923, 23594, 10511, 12621, 19436, 34271, 12715,
      47009, 16319, 47472, 14024, 45685, 19215, 35673, 22916, 29342, 48516, 36544, 16217, 35526, 4516,
      44306, 18631, 10101, 11913, 22741, 1135, 42494, 34477, 34945, 41410, 33955, 47090, 33217, 24717,
      22875, 4714, 43657, 39510, 13846, 10790, 43918, 12415, 48334, 9909, 8788, 19084, 26455, 48184,
      9934, 47268, 43219, 39228, 24552, 31268, 27124, 40029, 7482, 22392, 11752, 49970, 15776, 16129,
      14066, 47864, 38263, 27678, 8092, 8251, 6306, 1948, 30332, 19133, 47725, 5447, 6028, 43930,
      35900, 2458, 48877, 24044, 33334, 47172, 37147, 36172, 40350, 21601, 22474, 45491, 42418, 2415,
      9463, 49345, 32432, 8861, 1733, 23830, 38228, 35885, 49842, 40995, 32142, 49133, 10206, 21064,
      17103, 4536, 9043, 18656, 18530, 17565, 13719, 6236, 14656, 47797, 45265, 28115, 1543, 39984,
      610, 7946, 5723, 6518, 4553, 5351, 33685, 38926, 643, 43862, 2161, 3205, 44256, 48032,
      28649, 5389, 20703, 7858, 25059, 5333, 29812, 13553, 8294, 31631, 43750, 49682, 24533, 13132,
      2321, 6545, 36243, 33852, 5088, 23007, 28478, 24967, 6270, 49507, 12543, 42372, 16110, 30629,
      10691, 36131, 21179, 37104, 42616, 34277, 49698, 29272, 20327, 29160, 40881, 47636, 11659, 8401,
      16097, 22749, 39262, 16744, 41876, 35242, 19294, 39047, 32794, 33144, 2199, 39602, 45640, 22789,
      21462, 7087, 22013, 15221, 4139, 11697, 13449, 10505, 12747, 48379, 7944, 49368, 40959, 40512,
      28383, 42257, 41813, 37200, 46284, 39247, 37547, 1069, 23011, 23140, 17906, 41841, 44195, 25221,
      42688, 42371, 42889, 18566, 41366, 13102, 30180, 13740, 43699, 41707, 12836, 13183, 4172, 16008,
      21921, 47235, 48251, 41964, 34132, 19134, 27021, 19759, 43318, 11142, 24916, 34339, 34846, 25226,
      11018, 18165, 17499, 22028, 34479, 9148, 33462, 31093, 40370, 20660, 38481, 15829, 8235, 22282,
      38569, 32798, 14965, 22165, 42792, 19059, 48568, 39528, 40393, 5442, 33095, 1760, 40693, 37881,
      23233, 26291, 15473, 37747, 14888, 22501, 11274, 19944, 11630, 44364, 23440, 45029, 1159, 11782,
      43107, 45555, 48403, 12295, 26356, 26392, 6622, 49964, 8064, 33499, 18836, 32950, 28689, 4038,
      4863, 49623, 4719, 7471, 18915, 46230, 26002, 20889, 3032, 46801, 41532, 41461, 18, 5473,
      26087, 35793, 43955, 2235, 30509, 22100, 2599, 29220, 36745, 31000, 45592, 14136, 24682, 21540,
      19298, 7702, 41902, 40131, 24287, 38180, 41463, 25439, 41758, 11406, 41178, 48373, 16385, 44163,
      6444, 7329, 25346, 22073, 1477, 44387, 35992, 37642, 26018, 10834, 20408, 973, 38602, 10621,
      7018, 39286, 11822, 35834, 36108, 30852, 18132, 31549, 42476, 30929, 32619, 23069, 22854, 44520,
      36646, 34776, 48450, 30526, 14204, 22609, 43459, 37021, 42125, 41534, 65, 27220, 2315, 26078,
      12078, 49118, 6170, 7877, 43591, 45703, 24752, 31, 24462, 4013, 41008, 14694, 25271, 36551,
      13785, 17231, 22850, 37597, 7093, 17404, 16553, 1533, 44442, 28094, 16867, 34041, 8626, 15857,
      17091, 2712, 20721, 43898, 39810, 38363, 46899, 29418, 8945, 19560, 15645, 17613, 30066, 40766,
      44388, 44751, 577, 29295, 42022, 26188, 35915, 6667, 48713, 4914, 13372, 7899, 3947, 39883,
      46589, 49281, 34497, 20653, 7529, 39717, 18958, 7661, 1624, 39639, 27782, 30450, 31613, 44512,
      37618, 10540, 28520, 42799, 27698, 31311, 3540, 25366, 9756, 8691, 17960, 8075, 28414, 39844,
      8527, 237, 33590, 34702, 43439, 46396, 16593, 47255, 34233, 32436, 49531, 42521, 42416, 14593,
      12752, 41108, 2112, 16080, 28491, 23740, 20035, 4390, 43147, 45544, 27596, 14887, 3479, 18539,
      7458, 42413, 32226, 14227, 10438, 42180, 45932, 19999, 2003, 45383, 27431, 41303, 10242, 12072,
      13213, 9136, 32073, 48120, 46042, 12264, 40308, 46980, 38728, 39728, 1156, 37535, 9895, 33235,
      6192, 41126, 2248, 8740, 29587, 5562, 21258, 42327, 22593, 15852, 16415, 47200, 22429, 26277,
      11876, 48682, 18538, 8287, 29604, 17341, 21151, 7670, 22452, 4731, 20702, 994, 48113, 35291,
      45293, 4600, 17454, 45382, 3817, 37568, 44081, 22127, 16816, 7658, 31432, 41550, 24402, 26169,
      23674, 11092, 41981, 26379, 31025, 38584, 49461, 26871, 46979, 31058, 31927, 48688, 48075, 29870,
      29766, 22545, 30030, 14991, 17379, 19772, 3310, 47415, 43216, 22961, 46889, 21513, 12375, 23267,
      8160, 26551, 44939, 20474, 28975, 11830, 14739, 22383, 5709, 47918, 1241, 36567, 24691, 37569,
      31805, 46726, 23373, 2565, 18882, 34639, 35655, 12920, 5502, 8182, 5995, 47778, 26097, 29530,
      27641, 9182, 34134, 38527, 32489, 33104, 1199, 12944, 47889, 9437, 40165, 45783, 1692, 36403,
      49367, 1709, 14451, 3708, 40114, 20247, 37232, 18265, 41291, 25187, 43528, 4435, 42551, 43072,
      48456, 14823, 28639, 23005, 43211, 36573, 17992, 39366, 34823, 39865, 33610, 6345, 9013, 19399,
      15658, 34224, 3151, 2988, 19724, 20974, 2689, 45811, 45469, 38159, 16952, 32509, 114, 36146,
      23860, 9529, 15409, 18864, 23618, 13892, 22592, 35140, 7023, 32183, 48724, 29581, 30464, 21913,
      11606, 30886, 40960, 2997, 37645, 18018, 35324, 25579, 45891, 12870, 9356, 14800, 31054, 24061,
      15098, 599, 15969, 40098, 20055, 40068, 552, 45993, 45711, 5234, 34208, 31939, 13264, 42113,
      11193, 15095, 32472, 45137, 32045, 42781, 25997, 26486, 12531, 9888, 6144, 838, 39786, 40382,
      27020, 16533, 5243, 13432, 32359, 415, 42466, 10418, 15948, 23258, 39482, 26602, 32877, 6486,
      2162, 16687, 13872, 8611, 11385, 8330, 8431, 31062, 7655, 39119, 1432, 26604, 10615, 32553,
      33057, 34999, 37962, 26099, 20299, 29607, 6510, 43978, 8907, 37108, 4572, 11160, 5177, 27262,
      10466, 9977, 1963, 41746, 42200, 5446, 17469, 6674, 39324, 31545, 11459, 29382, 21703, 29602,
      19784, 8955, 27397, 4271, 41597, 17038, 29955, 48487, 1702, 33792, 18229, 15399, 38464, 38825,
      13219, 8703, 25513, 9554, 39640, 9454, 42693, 48067, 2212, 24730, 17694, 8104, 2964, 49800,
      28663, 10469, 27541, 47628, 14448, 4089, 40567, 9922, 45158, 24248, 45899, 14010, 31693, 43433,
      10294, 34272, 16506, 7675, 16444, 37719, 43786, 2556, 5962, 24, 2451, 26322, 26626, 41060,
      43877, 22378, 27758, 43825, 49277, 9131, 20200, 13162, 40763, 13110, 6141, 10040, 19852, 47987,
      8882, 1389, 13818, 29251, 18545, 7307, 20301, 33600, 40721, 47274, 38936, 38189, 42302, 46997,
      16222, 12174, 39730, 300, 45630, 17133, 32134, 46245, 25888, 41061, 17762, 21290, 24546, 6781,
      17578, 11811, 18713, 39845, 18096, 22246, 14906, 6751, 22064, 28947, 46469, 29091, 44727, 41536,
      3490, 35451, 3078, 45798, 36064, 3209, 27933, 17637, 28199, 7466, 18947, 30003, 35470, 17592,
      25862, 439, 20276, 30173, 37803, 10316, 30351, 32550, 21977, 6891, 28914, 42134, 35615, 12190,
      16803, 6774, 44881, 68, 13175, 687, 31012, 24457, 41403, 49456, 16192, 42729, 45129, 15440,
      30353, 7312, 19186, 17057, 27924, 4279, 18803, 20030, 10864, 15378, 11582, 49810, 6497, 34098,
      34977, 22994, 1096, 1982, 14089, 13187, 4310, 45494, 29753, 31871, 46257, 35423, 7966, 12215,
      11624, 37596, 16857, 6798, 9140, 15786, 37895, 43886, 13821, 21285, 10826, 14760, 28634, 28260,
      38895, 28037, 17361, 4803, 27781, 40289, 36541, 44741, 47194, 34376, 23119, 4701, 45230, 8149,
      25437, 38233, 49901, 46996, 48324, 27536, 11853, 18637, 36764, 34166, 31997, 34506, 17283, 48896,
      10148, 41379, 7376, 8280, 3801, 37837, 34730, 49661, 27670, 49490, 5614, 34190, 28196, 40403,
      18031, 45984, 25898, 31776, 10049, 16677, 31804, 33450, 42640, 17225, 37238, 36457, 16722, 17557,
      22544, 33705, 35826, 6423, 19875, 15508, 36582, 39351, 7547, 44565, 20749, 3730, 46310, 24969,
      3458, 23281, 13060, 43413, 45419, 12227, 39750, 46399, 46763, 26571, 47014, 45517, 46596, 15244,
      23425, 48579, 5896, 3520, 47983, 25996, 48645, 49740, 9906, 40984, 42341, 46814, 29039, 28774,
      28721, 1488, 14423, 35575, 18011, 11140, 28512, 18429, 49162, 20332, 31299, 24140, 41324, 43858,
      8187, 4779, 44151, 31321, 30941, 13010, 16302, 27607, 11287, 16960, 41954, 25629, 3667, 25233,
      41465, 46872, 44031, 32114, 35594, 19379, 1646, 1744, 43203, 17879, 40072, 35456, 2177, 12222,
      1835, 19636, 17063, 48237, 24245, 22976, 48170, 35951, 21864, 44175, 32462, 35786, 46560, 33950,
      44705, 2438, 34288, 35639, 26236, 6203, 817, 17785, 19061, 23174, 23089, 11063, 32987, 2392,
      32531, 48173, 13037, 14468, 4373, 14078, 36974, 32, 5728, 48047, 8100, 3576, 42311, 39028,
      18877, 42650, 31254, 40012, 43957, 7717, 19180, 20995, 6030, 43137, 33770, 72, 9594, 1461,
      32219, 49828, 41644, 19369, 34692, 13408, 10340, 20257, 11369, 1325, 45027, 44763, 41211, 18632,
      4453, 33720, 25839, 35583, 27321, 47948, 8361, 13138, 31608, 2500, 45138, 2793, 25760, 38221,
      40813, 31261, 30320, 46458, 40280, 12137, 19004, 8089, 16283, 5797, 28402, 38745, 35727, 10372,
      43253, 18021, 12717, 46668, 1821, 21017, 35960, 21150, 8774, 22026, 38752, 37159, 47128, 24558,
      3497, 19752, 19109, 8956, 28288, 22505, 9326, 33677, 41340, 27793, 21986, 33034, 10104, 6220,
      21470, 26710, 757, 7806, 14797, 42112, 10105, 15655, 9622, 18993, 45532, 6338, 45916, 6905,
      45225, 11071, 32011, 42033, 10249, 42299, 24153, 28401, 44546, 15939, 27839, 27330, 12670, 3572,
      41390, 48399, 40592, 36898, 39175, 33929, 13570, 37325, 10620, 29056, 27341, 4487, 9262, 48629,
      35742, 13446, 21464, 28502, 42234, 32478, 30559, 711, 30511, 17108, 38122, 30706, 1865, 9310,
      11774, 6733, 19818, 47121, 20960, 4462, 44537, 38531, 921, 47990, 4328, 35260, 5059, 49519,
      7073, 44963, 34720, 42626, 48377, 580, 9924, 11354, 30469, 38970, 27022, 9923, 14793, 10144,
      49683, 22027, 13235, 42638, 23641, 31384, 25875, 44719, 32202, 32022, 14967, 35005, 3672, 26196,
      20776, 40504, 4882, 24616, 637, 12704, 29404, 20606, 30132, 8736, 16955, 20122, 44515, 44407,
      1258, 47465, 16240, 22899, 18374, 48151, 5063, 25158, 27276, 44471, 8465, 41161, 40827, 5900,
      11776, 7562, 46362, 26202, 40886, 47741, 48095, 42340, 2040, 26767, 3171, 48982, 25407, 45300,
      31783, 42826, 33228, 41275, 13992, 25381, 37562, 26534, 34606, 37542, 5846, 31353, 44986, 40962,
      10910, 15643, 9835, 38435, 34287, 3887, 1460, 5087, 41262, 32505, 6652, 43215, 44703, 14753,
      46895, 21141, 29423, 1694, 14959, 49127, 26836, 17332, 25213, 6544, 33802, 4005, 46774, 49278,
      34602, 2675, 7935, 15094, 16556, 45035, 7770, 18621, 34244, 41730, 37426, 22951, 43449, 21759,
      7832, 4353, 4930, 8423, 5721, 18811, 47397, 38821, 26839, 41904, 15921, 27322, 49358, 29099,
      14312, 17966, 5009, 11967, 33128, 45843, 12170, 24790, 14850, 24992, 5839, 45915, 45495, 48641,
      22552, 6490, 15293, 2416, 33277, 47283, 35023, 27725, 26835, 21961, 18696, 4517, 20752, 23531,
      42696, 44133, 36530, 18436, 21511, 43441, 1438, 24219, 46930, 15915, 15090, 36594, 39276, 25813,
      8103, 30335, 21226, 41148, 40924, 39006, 23603, 38095, 22124, 21866, 4094, 33048, 43549, 23168,
      16588, 26766, 28775, 38235, 47958, 26298, 44420, 3531, 49807, 17465, 17913, 41744, 15580, 30604,
      35322, 9462, 35916, 47034, 35438, 5111, 5340, 24254, 18116, 14762, 6930, 36817, 7139, 6973,
      30241, 36685, 14503, 48099, 39910, 24416, 32296, 12794, 20278, 24788, 29816, 33960, 1354, 14038,
      47925, 4934, 8046, 34316, 17842, 43497, 27247, 9684, 26023, 12345, 13508, 11135, 44250, 48031,
      15110, 1567, 24305, 36318, 37969, 15586, 31179, 43258, 11266, 7288, 16983, 23506, 24991, 31192,
      27930, 5999, 15766, 39554, 11712, 7216, 31789, 49795, 42151, 9659, 25302, 5792, 47080, 2301,
      12643, 27574, 27035, 47701, 9442, 42664, 49056, 16763, 36374, 36217, 20334, 27199, 34616, 18779,
      32399, 4124, 46578, 22536, 22435, 20893, 9119, 21294, 44808, 8428, 15026, 14985, 17923, 14619,
      26809, 47711, 20766, 16783, 27240, 48410, 30290, 23439, 47221, 13378, 49802, 2503, 24443, 11817,
      42050, 9770, 25967, 35872, 12252, 45787, 11038, 29433, 25992, 14461, 41245, 17870, 12542, 42338,
      13679, 43544, 26468, 28642, 33994, 14785, 45398, 9869, 7541, 9203, 21755, 34813, 36688, 20891,
      31246, 23663, 2422, 9537, 49370, 467, 1688, 14059, 47184, 35261, 3312, 32838, 42760, 44618,
      49815, 19428, 11352, 42439, 27120, 13856, 7782, 8623, 27053, 29233, 1169, 693, 16791, 24809,
      14309, 27106, 38774, 34835, 38849, 10674, 31955, 46220, 39467, 35945, 16076, 28465, 46622, 22298,
      31808, 47316, 4354, 25321, 16561, 8195, 15344, 34756, 14316, 49886, 10187, 41943, 413, 295,
      20199, 5828, 31774, 49201, 30569, 16119, 39359, 46252, 43049, 27112, 3892, 2134, 26272, 5244,
      39888, 44604, 35728, 36337, 13106, 8576, 28859, 5885, 38896, 12382, 43389, 22769, 42, 5376,
      11493, 19954, 24033, 38105, 8289, 4049, 36479, 16223, 25371, 46350, 46111, 45152, 36482, 5811,
      33260, 47107, 20742, 41522, 32889, 15840, 36944, 420, 38372, 35269, 7958, 46475, 2474, 1217,
      20887, 28317, 44416, 20526, 20682, 10947, 47298, 40838, 35570, 9197, 2640, 16546, 26301, 45209,
      42237, 8764, 38348, 87, 27768, 37110, 11565, 22141, 14253, 18319, 30884, 10654, 37992, 27437,
      15060, 30819, 25443, 31157, 18732, 38004, 16628, 10015, 38071, 32313, 47997, 27601, 49435, 28817,
      2483, 2938, 37801, 25223, 40710, 47863, 48623, 36983, 10760, 27244, 10909, 32627, 17710, 19693,
      42149, 22799, 8349, 14951, 37249, 12872, 42518, 27478, 8654, 36335, 31361, 23102, 41548, 44063,
      7621, 31274, 40019, 49812, 14811, 45019, 4074, 36577, 37847, 43315, 46131, 5918, 4356, 27312,
      381, 33801, 34589, 46045, 48207, 34733, 2381, 44847, 15918, 15677, 1648, 36760, 41428, 41197,
      48826, 11417, 38979, 16494, 5743, 35069, 45381, 34213, 32121, 6678, 6097, 44118, 40550, 5305,
      25433, 40217, 5617, 11152, 26445, 19202, 35368, 24966, 13510, 31239, 17916, 31177, 27881, 12396,
      6448, 9734, 24030, 49654, 21305, 1979, 11255, 13155, 11848, 33374, 46426, 10847, 16411, 16855,
      15437, 35573, 17409, 445, 3323, 38988, 19667, 6959, 26693, 17230, 33060, 27780, 30300, 5849,
      2922, 35403, 17603, 12247, 4527, 32276, 27394, 12552, 27979, 41058, 13079, 39672, 29639, 33830,
      26022, 21941, 46586, 999, 41723, 39715, 8444, 30641, 23354, 44123, 10895, 22970, 41066, 30996,
      38316, 23694, 6846, 37615, 24400, 20069, 49081, 14727, 25575, 27264, 39463, 41098, 131, 31202,
      43341, 23557, 2728, 15552, 17238, 13195, 26570, 37339, 22184, 33221, 9729, 48756, 14161, 9710,
      36827, 44249, 35998, 19266, 24359, 29946, 23371, 8826, 10939, 34390, 17970, 29466, 39176, 28395,
      18506, 24511, 30608, 5830, 32586, 6507, 16500, 46672, 46992, 35223, 22217, 9883, 32964, 31835,
      42709, 25645, 2066, 1071, 7076, 23731, 30493, 39926, 44608, 41442, 21624, 46334, 9958, 23828,
      21614, 20881, 19844, 38085, 3878, 24617, 29784, 38295, 16249, 17507, 13768, 2223, 35382, 31282,
      79, 47862, 41921, 10777, 26408, 4626, 41918, 38026, 16083, 3372, 28707, 11985, 26597, 31275,
      422, 23611, 20762, 34251, 44087, 6303, 33304, 20328, 26807, 36612, 44587, 1151, 1556, 33676,
      22097, 33791, 43551, 9278, 19377, 15076, 44552, 4166, 26578, 47392, 16786, 34984, 42167, 29355,
      15535, 39688, 23117, 27973, 21458, 34164, 9297, 39972, 44092, 16024, 28668, 24265, 5272, 41784,
      34802, 12939, 30945, 28688, 10862, 40556, 3405, 13181, 25412, 13042, 46227, 32608, 43667, 15007,
      11914, 24182, 7749, 34863, 41129, 16543, 2470, 7163, 43546, 7014, 8951, 4743, 7101, 13509,
      26104, 17705, 10961, 45119, 37751, 9325, 25493, 37635, 39493, 12876, 40628, 24295, 20105, 40339,
      12523, 25972, 13809, 4154, 17219, 3898, 19521, 10052, 26315, 41273, 24232, 16708, 44025, 47554,
      22836, 34038, 4192, 49719, 43121, 891, 26802, 9515, 11301, 20577, 17216, 33661, 13603, 16771,
      25614, 1358, 5131, 46308, 41698, 42687, 28140, 45432, 21078, 20830, 449, 5364, 18857, 4539,
      44267, 19472, 42920, 49046, 20329, 37184, 47545, 3376, 9636, 14234, 31941, 2753, 28950, 49348,
      26897, 11134, 19897, 1910, 19631, 15077, 19823, 12028, 1663, 24369, 46445, 14297, 11377, 33473,
      7735, 24198, 39806, 28792, 3742, 47836, 12084, 47728, 6092, 21661, 39153, 29135, 21552, 3090,
      20709, 46485, 2506, 17604, 18089, 15196, 21815, 15436, 25052, 40269, 45827, 20967, 47950, 45074,
      34968, 11304, 13562, 10025, 47002, 37106, 1112, 16937, 5112, 46260, 10486, 9352, 2945, 9458,
      48073, 11328, 30211, 48542, 40181, 40028, 14548, 41352, 27868, 18369, 44541, 13423, 39411, 29269,
      42701, 9368, 2872, 35745, 37720, 21814, 45725, 45694, 6349, 38845, 44956, 18815, 16130, 25319,
      21554, 36100, 25367, 37665, 46716, 33393, 39412, 20115, 19332, 4441, 19064, 13300, 19450, 46751,
      47994, 6729, 35947, 46890, 20270, 49773, 36988, 29485, 2699, 22300, 5458, 14082, 32993, 8301,
      22791, 17886, 10321, 45528, 19178, 5983, 27015, 14726, 31578, 7413, 16143, 32879, 27260, 15285,
      39925, 5380, 21863, 29997, 19410, 33867, 14923, 18225, 3484, 11408, 33438, 3415, 47989, 35914,
      169, 3034, 23560, 34478, 31681, 29481, 40314, 42872, 49989, 35311, 38045, 37737, 11447, 27410,
      18839, 21192, 11145, 48419, 29851, 47570, 25358, 8709, 28913, 45332, 35095, 9483, 32047, 22568,
      7048, 25688, 9754, 14937, 20236, 46926, 49550, 42169, 5171, 11008, 30885, 18032, 41021, 7874,
      19074, 17651, 792, 25664, 39038, 6827, 27071, 24357, 1933, 27277, 17584, 3669, 1333, 1244,
      31236, 1776, 41050, 4629, 24893, 25293, 26667, 29858, 23684, 36043, 33149, 7319, 38222, 48306,
      9868, 38038, 477, 13457, 9819, 46465, 16057, 28014, 49669, 23999, 3824, 8198, 8039, 21615,
      26638, 46903, 48664, 46813, 30085, 41177, 3569, 36338, 9950, 22699, 11075, 43295, 888, 7649,
      35973, 7551, 46027, 28896, 47476, 31300, 12417, 3143, 35844, 3325, 6283, 40335, 21655, 18065,
      15667, 36650, 33326, 43468, 44752, 31558, 1854, 23693, 49764, 45732, 46640, 36825, 4333, 12930,
      4601, 12813, 45900, 45462, 18630, 11945, 33311, 31792, 48553, 37444, 49694, 10819, 37783, 16919,
      10607, 12455, 7084, 26472, 823, 17580, 47463, 17328, 25397, 37922, 38795, 22065, 13487, 30029,
      16782, 17661, 32089, 13003, 34089, 605, 48337, 9217, 3870, 17635, 6577, 34459, 34388, 1264,
      29559, 3024, 36481, 20615, 32795, 42225, 25733, 4366, 3476, 6376, 14999, 24355, 18201, 35207,
      14248, 6932, 28963, 41232, 44462, 45788, 48455, 37835, 41561, 48671, 19010, 19322, 25063, 34603,
      34537, 19629, 42961, 42553, 48601, 25041, 17536, 38760, 36381, 47423, 20287, 28936, 26547, 18518,
      20739, 38395, 40209, 7622, 42588, 13448, 19952, 41598, 23461, 45385, 16512, 12873, 31286, 40799,
      16289, 43071, 12282, 5717, 38617, 16081, 2669, 30566, 20113, 27977, 47766, 46507, 4838, 45440,
      6125, 27256, 32020, 19691, 20748, 32259, 26804, 5151, 47551, 41151, 16775, 44029, 38683, 16202,
      35090, 41480, 47050, 42259, 34124, 19571, 44448, 3487, 6732, 47678, 38666, 4073, 32407, 41082,
      24832, 28704, 6242, 45041, 5833, 28984, 37689, 41057, 22437, 37670, 12775, 2846, 31856, 3331,
      40593, 9605, 2783, 5615, 49363, 24085, 48028, 21760, 29692, 25602, 49711, 37554, 48117, 8598,
      38605, 26190, 20614, 7019, 43104, 15839, 45863, 15340, 6452, 32818, 31758, 1579, 23653, 19352,
      32632, 14795, 36771, 15544, 43393, 25061, 17788, 40684, 20917, 19514, 48883, 45931, 40980, 18075,
      29814, 28223, 49344, 41409, 41406, 658, 45797, 24619, 40281, 35587, 49402, 20396, 28558, 36238,
      19050, 20114, 23010, 49950, 42648, 31369, 40052, 41891, 14569, 5943, 22310, 41896, 6094, 40859,
      41387, 18212, 15380, 32974, 35067, 21883, 46171, 31217, 44368, 38027, 4081, 36633, 42817, 43483,
      49536, 8464, 41562, 10952, 22555, 25038, 44376, 30023, 42248, 35522, 41658, 41074, 21803, 39363,
      36205, 17504, 24450, 11796, 30684, 24852, 14962, 34222, 19575, 40611, 37368, 9050, 39573, 1222,
      5902, 36398, 11230, 8766, 2154, 49975, 7259, 18682, 27744, 35692, 37357, 45979, 27444, 37256,
      16496, 13383, 21551, 30162, 34320, 5691, 26108, 26290, 12442, 27409, 205, 46509, 24642, 9983,
      44284, 3538, 958, 46441, 15923, 16689, 31445, 47821, 43757, 5518, 45531, 6800, 25622, 36340,
      16762, 13317, 43883, 23758, 8109, 45972, 2339, 29372, 12401, 37501, 9332, 46084, 28794, 14364,
      48837, 8117, 31415, 20429, 43881, 45244, 8167, 32600, 12089, 8066, 45009, 26240, 24437, 1476,
      47135, 11628, 13105, 15162, 33897, 50, 19984, 49960, 29379, 38112, 27028, 20782, 23797, 31449,
      47153, 8916, 21142, 40232, 27381, 8689, 33854, 44863, 20501, 21788, 9218, 26694, 10977, 43010,
      25099, 18258, 12631, 46446, 25823, 9012, 4260, 5027, 40723, 20193, 14620, 15993, 37982, 37943,
      9360, 39330, 41694, 29024, 13646, 9157, 1223, 3625, 3360, 40202, 15365, 35190, 43985, 17314,
      23636, 23031, 16910, 11201, 16146, 14305, 982, 5023, 24930, 39333, 24507, 4752, 49470, 41040,
      25282, 26040, 19947, 44115, 31676, 21849, 15231, 21242, 414, 24133, 4671, 46961, 48058, 16433,
      14242, 46886, 28925, 46501, 44406, 23055, 36987, 9586, 8411, 33337, 14919, 2860, 23485, 40183,
      12321, 38680, 48988, 28274, 11643, 49496, 9338, 19920, 45262, 26245, 7660, 41897, 18991, 14498,
      5948, 49932, 44464, 9543, 10349, 38382, 30083, 44186, 30847, 41858, 22135, 43727, 33712, 42777,
      1989, 35681, 21653, 13212, 48887, 2439, 20461, 31170, 19763, 777, 27358, 8172, 30808, 31410,
      11409, 3934, 45448, 18423, 18744, 10731, 26521, 34116, 32063, 48863, 8657, 31665, 5015, 17684,
      23053, 8799, 20359, 41628, 42986, 33193, 42666, 2452, 7398, 11479, 4318, 3364, 27946, 36677,
      48449, 24159, 40876, 29767, 33490, 9445, 29476, 35623, 32256, 19605, 15907, 16361, 38972, 3061,
      6123, 46031, 9623, 34357, 11251, 21415, 36195, 28155, 23896, 31317, 17927, 46428, 13442, 43058,
      21269, 31885, 12176, 47592, 31719, 37033, 24067, 21506, 6015, 21106, 6647, 36401, 40291, 28645,
      27729, 17401, 30609, 6590, 28830, 21170, 10140, 9602, 12919, 3975, 33887, 38701, 23733, 43055,
      9179, 30856, 40389, 36705, 9780, 16025, 1178, 48437, 28766, 35430, 36905, 26352, 42464, 5837,
      17829, 7108, 42621, 33053, 24371, 40159, 43572, 24500, 17852, 38368, 29778, 46823, 46140, 3048,
      700, 41172, 29810, 26439, 31478, 2067, 44548, 16012, 48793, 17676, 22277, 5919, 17540, 47376,
      39138, 4691, 3283, 23550, 2919, 45258, 17068, 43593, 11084, 22735, 34909, 39846, 27702, 21021,
      17388, 23139, 8954, 22354, 5230, 44052, 20405, 30723, 10934, 30804, 22863, 23412, 39069, 44400,
      46495, 42374, 9495, 7593, 18866, 25532, 7082, 1373, 37070, 33194, 19435, 45704, 339, 42884,
      29429, 46279, 29473, 33491, 8833, 10978, 38270, 27549, 129, 24977, 33301, 5350, 49243, 4789,
      32398, 3194, 31016, 26243, 17169, 49061, 14396, 36262, 13149, 34003, 41506, 29394, 25600, 16665,
      2502, 22869, 32750, 9820, 33922, 9457, 33443, 19, 38037, 35805, 23729, 1643, 16277, 42843,
      19987, 15990, 2827, 24942, 16128, 32158, 18640, 13068, 30486, 31107, 7115, 27525, 48578, 42526,
      3800, 6900, 44329, 24343, 7894, 31739, 11273, 44065, 24890, 1983, 49338, 10348, 25656, 8849,
      48673, 33519, 10273, 36555, 40274, 29515, 37433, 12835, 22539, 36496, 23108, 39283, 8594, 11844,
      42268, 22842, 12864, 31862, 47212, 32815, 14718, 37337, 15784, 26520, 29488, 19673, 49222, 22343,
      14767, 21139, 6499, 42780, 8752, 21207, 30657, 2446, 49642, 35295, 45718, 48531, 43509, 33556,
      49224, 28357, 11123, 17597, 19929, 7160, 18883, 8098, 10108, 25348, 15636, 37539, 32743, 12606,
      7127, 17422, 24315, 1735, 35784, 18939, 46631, 14952, 7389, 44632, 43172, 40605, 47495, 13368,
      26720, 45216, 43426, 33736, 8548, 40918, 17338, 18079, 45730, 43027, 17978, 28832, 44148, 28695,
      10872, 46224, 17426, 34953, 41668, 34718, 1783, 32830, 38629, 45160, 36280, 31795, 5462, 5852,
      16308, 3665, 45744, 35514, 34394, 2271, 28949, 15873, 40892, 38622, 8967, 48778, 24657, 37168,
      37541, 14012, 44130, 23908, 26141, 34461, 29190, 12393, 3449, 5892, 39270, 43498, 42434, 21587,
      16225, 7141, 20910, 17934, 33181, 31066, 25028, 15691, 14862, 41309, 12777, 45689, 7796, 45767,
      20681, 26090, 36327, 41222, 21705, 36603, 17907, 35534, 46312, 45829, 43739, 46152, 49809, 2118,
      19981, 14071, 1130, 39124, 17800, 22233, 17945, 5397, 11719, 5441, 32046, 31040, 11723, 24668,
      27571, 22003, 47870, 5620, 31952, 37651, 15064, 1238, 6659, 6109, 40134, 36106, 15583, 41654,
      41155, 25534, 41626, 49904, 12416, 36680, 6967, 35455, 37047, 47670, 12303, 16457, 15303, 8001,
      22032, 6076, 39731, 27949, 21325, 38570, 9560, 32628, 6243, 15324, 42295, 27992, 10960, 34466,
      5616, 30011, 30078, 49148, 13495, 24512, 37362, 2749, 6105, 27185, 24119, 2802, 48439, 42266,
      42706, 14878, 21107, 25906, 21471, 36933, 17654, 1104, 35299, 21236, 26267, 31748, 26204, 38502,
      15015, 24298, 34327, 37557, 33700, 10404, 36769, 49884, 14333, 34974, 41935, 30284, 15600, 42223,
      23216, 46787, 25784, 32406, 37162, 25666, 19504, 38777, 2674, 36149, 21383, 45377, 27190, 42717,
      14834, 34577, 2636, 58, 33241, 38971, 32311, 40395, 46863, 15333, 39668, 21747, 12559, 9740,
      40590, 47787, 1293, 21873, 16373, 31241, 39496, 35160, 5166, 22721, 14030, 43712, 43843, 33050,
      25333, 39512, 15494, 25157, 5279, 44883, 40802, 33087, 49487, 5250, 17044, 18001, 16011, 7017,
      14980, 26504, 11330, 27803, 32573, 1002, 13349, 26234, 30273, 47306, 41318, 10145, 9917, 42850,
      35614, 14323, 44308, 38620, 9047, 42711, 4682, 11386, 5933, 2953, 37370, 30025, 23340, 47211,
      26886, 16285, 8291, 28213, 30848, 21053, 23843, 27041, 37813, 23118, 26418, 8129, 653, 39599,
      35091, 21009, 16148, 36758, 24798, 3545, 14096, 17097, 43771, 41207, 10473, 22516, 2821, 18405,
      14088, 27188, 2164, 5280, 18940, 38915, 28183, 28029, 19728, 39494, 36753, 32103, 17137, 2163,
      43589, 1250, 10918, 8818, 40338, 4983, 32977, 16139, 28330, 21872, 48791, 40489, 3656, 1561,
      22293, 41697, 31130, 5091, 42210, 44812, 6966, 39853, 26761, 25277, 48091, 21314, 36351, 37549,
      13385, 16632, 38436, 3999, 36330, 29610, 37985, 49378, 43261, 13601, 2589, 34662, 6298, 13227,
      47017, 42016, 4721, 16066, 458, 12767, 2555, 29442, 43679, 49567, 11089, 21950, 4389, 15489,
      2553, 32150, 20223, 10120, 32490, 9864, 47647, 3857, 46968, 24125, 19861, 1010, 5363, 1505,
      45339, 24952, 22695, 48962, 45509, 934, 19283, 38267, 41848, 32277, 23581, 49103, 34111, 24935,
      33542, 44543, 17013, 14860, 25535, 3086, 19338, 30340, 32486, 10246, 32708, 22981, 43958, 23100,
      17748, 30995, 28894, 40211, 2504, 31828, 21148, 40532, 8389, 25744, 24970, 39992, 20099, 28184,
      49349, 23088, 16560, 23659, 31147, 2234, 12355, 21536, 38012, 43033, 36806, 45957, 40237, 24883,
      5769, 19701, 20547, 35787, 22068, 20130, 26255, 10666, 1327, 6613, 24180, 30635, 3276, 34979,
      15720, 8083, 26675, 500, 39436, 2335, 39299, 42682, 11465, 9886, 5475, 12925, 16652, 518,
      32151, 7159, 38315, 6360, 43636, 26583, 2358, 22407, 31280, 6654, 46580, 19843, 47119, 4965,
      39009, 37566, 17594, 11371, 13073, 33853, 8495, 6218, 25236, 40176, 33143, 47860, 49875, 15634,
      1769, 26283, 21260, 16137, 39921, 7626, 47854, 35782, 1499, 38009, 27835, 46093, 21264, 21302,
      33944, 31423, 45623, 40333, 37510, 28500, 37508, 34593, 39204, 15648, 160, 29178, 22061, 22150,
      26563, 2995, 28368, 35680, 33166, 34786, 46463, 27371, 29974, 40246, 35130, 20455, 10306, 12943,
      24723, 14877, 36369, 41271, 46853, 27799, 36973, 15903, 25469, 39941, 45111, 44147, 43869, 32780,
      30289, 9907, 366, 31087, 18910, 37912, 42787, 38488, 5203, 28658, 48197, 45370, 31495, 5095,
      18072, 13708, 39280, 20998, 12125, 23533, 37727, 2665, 45653, 16925, 40837, 31253, 30694, 10215,
      164, 42455, 1852, 43964, 47421, 16120, 10663, 7862, 4787, 23471, 16638, 26925, 36344, 25878,
      4474, 8261, 10611, 12279, 12572, 40629, 33701, 4355, 28887, 41521, 11687, 24283, 47313, 36507,
      16238, 15263, 22315, 43892, 15554, 11066, 8262, 33805, 21859, 27280, 22380, 36171, 4415, 3247,
      48922, 15136, 43529, 19684, 17336, 36384, 41645, 5000, 44468, 47588, 23915, 47375, 37262, 43777,
      28413, 27273, 26862, 13778, 8685, 47714, 14990, 9039, 13636, 16208, 23035, 14609, 11170, 48108,
      21831, 46599, 28842, 6506, 37243, 8366, 25909, 23232, 17096, 45362, 3936, 10176, 2804, 8043,
      12703, 3046, 33959, 48110, 7077, 22459, 28570, 17335, 8728, 39448, 14801, 32076, 43911, 33236,
      13012, 26558, 22483, 15846, 4257, 45489, 47091, 29146, 1310, 44526, 5054, 22289, 3251, 14281,
      39268, 48340, 28123, 35850, 12057, 36961, 18371, 32548, 48247, 1473, 8758, 39508, 21196, 10401,
      19213, 23707, 23395, 45778, 31543, 13955, 8699, 42152, 29533, 48595, 26261, 3526, 46562, 10027,
      18260, 17245, 14618, 46193, 47426, 21651, 10782, 12134, 14984, 44453, 24215, 22308, 17167, 2596,
      32568, 35701, 4797, 13414, 20872, 13336, 16761, 16741, 34810, 48241, 8724, 14685, 32094, 33368,
      7504, 10426, 20449, 14319, 10384, 184, 4352, 48589, 23528, 36844, 22448, 24194, 15154, 43031,
      45348, 48003, 25138, 25189, 2427, 36488, 35293, 46178, 46752, 21307, 47273, 17211, 23438, 14708,
      30362, 5385, 43256, 35880, 36569, 33964, 18669, 6473, 25912, 13690, 32881, 472, 35538, 4681,
      29798, 34889, 35874, 36887, 10357, 10119, 20511, 33616, 5049, 44030, 1528, 15819, 24956, 3773,
      29696, 19141, 19919, 2025, 16519, 29713, 14735, 35404, 20320, 41602, 35704, 12937, 7116, 8102,
      31139, 36095, 33952, 26663, 44342, 42482, 39226, 3006, 40954, 6566, 47891, 11480, 38997, 425,
      14751, 49071, 21652, 29954, 4693, 5316, 23194, 38291, 16490, 6856, 7015, 45567, 4111, 37152,
      24605, 28234, 25091, 4799, 37697, 13582, 44349, 44112, 47007, 45768, 45201, 8700, 49903, 3123,
      10590, 42786, 32646, 9305, 7693, 24949, 49341, 43835, 16312, 38991, 30498, 37862, 17659, 35336,
      45139, 9901, 26038, 49163, 38957, 47544, 27484, 10757, 49113, 9054, 10041, 28892, 47483, 36019,
      26296, 9364, 39156, 26975, 20551, 46796, 4132, 15752, 16950, 25357, 31752, 13494, 39379, 29040,
      44595, 5381, 5315, 12420, 32664, 28531, 47807, 47501, 42797, 47243, 9431, 15827, 15782, 26219,
      18179, 6834, 30716, 17441, 10156, 2629, 7699, 30473, 26543, 49405, 4522, 16829, 34169, 37869,
      28833, 35408, 2543, 21007, 10467, 38204, 24996, 40602, 16668, 36984, 15942, 33766, 39594, 21404,
      35641, 31909, 7169, 29354, 12198, 28410, 17384, 29945, 30261, 27821, 23583, 4533, 19491, 12942,
      30067, 23914, 20976, 23424, 9748, 27967, 8469, 17809, 21810, 30237, 2379, 17545, 111, 14008,
      24726, 23708, 9388, 28893, 3546, 4403, 7393, 30690, 34142, 35122, 22542, 25040, 8347, 5702,
      7120, 23404, 27383, 371, 36161, 6259, 15562, 38733, 5942, 29654, 38227, 44265, 25755, 17032,
      38323, 7334, 28640, 47487, 24491, 41867, 38510, 40498, 10431, 3651, 23795, 3684, 32294, 19542,
      29513, 34588, 13788, 37682, 6903, 7532, 40045, 23703, 25405, 34370, 21537, 27354, 14372, 41659,
      40594, 33086, 36442, 48378, 9461, 9840, 7121, 38571, 7464, 47969, 22205, 45142, 40661, 24252,
      29536, 39545, 15930, 45545, 32852, 10498, 19796, 3851, 28514, 16746, 30982, 22426, 31511, 45663,
      33168, 15589, 27459, 44559, 23507, 1320, 42398, 41052, 18330, 44055, 37240, 17527, 8486, 551,
      7276, 20860, 31129, 24974, 48948, 32917, 37878, 94, 24009, 34763, 36693, 33682, 45324, 14846,
      37994, 39564, 22743, 14393, 594, 10633, 46826, 37774, 40934, 35253, 11548, 43535, 22576, 41539,
      19163, 38812, 4901, 18383, 36743, 21529, 44293, 21952, 34735, 48325, 1634, 35632, 31509, 23786,
      38671, 26193, 27894, 9671, 43471, 17310, 26074, 28750, 35515, 30399, 35564, 13621, 32188, 17716,
      5149, 15115, 19650, 19072, 18098, 41533, 37074, 44268, 33295, 13065, 20239, 17562, 24506, 23902,
      14241, 16007, 29361, 24892, 27426, 15053, 2818, 38802, 33718, 5362, 35375, 41579, 6385, 37209,
      15169, 47232, 46821, 33844, 13246, 18318, 22640, 28305, 29032, 37328, 29191, 48078, 31318, 1965,
      987, 18409, 25176, 9357, 38600, 32615, 27521, 4963, 43290, 21635, 39894, 32309, 30632, 2928,
      15496, 44146, 30412, 30358, 48919, 46960, 31381, 45985, 20529, 40579, 44171, 34361, 26777, 4383,
      47276, 17084, 31839, 7443, 11885, 14306, 38539, 25890, 26998, 17142, 39817, 6598, 49994, 40424,
      32806, 36600, 21658, 7203, 19278, 45243, 28946, 9245, 44680, 4856, 8698, 19359, 17408, 7572,
      28030, 11078, 15654, 30416, 20724, 10472, 41231, 8496, 34469, 18477, 40241, 9178, 48484, 31786,
      20517, 16636, 511, 24091, 22152, 3333, 47511, 36409, 24789, 28543, 38143, 25444, 33518, 6074,
      40674, 49181, 19054, 6940, 12901, 33170, 24236, 17849, 38962, 7222, 4697, 21881, 305, 35768,
      5378, 15582, 8573, 25511, 49154, 28432, 40817, 24940, 662, 33471, 28981, 527, 41959, 48909,
      8631, 20165, 41195, 24064, 32004, 40627, 49609, 21527, 45070, 39461, 17610, 903, 7588, 44285,
      14329, 15414, 13881, 48097, 41020, 39394, 6389, 24550, 9652, 41538, 9106, 37926, 16015, 1532,
      35059, 15657, 9449, 23021, 47228, 43013, 13888, 24575, 9678, 15410, 48514, 18366, 24661, 3685,
      11202, 37169, 13421, 27299, 49411, 11564, 33521, 31644, 8142, 8644, 4063, 47259, 43776, 31018,
      43634, 19727, 18822, 44606, 34837, 30194, 17579, 21608, 25654, 11341, 2175, 44331, 8816, 15510,
      13111, 14425, 19934, 15065, 35610, 4521, 6402, 17738, 37515, 40016, 42611, 47174, 1099, 9664,
      14717, 20, 25010, 46836, 15715, 48453, 11748, 45025, 43008, 47525, 46114, 6443, 36061, 8163,
      35812, 14255, 47252, 34633, 12699, 10908, 40421, 25093, 44350, 5007, 19523, 14002, 28349, 24583,
      32243, 20439, 14642, 33550, 21134, 43663, 19708, 7883, 31622, 22631, 8722, 27617, 36179, 20852,
      3107, 7925, 45481, 24555, 26269, 35889, 14755, 40794, 11481, 12225, 30802, 23979, 27075, 1300,
      3521, 43029, 20209, 35342, 6500, 33115, 37314, 44577, 16388, 21984, 42019, 18249, 20473, 9711,
      41092, 17884, 19615, 48936, 37828, 1064, 25382, 38344, 29815, 45869, 31913, 7333, 6106, 9963,
      14507, 14847, 33100, 20373, 3692, 6866, 36158, 46713, 7814, 17464, 6734, 4288, 20291, 40506,
      24514, 26875, 6787, 24329, 5631, 32095, 41204, 46947, 23798, 32521, 46205, 24440, 6321, 30549,
      34451, 18584, 39550, 36514, 1110, 24073, 8526, 9034, 8382, 22107, 30008, 36847, 23634, 33444,
      12046, 15976, 17166, 42360, 26631, 49841, 38945, 42562, 35841, 36780, 39762, 183, 9511, 49733,
      39889, 21311, 35604, 43990, 45802, 34723, 35123, 28255, 23504, 44445, 533, 3830, 35510, 22525,
      12985, 41404, 36347, 26173, 23827, 25842, 47986, 20673, 21731, 49439, 44921, 22144, 8027, 3992,
      35970, 13523, 40101, 17950, 9102, 33913, 40236, 15729, 27222, 28106, 34312, 35181, 15668, 3881,
      10796, 4511, 19561, 10991, 36308, 17665, 8284, 43035, 25727, 21971, 26044, 22757, 14432, 9321,
      27158, 4642, 6320, 41565, 36756, 12318, 36144, 27293, 3599, 40304, 36090, 32683, 43565, 34555,
      17745, 3307, 26539, 7282, 30161, 46541, 48611, 20298, 12644, 2407, 45003, 37834, 18728, 5891,
      26883, 22131, 44901, 36094, 28562, 21574, 1810, 18761, 46019, 19179, 41310, 32925, 4076, 8380,
      3577, 6209, 9335, 40466, 32939, 6114, 33939, 20773, 41760, 15377, 29164, 9859, 37191, 40976,
      13394, 44185, 37790, 18953, 3206, 5630, 36030, 41244, 7245, 32735, 32145, 16882, 4112, 22455,
      29656, 20683, 24080, 43138, 25874, 36425, 35776, 15472, 35588, 22218, 43475, 16772, 49521, 34353,
      34094, 29057, 27215, 22212, 31984, 27257, 4959, 12647, 17223, 30222, 5765, 34189, 23814, 9966,
      15624, 43945, 6641, 18946, 46280, 10002, 44639, 16442, 36356, 23397, 47193, 38404, 28793, 25107,
      8131, 39185, 47179, 24767, 18548, 46367, 9438, 36957, 32725, 5028, 14101, 6818, 39547, 49197,
      49303, 32286, 26465, 45909, 17062, 2542, 40569, 47663, 23621, 44933, 47159, 22276, 24365, 15675,
      21685, 12020, 20096, 28874, 33447, 37993, 34120, 3902, 18588, 7061, 9236, 28730, 22189, 42298,
      18901, 26008, 7810, 22940, 40327, 39697, 38276, 19755, 16204, 4367, 19644, 23301, 23901, 11467,
      8990, 28548, 26863, 18168, 41086, 22145, 26437, 11640, 548, 29376, 45695, 17787, 11952, 37818,
      16575, 9319, 33716, 38682, 29236, 29202, 22253, 47739, 16820, 21277, 5008, 33216, 20943, 4297,
      39034, 48603, 47440, 13055, 38181, 7535, 39769, 36115, 33895, 46235, 1799, 37523, 2387, 19418,
      37631, 14322, 20106, 13207, 31500, 6066, 3512, 47681, 11633, 30102, 28539, 25743, 7816, 19014,
      20672, 6695, 45097, 45887, 26913, 2263, 7802, 31753, 41860, 36497, 3260, 29289, 27385, 17229,
      8273, 3871, 39253, 1774, 47171, 14051, 2840, 31949, 41084, 38121, 35383, 8369, 26993, 24805,
      22502, 1511, 31695, 37492, 22242, 36858, 18118, 15376, 48784, 13698, 27825, 48011, 23405, 46680,
      42755, 20191, 40369, 25190, 37395, 22209, 18281, 2303, 49878, 47070, 27494, 11148, 36177, 39875,
      21784, 9669, 46405, 17234, 24667, 2822, 20010, 2246, 20051, 48331, 16220, 11223, 6086, 25173,
      42762, 25801, 1711, 13850, 716, 24175, 35533, 18448, 1369, 1404, 35865, 39304, 4329, 45164,
      42492, 7867, 12979, 42820, 19195, 39680, 46119, 21230, 3657, 47640, 17402, 24241, 24408, 21032,
      8981, 5969, 45894, 36388, 14479, 28088, 2268, 3392, 48330, 11432, 17077, 24680, 18675, 3087,
      38254, 27086, 32267, 46384, 34645, 34297, 1286, 15059, 38906, 41734, 38574, 5538, 17215, 49836,
      39804, 49749, 32362, 22564, 34404, 17754, 46835, 39862, 7501, 9566, 43128, 20522, 42582, 5452,
      704, 14205, 43537, 27463, 48175, 7425, 20765, 25301, 35258, 23564, 40549, 34744, 31922, 46452,
      3549, 1766, 41295, 39293, 41044, 30580, 21291, 37740, 39473, 21548, 13200, 46203, 26568, 46390,
      43846, 43675, 11424, 30917, 29743, 25835, 35629, 30484, 27107, 10375, 25185, 6437, 25741, 27097,
      9665, 18975, 18510, 27326, 40670, 25587, 19336, 18472, 981, 12069, 36025, 5267, 45667, 25822,
      17184, 31661, 42837, 9675, 34147, 45884, 45794, 41995, 22333, 24914, 34549, 42252, 13566, 4866,
      22841, 35200, 40836, 32368, 38205, 17903, 43818, 42170, 49735, 25462, 6584, 35985, 7666, 40442,
      23696, 7188, 28389, 796, 31633, 46963, 42779, 38300, 27685, 26324, 15389, 29684, 39432, 39025,
      16258, 42469, 21706, 26, 19483, 17177, 19355, 17093, 10248, 5700, 43162, 13536, 40655, 4942,
      36223, 12464, 22838, 18615, 15055, 43339, 17974, 15828, 44889, 6472, 37076, 43897, 5526, 17976,
      30832, 1082, 20758, 30183, 35989, 18687, 30201, 19930, 37427, 10596, 6512, 12787, 37889, 47978,
      48435, 35481, 22540, 11143, 3959, 18288, 24644, 43227, 434, 36684, 49499, 25370, 2203, 19829,
      45981, 30041, 6962, 8701, 20151, 47277, 46148, 8753, 27597, 37216, 15174, 11103, 25710, 39130,
      44806, 21762, 39277, 3238, 31559, 7240, 17316, 30668, 27272, 46664, 48765, 11877, 19868, 44658,
      13644, 36852, 38643, 34136, 12210, 30806, 34315, 21649, 39765, 15991, 10712, 7066, 18269, 8545,
      38993, 44853, 1935, 28582, 4899, 10662, 3447, 36053, 33953, 39893, 19405, 42420, 45060, 22595,
      27140, 15402, 30394, 4595, 19362, 41485, 12194, 26714, 25507, 37902, 5142, 15513, 31276, 13347,
      3811, 13123, 2291, 44351, 3603, 13286, 43644, 16040, 1659, 3793, 29022, 17226, 2977, 23792,
      12218, 12274, 24288, 29175, 22751, 19447, 151, 9191, 48167, 41511, 49962, 19017, 11755, 11412,
      6004, 41866, 8159, 48647, 46533, 16212, 27476, 39827, 39215, 32782, 35560, 36566, 27503, 22025,
      41608, 5922, 32400, 47265, 20875, 43340, 26265, 24451, 33948, 6337, 33293, 42618, 2606, 11050,
      39077, 22123, 6414, 7038, 5, 16126, 19547, 40278, 5413, 440, 37806, 45369, 48946, 36000,
      36742, 1938, 9117, 18909, 4870, 22467, 48886, 7975, 17269, 49763, 27460, 28290, 7704, 16891,
      48296, 5069, 27603, 23606, 9408, 24643, 39855, 16449, 49207, 24647, 48666, 29281, 7664, 13119,
      47299, 46137, 33064, 41648, 6457, 14245, 15005, 44977, 27219, 48596, 7181, 24430, 12907, 8302,
      21330, 30593, 25465, 48604, 33523, 3534, 13727, 8384, 22873, 4454, 36740, 25721, 17765, 37937,
      2613, 22560, 41344, 9953, 28522, 17959, 41483, 34351, 49916, 1617, 14219, 12121, 9522, 42480,
      32333, 28988, 24005, 17693, 21442, 26250, 18702, 405, 16603, 4123, 34192, 37150, 8756, 2037,
      24331, 1022, 41103, 7434, 10885, 37014, 16650, 29389, 34119, 40008, 27724, 42634, 38442, 32080,
      46847, 13305, 1263, 8539, 19968, 17435, 21146, 40779, 37491, 47129, 47834, 10845, 395, 16488,
      36075, 9260, 49403, 32099, 25168, 8938, 8950, 43019, 43819, 31133, 48683, 49984, 28475, 26868,
      30193, 17279, 42692, 4250, 12196, 1225, 6408, 21662, 4754, 41180, 6955, 45255, 8619, 40290,
      42433, 43581, 4860, 15442, 47875, 41166, 12165, 41400, 22650, 31514, 29255, 42586, 10419, 32019,
      15467, 45572, 9466, 14568, 18433, 18292, 26284, 20471, 28004, 16489, 24086, 26451, 35556, 13093,
      17564, 17878, 16445, 14557, 44274, 21806, 28069, 36807, 34227, 26580, 21742, 22758, 5967, 34954,
      45099, 10995, 33220, 24687, 23913, 26162, 31335, 3889, 10866, 16980, 29427, 36970, 11055, 5639,
      4849, 3299, 64, 49741, 17932, 13672, 19416, 30755, 34862, 48669, 6182, 15591, 12661, 3856,
      20843, 10223, 39155, 18213, 45482, 39170, 14258, 22222, 15453, 10437, 17868, 15816, 23765, 38866,
      13696, 16462, 21555, 10110, 46844, 16943, 38376, 26251, 28646, 42226, 10440, 9616, 25339, 8660,
      27, 38681, 10967, 20531, 17189, 44685, 10534, 26129, 23235, 36805, 35354, 27313, 43490, 14239,
      42568, 42393, 45273, 5302, 15797, 29527, 14776, 22787, 41955, 46750, 39583, 45191, 29393, 7750,
      10047, 5349, 43826, 36023, 21004, 3454, 362, 39780, 48885, 10753, 13338, 35092, 11167, 15802,
      36080, 43510, 21825, 20557, 41393, 23418, 38046, 21725, 29612, 9808, 16160, 32322, 49892, 1128,
      22, 37877, 33262, 36181, 40720, 11576, 20886, 3980, 15457, 10774, 18547, 44398, 19280, 27408,
      31817, 5310, 14515, 2925, 7450, 25451, 3195, 33055, 47886, 28605, 8050, 4369, 7248, 11213,
      13189, 41137, 20621, 29790, 41030, 26427, 27032, 49724, 39909, 794, 11937, 21219, 27378, 40848,
      6661, 16693, 15225, 11692, 42458, 3042, 27201, 17427, 14604, 9487, 26252, 41742, 7386, 18228,
      48457, 24464, 20434, 21409, 11573, 31340, 11553, 7331, 5271, 33043, 19076, 43362, 6611, 40887,
      30543, 35843, 44035, 42840, 42038, 25130, 34654, 6829, 44676, 34923, 4176, 18620, 2853, 16108,
      14035, 25156, 10346, 16352, 26367, 35568, 10236, 40083, 35221, 28670, 4314, 15051, 18006, 8076,
      42540, 42011, 22266, 43135, 3515, 46808, 28390, 5767, 45305, 29805, 32788, 44170, 21770, 44074,
      11346, 34640, 37330, 21832, 2682, 37781, 3055, 41402, 863, 12582, 33639, 9404, 37919, 42766,
      22480, 6928, 2466, 20600, 25702, 23487, 5375, 20014, 1439, 18095, 13222, 21173, 43888, 39116,
      35667, 25046, 40454, 35797, 32500, 20641, 13665, 44198, 38534, 27009, 23466, 11977, 34890, 2673,
      28484, 29613, 31036, 23489, 46213, 49429, 45240, 19995, 39899, 40319, 48546, 23450, 337, 47748,
      20388, 1942, 27068, 1913, 13898, 8915, 7771, 23401, 21682, 23645, 33902, 34609, 32539, 16417,
      23221, 46138, 1076, 29006, 29811, 5399, 14263, 39179, 16267, 38457, 33357, 39969, 8271, 43630,
      7897, 3199, 41551, 14863, 44810, 27482, 46655, 3324, 26279, 10196, 30924, 3743, 37671, 48518,
      27387, 45813, 28779, 27157, 29665, 39368, 19911, 7440, 29751, 11231, 44926, 997, 24760, 18676,
      25774, 7176, 2124, 22043, 36744, 17116, 10169, 21580, 27407, 36531, 32847, 4561, 18715, 20890,
      11025, 32695, 12683, 29756, 303, 20542, 25459, 41625, 6617, 25167, 23218, 16167, 49302, 14037,
      14974, 49398, 6177, 39137, 30496, 30649, 5400, 42527, 29605, 27153, 15195, 106, 48828, 3404,
      16102, 30215, 37666, 37978, 43181, 6387, 41928, 19455, 35744, 34296, 21348, 30692, 17349, 9854,
      33223, 43007, 23437, 47429, 29742, 45, 9286, 38761, 27289, 15304, 40607, 19441, 1778, 9910,
      23924, 3646, 33268, 12211, 16557, 7865, 42842, 34866, 24911, 10216, 17910, 18240, 13580, 16995,
      8052, 10857, 44166, 43706, 9387, 24220, 18414, 271, 19325, 36820, 28489, 21087, 46999, 16473,
      3736, 40513, 12502, 639, 17946, 37602, 17105, 22007, 32675, 1080, 22058, 41713, 35523, 3212,
      46292, 21494, 15330, 45720, 28440, 45357, 12439, 11464, 5965, 11584, 47951, 8254, 43975, 39980,
      1019, 4096, 45896, 34333, 38582, 7711, 32577, 26924, 6792, 27640, 43110, 48725, 7111, 29722,
      41169, 15779, 31848, 36913, 2395, 23660, 37816, 38917, 39841, 26107, 1780, 7463, 26014, 35447,
      23546, 19056, 48478, 2631, 16738, 42437, 28342, 3591, 39729, 20289, 42596, 47181, 8584, 886,
      9416, 23476, 19192, 2056, 49522, 28176, 18688, 21309, 36818, 49624, 20011, 39667, 48221, 641,
      25475, 5361, 4427, 18280, 45011, 4606, 4429, 42123, 21801, 3774, 17743, 27892, 16600, 47708,
      47311, 11587, 44210, 38947, 13054, 20605, 43729, 20138, 34383, 26898, 36741, 22244, 38336, 44449,
      37263, 34818, 43910, 15203, 48160, 48711, 42813, 34329, 44696, 9815, 29049, 48779, 17156, 26673,
      33097, 10524, 36365, 394, 14662, 21509, 38503, 5004, 19047, 8831, 16101, 38742, 42698, 18413,
      33431, 2057, 40133, 39904, 13775, 49511, 40704, 23946, 49426, 40740, 49645, 6560, 16878, 25322,
      18226, 40937, 45654, 4098, 48963, 40509, 1218, 18672, 1408, 20654, 33741, 11217, 24537, 8204,
      45795, 47817, 16720, 36446, 5681, 13715, 24346, 3201, 31971, 8212, 24021, 4889, 33362, 32210,
      28715, 8108, 2473, 22733, 46684, 44339, 1922, 32250, 17443, 26918, 31668, 4841, 24281, 24855,
      11785, 30383, 28000, 31510, 37906, 25350, 2076, 46402, 20514, 6007, 44650, 17601, 30614, 23211,
      33729, 30921, 46544, 34722, 22705, 6055, 11218, 30121, 1740, 42705, 9814, 28204, 20545, 17729,
      16447, 30482, 12460, 15683, 27002, 25936, 37476, 15245, 46748, 10402, 40686, 3192, 17522, 1454,
      35421, 9492, 44405, 25208, 8253, 43499, 8097, 29888, 3098, 46170, 42147, 25968, 6822, 633,
      31283, 26499, 6961, 12262, 46261, 2940, 40015, 27430, 33800, 47800, 14988, 12906, 35191, 37959,
      42906, 49445, 236, 29541, 29520, 23813, 20553, 15911, 8599, 39720, 26199, 26171, 37252, 38693,
      9745, 24524, 2882, 19589, 41887, 41890, 41488, 41575, 36048, 17326, 17769, 13973, 15861, 34063,
      16350, 44897, 9088, 19726, 39698, 25255, 40256, 17881, 37875, 17131, 22106, 42992, 27915, 41006,
      590, 37177, 32177, 36996, 11881, 6569, 27740, 40366, 7965, 47602, 35904, 15977, 25685, 23940,
      41236, 22187, 31094, 9695, 4316, 4674, 14639, 26598, 8968, 9982, 38193, 21066, 11183, 8266,
      16876, 21683, 11517, 42000, 13880, 824, 8747, 3275, 17996, 29531, 1753, 43736, 14325, 30810,
      42088, 28006, 46924, 4876, 6608, 5423, 45565, 11859, 40533, 23996, 35024, 34512, 16254, 20561,
      21246, 31820, 16042, 26398, 868, 38183, 38361, 23985, 26118, 8078, 29989, 48934, 3280, 48512,
      28525, 47981, 38781, 7140, 13429, 13697, 41184, 36292, 25594, 47065, 48119, 25838, 5079, 35326,
      45223, 1773, 43794, 19798, 40107, 38302, 8520, 9481, 23490, 4473, 34129, 17472, 42263, 43226,
      15748, 7274, 39334, 2016, 1607, 36373, 17942, 37372, 11588, 15660, 31346, 40124, 45715, 43962,
      5443, 32899, 49872, 4643, 38806, 497, 28190, 10528, 3664, 30104, 7433, 28924, 42158, 19207,
      9395, 48890, 32360, 10518, 21423, 38739, 26549, 23925, 763, 2389, 30636, 44326, 31440, 6840,
      34721, 13587, 34617, 27631, 7835, 4820, 21050, 8507, 20504, 6412, 9759, 47013, 14817, 31876,
      43574, 16005, 42297, 15, 21249, 31746, 22796, 3952, 33077, 27956, 40198, 17533, 35285, 28080,
      20617, 2128, 10139, 31145, 722, 45488, 33879, 36355, 17333, 24474, 33405, 24824, 18790, 23130,
      8888, 46897, 26365, 2228, 41191, 21996, 48483, 27609, 7878, 32576, 16038, 36978, 42077, 26467,
      41970, 7377, 2010, 43987, 27690, 10190, 35335, 38086, 30823, 1902, 48588, 24102, 36527, 16347,
      28767, 6047, 18996, 35725, 19310, 42567, 41394, 6907, 9751, 45018, 12312, 18130, 9114, 28457,
      944, 31481, 27399, 47088, 27579, 6984, 42926, 28214, 8062, 43348, 40136, 26058, 8559, 32911,
      37883, 41330, 13786, 34986, 37081, 22658, 37367, 27066, 10204, 10807, 47726, 6765, 31813, 35713,
      25669, 3188, 39911, 8031, 24796, 21380, 30436, 16568, 37996, 36394, 39807, 47637, 26926, 13733,
      13965, 47466, 41158, 9797, 25717, 34010, 22402, 49866, 8463, 3925, 27738, 46121, 8730, 21946,
      1360, 5950, 43747, 8884, 4905, 15256, 48434, 35109, 19748, 39597, 38875, 47053, 528, 43868,
      2369, 12569, 13412, 35399, 11226, 31770, 7715, 5024, 38818, 33071, 36930, 39929, 37304, 4597,
      38980, 9470, 20593, 19171, 41567, 21507, 10652, 44869, 40006, 42573, 16740, 49639, 39572, 3909,
      49052, 18704, 19703, 15919, 2019, 45808, 567, 45742, 48446, 48069, 4486, 14404, 30279, 40612,
      23871, 43555, 44106, 35338, 25298, 25551, 11278, 13526, 28133, 47058, 11802, 24146, 15909, 36051,
      7257, 41753, 6574, 32668, 7803, 24686, 2526, 24187, 28391, 31704, 32269, 32926, 46395, 34828,
      33649, 14063, 27883, 33044, 666, 15739, 21343, 23434, 24709, 6762, 6615, 22441, 37570, 41481,
      6299, 4179, 22889, 1832, 37884, 40716, 11519, 2058, 44994, 29674, 36533, 21303, 44508, 14690,
      29986, 12823, 27621, 17866, 48036, 14732, 23016, 38257, 40073, 13397, 7549, 24945, 18932, 49296,
      642, 49382, 48651, 19853, 11043, 38058, 20448, 4781, 18242, 6579, 45090, 36491, 34168, 19739,
      33289, 24243, 4030, 13027, 49840, 49591, 13056, 10060, 36776, 39690, 12812, 39440, 14455, 45583,
      48719, 33909, 17256, 9630, 6336, 45263, 4231, 22959, 306, 9945, 18660, 48663, 19479, 1924,
      20102, 46421, 31098, 24016, 49366, 22203, 27920, 37966, 4301, 20754, 28109, 43146, 39409, 22320,
      10456, 260, 28490, 41790, 25772, 1091, 6931, 21033, 26785, 30955, 23465, 23526, 25409, 7292,
      41143, 25474, 13463, 35185, 43647, 4676, 2921, 35577, 35017, 15419, 39416, 28768, 2459, 47427,
      10547, 8621, 11158, 45982, 41717, 49720, 30262, 29529, 36282, 5487, 3338, 49125, 27584, 6060,
      17776, 37116, 3841, 7470, 3691, 22151, 15290, 4395, 34607, 12186, 35136, 19394, 23142, 3339,
      5212, 39377, 38657, 18040, 35396, 48254, 10903, 46731, 1999, 36649, 14434, 16965, 20599, 31171,
      38081, 27898, 23608, 22488, 25198, 48560, 3465, 39421, 10363, 44930, 28180, 33522, 23903, 443,
      33740, 11652, 33593, 47399, 12204, 13142, 25976, 46727, 38856, 32175, 10529, 19095, 16191, 36210,
      6820, 39920, 43984, 35105, 21256, 3066, 33387, 41345, 20293, 29158, 49576, 18907, 49784, 1934,
      49732, 4694, 7741, 33637, 8272, 27278, 13942, 36007, 25037, 27498, 36534, 815, 46487, 1049,
      40404, 30164, 24373, 26562, 16020, 35079, 23453, 46040, 4617, 908, 17488, 18677, 3535, 10033,
      7273, 5651, 30472, 14866, 33525, 39107, 20505, 947, 15100, 8303, 1701, 48847, 31457, 56,
      730, 33746, 16979, 29782, 43970, 22578, 31126, 18781, 4960, 46359, 37132, 28242, 38397, 39917,
      32470, 29764, 46601, 31688, 23246, 46437, 47952, 1614, 16292, 30175, 41128, 25360, 6764, 27467,
      2366, 14235, 44038, 30204, 46598, 3996, 9488, 29489, 3679, 17997, 19323, 28415, 28682, 17993,
      46438, 21354, 46755, 9862, 22485, 5608, 11552, 29203, 36700, 46232, 36572, 24496, 22870, 44143,
      20133, 2160, 15768, 32692, 10489, 48610, 48901, 4830, 7694, 48661, 7145, 15025, 29119, 40820,
      27873, 26179, 2340, 25765, 2913, 27453, 42150, 41001, 32283, 46080, 26974, 9394, 7207, 38697,
      49897, 35245, 25058, 41733, 20942, 35051, 7904, 45908, 36903, 6021, 33894, 44224, 20246, 1669,
      48955, 38136, 8176, 33706, 5624, 41405, 20282, 7919, 45800, 31499, 16863, 34364, 4861, 45061,
      38824, 10985, 29829, 10679, 25857, 39906, 38637, 11805, 48594, 9649, 22099, 16259, 18170, 7820,
      49738, 45363, 22102, 15008, 39644, 9415, 40808, 33651, 32747, 25143, 8798, 11741, 46874, 46306,
      37687, 15619, 25816, 8933, 18361, 41953, 16206, 10336, 30552, 34928, 24204, 33758, 2654, 21818,
      47747, 46977, 27897, 1137, 12974, 11596, 510, 10129, 49178, 49175, 9243, 48353, 33607, 37389,
      30666, 46365, 30203, 36725, 4839, 37657, 21446, 18013, 21224, 38151, 30226, 33910, 28039, 6189,
      7432, 11920, 40213, 9228, 21845, 24240, 37924, 18185, 21140, 14456, 37117, 6929, 33298, 9732,
      39289, 1919, 44335, 40210, 31912, 1949, 30540, 40849, 46972, 32126, 32017, 2365, 12314, 21175,
      11698, 48770, 22725, 27452, 33615, 2377, 15141, 25653, 24278, 49610, 14551, 1903, 22597, 39962,
      44206, 12294, 42233, 3060, 20243, 16672, 15531, 47324, 582, 21071, 39249, 11471, 7035, 48147,
      34728, 34948, 42036, 40318, 10327, 21101, 26997, 42555, 19154, 38829, 16065, 6163, 9471, 12511,
      33529, 26783, 13584, 34319, 16569, 48433, 18740, 20446, 1652, 1415, 17198, 47405, 39166, 10355,
      40135, 7614, 4327, 15021, 8776, 31887, 31749, 21183, 44094, 38245, 33333, 6630, 23764, 35886,
      39839, 29348, 16788, 6805, 13546, 13176, 13470, 41457, 12846, 14246, 40365, 35224, 25207, 39870,
      10523, 14669, 15295, 46346, 39456, 40425, 2552, 25714, 15932, 34433, 25102, 20221, 22829, 41610,
      26666, 12877, 42917, 9032, 34579, 20927, 36295, 27209, 4295, 33370, 12300, 3259, 49451, 32499,
      21424, 10360, 41763, 31403, 19659, 26909, 48752, 17182, 17300, 14167, 49275, 21795, 20312, 45159,
      13476, 6107, 49621, 16427, 39114, 15250, 21353, 49538, 39948, 42689, 34875, 44107, 32356, 33642,
      6877, 49033, 43075, 1626, 32875, 15957, 33744, 29410, 36587, 18886, 3536, 15701, 5193, 17563,
      1018, 48019, 18727, 22185, 2400, 4646, 16484, 26651, 21809, 33717, 29072, 910, 27567, 5002,
      5674, 24908, 21988, 30866, 15003, 11419, 32274, 12239, 48697, 22082, 16705, 46001, 16558, 32009,
      45492, 24785, 7254, 29454, 44021, 30669, 4359, 24563, 40478, 33826, 21612, 45521, 39540, 26483,
      1816, 14497, 31969, 47257, 41162, 49043, 30763, 36234, 47282, 29323, 27195, 37888, 26415, 5239,
      24673, 35272, 21516, 49753, 27018, 25230, 31194, 34185, 15186, 10858, 21282, 36845, 21740, 40471,
      42309, 24028, 12521, 8437, 14610, 40239, 39747, 16479, 22075, 2611, 24795, 29802, 36923, 23804,
      27676, 41737, 27109, 5703, 24509, 10164, 46420, 23126, 8851, 39447, 31736, 4791, 45830, 26490,
      24469, 319, 9432, 10567, 27913, 5913, 47419, 39607, 7232, 30216, 45828, 9004, 10170, 5790,
      32599, 16997, 49818, 42369, 20738, 5806, 6158, 1860, 47377, 5430, 10302, 41181, 39700, 38642,
      19043, 23880, 47791, 44670, 18643, 3464, 42315, 47108, 49782, 30868, 12529, 7043, 34293, 13864,
      23259, 27268, 43738, 6057, 36724, 7210, 23402, 28467, 43011, 22072, 12468, 10184, 38828, 51,
      13782, 6718, 37097, 38447, 7147, 10537, 10510, 7444, 28208, 42541, 8554, 10220, 41845, 13454,
      3823, 43629, 38108, 23446, 41188, 40182, 31269, 7971, 42053, 15447, 3869, 41397, 26519, 39275,
      35361, 21827, 29069, 20796, 31323, 8484, 21034, 6050, 32670, 14298, 25544, 9705, 10265, 46679,
      20598, 30898, 10564, 3598, 13410, 46583, 38164, 6200, 45707, 15595, 2999, 4746, 46211, 9552,
      40641, 31127, 15765, 38459, 28020, 49611, 48565, 20725, 3017, 7631, 39084, 24882, 36843, 16360,
      48867, 6487, 12961, 39157, 36263, 2419, 39014, 14713, 1485, 49748, 24036, 27974, 5988, 4267,
      23052, 17059, 49860, 16407, 32844, 16924, 35814, 2036, 3065, 30048, 21781, 45477, 23482, 46537,
      45835, 1041, 25568, 47555, 25989, 16498, 37018, 34269, 36621, 5813, 48614, 15367, 47258, 29090,
      36366, 31159, 34248, 39344, 7410, 15536, 44651, 16078, 32849, 29263, 47888, 22703, 13453, 37805,
      27360, 29677, 43300, 30953, 13080, 45169, 39260, 27180, 18164, 39565, 36157, 28878, 3822, 28371,
      38362, 29058, 11244, 6683, 46744, 10247, 37812, 38809, 3838, 6351, 35999, 33356, 14340, 18298,
      12771, 29881, 634, 21957, 24174, 40682, 16991, 24260, 46431, 40112, 36047, 9066, 19199, 15611,
      4923, 17110, 48839, 2347, 49563, 32442, 40270, 14294, 44540, 23092, 35801, 18812, 20012, 5289,
      17732, 11966, 24879, 23447, 26844, 31738, 31589, 12026, 27759, 8562, 34386, 29714, 7045, 35053,
      4274, 48628, 21695, 10411, 45614, 1950, 21213, 10928, 43580, 41314, 21975, 33836, 20044, 18961,
      39670, 31815, 18854, 2274, 11159, 12938, 34033, 12386, 22993, 35613, 19422, 28979, 22080, 47360,
      43625, 47582, 24741, 347, 2260, 6277, 591, 49825, 25146, 17861, 24756, 8744, 35050, 19346,
      15487, 11019, 255, 15945, 28488, 7283, 12970, 32015, 1421, 46739, 20897, 27207, 16491, 20101,
      23086, 16800, 46500, 246, 40648, 15066, 46692, 30776, 14676, 14193, 29655, 8775, 17667, 37374,
      45642, 16116, 23949, 48348, 32807, 14179, 26091, 21143, 28084, 39427, 42382, 28013, 27144, 16455,
      43624, 19928, 19251, 12634, 16958, 34283, 37338, 12888, 28546, 13563, 34937, 36665, 47036, 28026,
      35497, 42720, 32370, 33182, 7887, 22770, 17045, 5067, 11268, 6333, 46028, 26470, 5932, 36648,
      29873, 8065, 8060, 49559, 32761, 18171, 42908, 36, 24151, 36955, 41922, 11825, 17939, 11721,
      7252, 6398, 28555, 7692, 30505, 23243, 20092, 44479, 15858, 49838, 41479, 22159, 41122, 29960,
      5036, 23457, 14688, 12012, 2696, 26718, 17591, 1746, 43643, 23644, 33481, 9244, 20422, 44985,
      27981, 44972, 36723, 7494, 29928, 36196, 18891, 37449, 10686, 4747, 32314, 6302, 31357, 5492,
      17535, 12807, 26246, 27801, 18193, 34525, 24059, 49063, 25378, 32642, 25060, 22820, 21378, 38596,
      10638, 45764, 19340, 25921, 7351, 41383, 24561, 17634, 41349, 45437, 29693, 11572, 8991, 42559,
      37629, 10844, 6908, 25294, 13491, 4858, 28757, 47890, 8250, 1257, 6680, 8930, 7641, 33038,
      35590, 1973, 49625, 13628, 14633, 16651, 40812, 2770, 2329, 42912, 38703, 41491, 27659, 45516,
      15439, 7991, 40259, 30985, 1894, 41665, 16702, 17920, 17855, 49199, 25965, 38412, 17572, 22304,
      17274, 21381, 20234, 23767, 19871, 6044, 15052, 42189, 19184, 49086, 30653, 40595, 25905, 5392,
      39036, 38203, 38868, 42290, 47709, 46351, 49801, 29495, 9609, 9308, 40103, 42769, 28351, 20951,
      562, 10208, 1031, 22149, 42349, 11894, 17206, 7058, 10599, 37145, 11803, 48347, 442, 10588,
      30098, 31414, 48367, 17629, 46722, 27742, 34017, 44438, 4276, 11322, 48375, 45413, 10057, 27746,
      27315, 29362, 32543, 45190, 42190, 29882, 13751, 5497, 7044, 29317, 18738, 39913, 28393, 5097,
      21711, 45016, 17818, 12380, 14588, 30531, 13311, 4541, 47482, 42734, 22731, 46009, 22115, 23416,
      27353, 27258, 17821, 22462, 7960, 14440, 14986, 21076, 44666, 12696, 48662, 47829, 39628, 32833,
      42428, 43903, 48240, 47302, 8656, 12714, 35343, 19249, 43534, 5113, 22409, 37699, 23274, 28231,
      7512, 33099, 13273, 20202, 25395, 47488, 16059, 73, 1843, 33538, 11228, 45941, 17669, 9436,
      43795, 28879, 39460, 18325, 37621, 19781, 13406, 12150, 5938, 28207, 28451, 21448, 5745, 4027,
      48504, 17500, 8974, 38665, 21326, 36731, 3937, 20437, 17494, 4414, 40087, 48208, 26401, 3146,
      42505, 46416, 7507, 38960, 9990, 3514, 44103, 42671, 19476, 47142, 31235, 33971, 36163, 9411,
      5255, 38725, 26624, 15678, 41147, 10046, 1055, 16978, 33528, 1525, 20043, 46025, 22208, 5154,
      14126, 28900, 5664, 1806, 42081, 17145, 29958, 47769, 2970, 42478, 29550, 16465, 493, 25108,
      10482, 28523, 32767, 6026, 23365, 30151, 30844, 45450, 27475, 22689, 1384, 26771, 20895, 27414,
      23241, 21737, 49995, 23070, 32705, 35318, 28799, 46118, 2722, 10979, 20108, 17648, 21251, 14925,
      29176, 46459, 12563, 33583, 36787, 7607, 25848, 36855, 22748, 30346, 31389, 47365, 14547, 23800,
      9046, 43762, 42209, 3970, 28161, 6922, 660, 41293, 31645, 25128, 17502, 17671, 45103, 7358,
      17801, 28991, 27167, 41010, 39181, 34229, 2409, 296, 32244, 18296, 7548, 7942, 17529, 41936,
      5789, 48618, 29405, 43974, 47557, 6553, 45150, 37533, 29181, 41164, 20534, 26411, 38492, 49780,
      9638, 30428, 13795, 44153, 8381, 39336, 2886, 1883, 4190, 39402, 48065, 37118, 30565, 25218,
      16375, 7630, 4761, 2723, 9884, 40191, 16877, 20637, 23212, 34231, 496, 4008, 35055, 18582,
      8655, 11982, 33212, 28798, 31250, 8630, 33440, 25595, 34262, 40788, 38029, 36519, 2670, 17140,
      2083, 32848, 48454, 22923, 26972, 46089, 6572, 14166, 33305, 13407, 21040, 33414, 41516, 12482,
      18570, 35877, 47270, 23131, 27126, 9624, 24399, 47490, 8107, 30846, 8524, 35798, 2102, 8498,
      15522, 36659, 42442, 22414, 1995, 27528, 47513, 19814, 21676, 24435, 28834, 48438, 4925, 37743,
      30820, 23697, 9422, 2978, 3573, 7372, 2590, 4578, 1115, 3088, 3466, 4261, 19333, 44885,
      23555, 42558, 23772, 5229, 13262, 21392, 39407, 21767, 14961, 49109, 25411, 14481, 7025, 28873,
      799, 43428, 41851, 427, 17129, 40526, 11882, 27114, 14184, 1391, 40930, 46120, 49191, 11498,
      7634, 43190, 19515, 30990, 43057, 33000, 31017, 28460, 33158, 41706, 40321, 39218, 7423, 47226,
      49183, 4023, 38137, 23869, 40258, 18125, 39578, 6884, 12288, 29374, 17573, 7902, 23123, 43332,
      10051, 3883, 37180, 2314, 12834, 10315, 18402, 39784, 9894, 4833, 23057, 34783, 29886, 13418,
      3424, 29754, 1892, 28702, 20704, 9617, 5947, 29414, 49002, 21346, 8209, 797, 34651, 22174,
      18756, 24395, 33966, 42667, 35561, 39538, 22551, 20478, 38031, 45127, 21942, 13765, 49142, 28506,
      19689, 37123, 45584, 25019, 17152, 29204, 49448, 34188, 37973, 1234, 43037, 18093, 47044, 9255,
      35096, 48479, 37001, 684, 23202, 24134, 21604, 20169, 39658, 38562, 8953, 44201, 25135, 29717,
      33205, 44573, 26380, 31218, 15926, 39199, 8625, 25104, 19142, 31740, 16571, 40744, 34060, 7855,
      48142, 33359, 21573, 37905, 14780, 10584, 26797, 34108, 16165, 10715, 25854, 45439, 31368, 36427,
      15608, 47452, 13248, 9001, 1212, 4979, 37656, 34241, 18344, 31153, 24754, 32375, 29657, 43670,
      43270, 14123, 38669, 1095, 21019, 14738, 13882, 19924, 38644, 39787, 18767, 7041, 49859, 1160,
      15445, 46096, 43853, 38070, 2768, 34341, 27073, 21468, 3951, 40780, 8095, 36135, 47815, 13435,
      20300, 20156, 21868, 22465, 49330, 29765, 48968, 11542, 26462, 17007, 8009, 31541, 41999, 49865,
      30413, 19464, 37763, 49336, 22515, 14439, 17165, 20054, 24154, 30285, 33868, 26707, 4576, 3235,
      20569, 42612, 4722, 28584, 20622, 42205, 38034, 7032, 38619, 329, 41369, 37290, 44145, 33617,
      33126, 25117, 7399, 18594, 29250, 19586, 5607, 48707, 3148, 34052, 8606, 19977, 49705, 25463,
      209, 3271, 37485, 1004, 19743, 45194, 13518, 10532, 27457, 28760, 11525, 45213, 31824, 6212,
      42373, 36310, 4102, 33021, 44037, 49887, 9340, 18526, 42866, 6403, 12043, 7632, 1728, 18055,
      1868, 41859, 14677, 31476, 11441, 1971, 47627, 20067, 15588, 694, 22113, 12047, 25737, 17973,
      37820, 35052, 43364, 32349, 25574, 35862, 34445, 2114, 3629, 18657, 27703, 49389, 11292, 37809,
      40961, 36331, 40737, 19669, 29048, 39080, 26372, 27916, 42141, 17040, 39452, 47309, 46780, 46974,
      2484, 46771, 28072, 44325, 38735, 38910, 29455, 25745, 3409, 21159, 45556, 10745, 7192, 26617,
      386, 33927, 14674, 15185, 37552, 7953, 47624, 8118, 4299, 40560, 24783, 12076, 20472, 11179,
      37136, 5914, 46273, 38165, 35476, 16480, 28083, 3130, 8015, 27050, 6780, 6618, 35395, 20157,
      10559, 35007, 20047, 27657, 33312, 9399, 11219, 43520, 35157, 37029, 9784, 33822, 20256, 27206,
      29732, 16226, 49920, 5591, 46262, 49829, 19285, 37036, 14746, 49768, 632, 43440, 4535, 29849,
      22353, 12674, 35165, 31205, 36952, 25467, 2576, 35141, 1756, 47012, 45224, 44321, 43885, 37138,
      45635, 49737, 22024, 11236, 25385, 25671, 35283, 27007, 37030, 43595, 9663, 16799, 15150, 38546,
      23572, 40931, 36463, 17094, 897, 11720, 37271, 38641, 47146, 25825, 44086, 34263, 41502, 690,
      36859, 44949, 35656, 40014, 37696, 19517, 5206, 47644, 17790, 36087, 3574, 916, 16911, 22727,
      43782, 23039, 31285, 19203, 11136, 45295, 48760, 29892, 39032, 19396, 33697, 12419, 4019, 27079,
      24188, 22491, 27588, 15456, 17158, 43660, 18015, 39197, 6806, 31212, 35518, 45044, 16450, 23671,
      30276, 39159, 26508, 25567, 30316, 598, 20946, 4001, 49240, 42853, 42337, 38440, 38985, 41530,
      15471, 37848, 36943, 42430, 42484, 11036, 11936, 39936, 34214, 11109, 42483, 9611, 29669, 20812,
      43411, 14379, 2837, 41843, 20141, 3218, 28149, 11324, 26355, 22331, 43678, 11530, 4695, 42550,
      23778, 5241, 11545, 12500, 7338, 7396, 39574, 49387, 25428, 4482, 47947, 47519, 30960, 37251,
      43807, 9180, 13411, 47485, 11906, 37376, 27115, 18617, 18722, 44167, 17430, 45986, 42094, 47939,
      15120, 12878, 9475, 1074, 14260, 41716, 26855, 33545, 47416, 45761, 26224, 43718, 9386, 43556,
      26880, 40662, 12598, 6083, 25689, 40787, 38658, 44955, 9187, 38773, 565, 20502, 5899, 43796,
      31568, 13873, 840, 36656, 9834, 43756, 43993, 32530, 25039, 35434, 26548, 40375, 12334, 44319,
      9341, 12975, 36860, 31615, 765, 47792, 41578, 41265, 46162, 47892, 37633, 43806, 2620, 43317,
      42264, 39477, 35794, 17288, 36870, 17682, 20125, 15831, 34790, 18232, 9385, 35453, 46936, 32839,
      33793, 12751, 25788, 25034, 30344, 30652, 13908, 33957, 23207, 44830, 26020, 31587, 3499, 47560,
      41274, 35477, 19116, 20601, 4242, 20344, 45881, 1359, 12931, 31533, 26148, 17263, 34346, 23957,
      1509, 12780, 36880, 43334, 1845, 27939, 12243, 7838, 6963, 27610, 46460, 29318, 13769, 15700,
      20284, 12002, 4332, 29672, 14367, 11678, 41416, 10251, 25818, 36382, 29369, 2108, 12501, 10778,
      28466, 7773, 40615, 3644, 30171, 38091, 11351, 36951, 45514, 48205, 48503, 43282, 636, 8983,
      16630, 22666, 4512, 1193, 32813, 17360, 32305, 42743, 13866, 6786, 2963, 21947, 9776, 22076,
      4515, 9581, 14267, 3216, 34743, 37297, 2460, 32746, 18066, 39657, 33257, 33439, 40221, 41528,
      26623, 30788, 43817, 4151, 432, 5167, 23984, 34600, 26016, 47744, 12697, 37, 32544, 33024,
      32140, 20372, 47075, 40677, 37361, 713, 559, 48129, 37089, 35103, 13091, 37305, 12612, 46803,
      6131, 25457, 39770, 30382, 13092, 32542, 26325, 20684, 40227, 18890, 24714, 28812, 18964, 24815,
      13017, 13879, 3747, 11600, 1597, 44292, 20874, 30677, 40121, 14080, 24312, 9372, 49480, 22391,
      4302, 35774, 22694, 45122, 13285, 48903, 28439, 7523, 38598, 48798, 42040, 1559, 13313, 13528,
      25017, 19317, 7928, 2107, 30363, 31262, 42135, 38216, 19465, 47451, 30624, 10447, 12561, 15863,
      13936, 7939, 16105, 44150, 19797, 40119, 42887, 17290, 46187, 760, 19502, 33754, 26867, 33092,
      30563, 17064, 35365, 16679, 30712, 30177, 11735, 1785, 4382, 21702, 44722, 9476, 4893, 22117,
      12646, 15321, 43780, 29480, 22211, 15234, 17254, 7407, 21692, 18101, 2648, 2586, 25287, 29381,
      19544, 11009, 35950, 31042, 11672, 37571, 4218, 38460, 9795, 30697, 31075, 12779, 26999, 9371,
      20140, 7378, 48045, 1754, 148, 25362, 45666, 38140, 44861, 15545, 34381, 5829, 3770, 28343,
      48156, 2015, 5192, 48872, 45606, 38524, 33371, 38097, 45373, 865, 43665, 23396, 41847, 4477,
      47660, 45661, 16865, 32885, 37598, 4507, 5344, 21586, 352, 4460, 17157, 44584, 3873, 179,
      12638, 24544, 26754, 21177, 7436, 41361, 5958, 14110, 34568, 364, 14648, 15082, 32031, 6038,
      8221, 49092, 13895, 32345, 2801, 41482, 35690, 47092, 12856, 48794, 24853, 1245, 22745, 20921,
      13746, 30615, 36821, 38699, 3239, 32876, 43322, 16150, 31100, 41834, 14728, 18158, 45793, 6475,
      11319, 41341, 22228, 36302, 4394, 22257, 48029, 23195, 20774, 20732, 3567, 40257, 47448, 42465,
      25734, 21534, 11317, 38262, 47368, 17357, 37067, 38640, 37606, 23761, 19420, 1789, 13739, 13662,
      39963, 32383, 25651, 29256, 40706, 9230, 39098, 10, 10839, 38636, 8855, 17810, 1403, 47136,
      43944, 44786, 31958, 10585, 40946, 44270, 2431, 8515, 34112, 22620, 372, 909, 14915, 46274,
      44669, 2402, 32161, 28743, 11662, 21686, 39534, 11415, 34012, 1195, 35758, 29902, 15704, 256,
      16365, 8205, 1409, 49766, 20061, 4725, 46528, 24722, 25192, 48416, 29508, 10055, 28952, 42061,
      4784, 13663, 7522, 9304, 15870, 1725, 43268, 46480, 21823, 21514, 5912, 24843, 46057, 13886,
      41729, 38379, 22891, 25964, 46955, 42919, 1379, 7689, 3688, 28287, 22258, 28067, 10435, 34413,
      15659, 36558, 16182, 652, 49101, 24256, 3621, 5328, 7219, 47102, 40598, 11162, 12, 6152,
      11663, 2810, 26902, 49194, 35457, 11161, 43014, 30628, 41592, 12363, 47702, 1506, 37134, 29047,
      34898, 41651, 34416, 21274, 15928, 6766, 38374, 36912, 48675, 21605, 19093, 41946, 22286, 49930,
      14963, 20460, 48321, 48424, 34311, 12120, 19510, 3414, 22369, 14408, 32583, 32800, 7187, 27713,
      44168, 12213, 43781, 22684, 17323, 18680, 17325, 30783, 8749, 33513, 4083, 21774, 27846, 21966,
      35645, 49595, 2651, 38142, 21329, 22030, 11595, 18205, 1312, 560, 7146, 33725, 34878, 37876,
      39994, 31759, 5387, 47692, 49053, 13535, 47949, 45678, 11197, 40916, 10391, 19344, 37408, 35167,
      7310, 17276, 7737, 25557, 9597, 36617, 35393, 33012, 11340, 30418, 30807, 3346, 19257, 15835,
      41705, 28261, 8959, 32584, 19971, 43980, 49421, 28876, 23178, 39419, 4947, 8627, 16218, 9967,
      49934, 93, 21550, 28583, 28314, 39939, 6791, 27757, 49911, 41154, 13450, 45100, 16331, 42503,
      1885, 46775, 12786, 5773, 40430, 20707, 30160, 2, 16091, 2759, 45010, 27928, 26013, 9425,
      27775, 3175, 26425, 11294, 16304, 35233, 30958, 14274, 47828, 25025, 47529, 2511, 15248, 44754,
      4491, 36389, 2317, 7086, 18569, 37245, 10082, 1155, 2486, 16713, 41633, 26728, 22948, 35995,
      19381, 19551, 13541, 4392, 47097, 42617, 18847, 43145, 19230, 8872, 23970, 8859, 32328, 34959,
      9921, 6668, 13358, 18454, 23977, 22686, 12818, 38677, 40606, 31385, 34502, 38015, 40088, 20431,
      42796, 43093, 31472, 38066, 18706, 37008, 40904, 10095, 13934, 27331, 16205, 41315, 7612, 23286,
      11934, 21618, 19656, 10141, 21657, 46417, 2889, 30897, 43558, 788, 10131, 19731, 24874, 43548,
      25738, 19569, 36169, 40541, 22580, 24078, 48945, 36145, 33351, 9972, 43695, 28363, 25705, 44771,
      32449, 16733, 40678, 41709, 19733, 801, 43022, 30984, 11650, 25368, 17273, 37941, 39267, 42819,
      27940, 43432, 17352, 28618, 18320, 32222, 40477, 6853, 35524, 6458, 29388, 14855, 12809, 13806,
      18000, 39710, 48912, 34938, 37855, 36490, 8077, 2956, 42412, 32112, 16016, 45913, 38383, 10974,
      49247, 13444, 13824, 10067, 28341, 26940, 35169, 12397, 39291, 29217, 15702, 49203, 41254, 32060,
      11139, 26382, 47801, 23296, 18385, 34470, 38409, 29521, 45012, 33892, 37289, 818, 27599, 7764,
      7727, 43685, 9735, 21923, 18595, 20493, 35901, 37032, 15329, 7972, 4677, 19131, 22322, 45610,
      44784, 25761, 16246, 28549, 4331, 39830, 4663, 42863, 27862, 6696, 35135, 11157, 9721, 13928,
      5956, 16142, 47967, 37563, 18824, 12884, 15401, 31113, 34258, 18976, 36015, 6849, 1425, 34764,
      11864, 35459, 28708, 41924, 31639, 47305, 6843, 32275, 28225, 8572, 10813, 35029, 40816, 3196,
      26613, 47201, 486, 370, 21376, 33551, 44655, 27654, 6382, 47094, 15407, 8837, 30408, 19622,
      16682, 17257, 30869, 34815, 32872, 24003, 43708, 13266, 38452, 23112, 30336, 3632, 16493, 15893,
      11656, 18522, 16691, 40989, 25318, 12663, 669, 15184, 41380, 32873, 23161, 49067, 44457, 34207,
      29097, 11039, 15775, 20317, 39465, 22958, 37579, 41881, 3258, 34076, 29990, 13877, 48734, 40100,
      34332, 25762, 33714, 11760, 30031, 43992, 39349, 17615, 35771, 24599, 11978, 19747, 38157, 12055,
      44034, 34077, 11345, 19859, 31115, 2196, 4566, 24124, 31891, 36737, 35282, 21248, 31095, 12577,
      15754, 43928, 22611, 22375, 8791, 28264, 46865, 12881, 20369, 21390, 11249, 9777, 5257, 25179,
      46208, 13932, 5322, 11586, 29482, 49759, 45792, 36069, 48131, 23227, 12041, 38174, 26751, 33480,
      5783, 4409, 11688, 38688, 44494, 38179, 5574, 16934, 35825, 36009, 31498, 44610, 45204, 43381,
      8493, 47549, 19648, 44538, 32471, 18482, 23385, 45510, 40060, 49580, 36439, 49399, 37909, 20800,
      26872, 10394, 47247, 2934, 10794, 4311, 14691, 39365, 21371, 26986, 1353, 12489, 21217, 5752,
      43163, 37066, 46584, 24406, 16440, 3412, 10416, 19239, 400, 35754, 16043, 39373, 21182, 30255,
      25570, 26205, 4846, 24386, 12664, 6554, 29401, 43209, 38549, 19657, 597, 1102, 7233, 42401,
      31106, 519, 34523, 37276, 34131, 40719, 5263, 33837, 8419, 17463, 47393, 26784, 22995, 24230,
      32694, 665, 31320, 47727, 13796, 44995, 29171, 25605, 34467, 28419, 18261, 43532, 23704, 47010,
      23184, 37684, 7065, 49193, 2979, 16988, 13750, 6861, 8168, 18897, 32450, 8128, 29011, 16475,
      20229, 27250, 38014, 39709, 36664, 49796, 17733, 34489, 38674, 36545, 15210, 15722, 44023, 4050,
      33382, 13894, 40473, 16956, 19965, 39873, 6372, 7244, 5062, 36370, 22139, 27563, 15764, 23332,
      40524, 41452, 25596, 16412, 26442, 10086, 26145, 30794, 19768, 10766, 25958, 22401, 35724, 7869,
      29823, 5409, 25995, 40288, 37207, 45341, 37458, 34326, 10892, 35256, 3291, 18147, 36291, 37310,
      15371, 3400, 47734, 17350, 2272, 18758, 14429, 45855, 33001, 35454, 30598, 25112, 9843, 16676,
      27412, 44635, 46531, 11392, 19254, 17261, 29510, 27785, 9964, 10635, 32624, 42532, 13231, 2739,
      13201, 21263, 4357, 28754, 19775, 6642, 10420, 20802, 37415, 27937, 17070, 20968, 17221, 8458,
      5791, 26582, 1726, 39139, 18608, 48750, 19563, 42587, 37375, 43420, 45188, 48621, 1067, 40048,
      23763, 24485, 11258, 10940, 16006, 23351, 28205, 38934, 6461, 19445, 889, 33734, 10481, 5153,
      34731, 27701, 9850, 12062, 14496, 25703, 1909, 15690, 8353, 39601, 47909, 4134, 2738, 2835,
      26119, 7213, 40373, 33743, 35036, 36538, 42139, 132, 33349, 9716, 33161, 22942, 29565, 30815,
      46476, 47238, 20661, 8183, 46059, 20595, 49463, 24811, 37381, 16607, 17358, 8593, 27750, 41331,
      20393, 10150, 22606, 20982, 19787, 19899, 47096, 4712, 35676, 43874, 45441, 8071, 11767, 18807,
      15890, 38032, 38931, 19932, 24829, 21360, 23932, 5481, 49048, 23958, 6895, 21885, 27885, 49202,
      18768, 35418, 17459, 49893, 47326, 8789, 3190, 25708, 3650, 41322, 20454, 38744, 3370, 33435,
      20842, 44372, 1764, 46471, 43077, 48926, 33782, 46605, 15629, 28527, 7903, 28615, 13334, 18120,
      14692, 11539, 17952, 17127, 20378, 26555, 28955, 8817, 25692, 6284, 6273, 8536, 15651, 30028,
      12641, 47474, 24665, 20719, 45181, 37094, 4662, 21498, 31359, 8587, 13306, 32959, 21596, 3641,
      26336, 15799, 48475, 21, 36486, 32563, 35670, 36074, 41308, 5534, 44701, 19276, 33547, 15235,
      36981, 43038, 22912, 36199, 17207, 46754, 26841, 41264, 36390, 4259, 37493, 1469, 13322, 42306,
      25496, 41329, 45275, 8424, 368, 47911, 31021, 13112, 9491, 16448, 30348, 11384, 20594, 36613,
      11017, 21700, 18105, 33172, 36828, 49798, 10683, 34592, 10972, 49186, 36526, 3232, 18302, 31467,
      7246, 28511, 1831, 1242, 44122, 25735, 41566, 4656, 43700, 28906, 8998, 46634, 32737, 41111,
      47781, 42411, 7490, 18161, 14772, 42307, 1777, 39287, 24161, 32312, 15111, 11133, 13072, 46934,
      1823, 31008, 23027, 22784, 19935, 47796, 40039, 21630, 29294, 14779, 16117, 43386, 12470, 16619,
      737, 16608, 3293, 33146, 46945, 23290, 3845, 28469, 29441, 44307, 13777, 49420, 45729, 22301,
      37792, 12270, 1658, 32980, 23698, 20803, 1214, 21577, 15898, 15762, 14195, 33560, 42312, 49900,
      49289, 37266, 9505, 2413, 34492, 27398, 32214, 834, 9063, 9455, 48643, 12537, 13163, 29506,
      33988, 22936, 5609, 11907, 4581, 15089, 10292, 9677, 2523, 31933, 48459, 19462, 29409, 40228,
      25881, 4782, 30782, 19558, 31047, 4381, 38192, 33760, 14435, 7642, 39220, 18549, 32391, 49774,
      20187, 35281, 47526, 43394, 10618, 26739, 45352, 7637, 6854, 10619, 1386, 47031, 21323, 555,
      18705, 16704, 35863, 3285, 9930, 9166, 7847, 1313, 26469, 20343, 11095, 40218, 27909, 38231,
      14706, 32069, 37840, 25757, 39339, 44961, 38043, 18653, 49301, 18256, 2972, 24982, 17806, 49985,
      34625, 47213, 29283, 49663, 2765, 1541, 41425, 40030, 49444, 20991, 8434, 23495, 29332, 12388,
      21922, 47577, 26567, 42235, 43443, 8563, 3771, 17493, 4655, 47347, 11434, 32649, 47754, 32536,
      294, 41034, 27499, 12682, 19938, 9096, 1737, 48960, 20365, 33329, 15357, 36113, 11492, 9628,
      49335, 8314, 42485, 9719, 44330, 21322, 42631, 32826, 29059, 28942, 35969, 3435, 46898, 18033,
      35278, 17322, 43319, 28174, 49388, 12886, 47982, 43635, 16138, 37789, 28114, 30805, 5993, 9107,
      48796, 20799, 22754, 26393, 27684, 41297, 47641, 34840, 12122, 14837, 38590, 13335, 3513, 46687,
      30992, 42613, 23866, 24094, 23341, 3782, 46066, 31225, 9336, 15385, 48612, 10702, 27566, 26849,
      35628, 33989, 4864, 24118, 13280, 12390, 6085, 26579, 12546, 4924, 4532, 49544, 34440, 32408,
      44803, 4055, 46043, 47308, 10000, 23535, 43924, 11953, 28400, 2850, 29195, 44849, 10255, 24290,
      43385, 12879, 19838, 37085, 25020, 23769, 5519, 858, 43766, 5972, 20823, 40643, 49601, 595,
      49129, 8804, 24183, 28997, 9746, 14352, 10165, 1951, 9120, 5649, 15847, 7910, 14781, 7830,
      2513, 39500, 38327, 7526, 7860, 4700, 35001, 32720, 27626, 24976, 24340, 17560, 25008, 29774,
      31501, 11926, 22044, 49873, 9215, 27874, 25103, 20539, 43050, 29187, 14086, 20625, 5424, 13265,
      23831, 28840, 15567, 40260, 28656, 8995, 34318, 17393, 23519, 14842, 10929, 22998, 37863, 36011,
      21359, 727, 31711, 14591, 22104, 8169, 23244, 331, 39795, 211, 35031, 39111, 3543, 28740,
      34206, 10707, 19252, 16251, 13237, 4792, 47499, 2017, 30980, 48927, 39243, 43901, 33688, 24111,
      12171, 31634, 16396, 4868, 33586, 10976, 46321, 9896, 453, 9241, 3457, 46876, 47869, 17043,
      36901, 23806, 29715, 33108, 33708, 35507, 25988, 36964, 33638, 2786, 36839, 29825, 24074, 8222,
      8123, 39131, 5796, 36445, 8864, 48272, 45219, 29680, 41570, 5188, 43932, 17492, 19613, 35030,
      19157, 42938, 5057, 22219, 20710, 46090, 13186, 1779, 35321, 49891, 2686, 1040, 24931, 16939,
      3071, 20858, 40297, 42390, 44968, 44487, 29844, 7766, 28561, 46060, 15682, 46746, 15663, 15128,
      12031, 43783, 7961, 40167, 1906, 29505, 25345, 41871, 10303, 13503, 38607, 2024, 17397, 28,
      9718, 44672, 33123, 3170, 31663, 44120, 11560, 38411, 18460, 3675, 15450, 20608, 6749, 32888,
      6794, 20612, 38347, 328, 4710, 19665, 2370, 38290, 35312, 15791, 27382, 45438, 10871, 18562,
      4898, 37921, 1209, 13362, 44493, 46529, 25473, 35891, 78, 26120, 48541, 42029, 46620, 48897,
      29799, 47565, 5682, 9493, 44083, 45049, 20390, 37637, 15605, 14485, 6213, 19641, 34550, 39753,
      13275, 5544, 34714, 21137, 48086, 17061, 14385, 27181, 6789, 34160, 26287, 20121, 49747, 39462,
      35983, 8989, 12404, 9969, 12305, 1770, 22368, 45397, 10912, 30988, 35790, 28804, 38169, 7856,
      10100, 39643, 21575, 37387, 28185, 45112, 8719, 8558, 43070, 12516, 24530, 40736, 20648, 24251,
      12454, 6825, 31826, 22554, 34841, 40927, 43966, 4423, 6862, 39754, 21252, 9490, 20760, 15635,
      40050, 35694, 42754, 9825, 9479, 8733, 46630, 16874, 20081, 2013, 40634, 38445, 33715, 33383,
      2147, 41556, 39897, 43905, 9699, 45365, 6841, 26811, 17194, 6269, 2073, 37260, 46309, 40502,
      33653, 18174, 11334, 14621, 15332, 40097, 3895, 767, 41017, 18029, 8012, 49412, 28801, 28718,
      16363, 43873, 24747, 808, 24309, 1468, 30337, 10550, 35490, 5419, 47093, 17548, 34328, 21059,
      12673, 6041, 12061, 49510, 48230, 31362, 25628, 18635, 34929, 21058, 23840, 9247, 37420, 25502,
      15733, 10116, 22763, 7265, 29483, 46591, 36704, 11725, 15043, 23525, 27608, 36975, 23097, 30974,
      31673, 14033, 47231, 26028, 34917, 20541, 31345, 26498, 74, 719, 23723, 36784, 43672, 3932,
      14670, 43804, 47657, 2509, 40049, 42528, 32317, 30728, 45518, 4067, 20104, 13100, 30544, 27818,
      3145, 17513, 8697, 42073, 30562, 37899, 24310, 24845, 20619, 24207, 40164, 17138, 1537, 45840,
      46761, 35310, 6073, 43429, 20409, 21602, 23610, 31629, 33005, 20655, 22259, 6093, 44699, 37960,
      37534, 29883, 1620, 8793, 21301, 1308, 14374, 1582, 48035, 35199, 1044, 46950, 37777, 7633,
      10931, 26691, 38563, 31076, 38259, 45817, 20183, 42592, 1600, 45513, 1849, 1752, 34808, 18467,
      40733, 37999, 33314, 38967, 46061, 5147, 25251, 10737, 18051, 12191, 10694, 22398, 44973, 39937,
      32334, 16559, 22372, 11801, 34864, 20171, 28930, 14650, 15574, 41256, 9318, 48194, 18825, 42148,
      17706, 24398, 27328, 36833, 15096, 1294, 29583, 30962, 34768, 34831, 28647, 34275, 39451, 20002,
      5577, 35660, 40857, 5611, 5077, 5335, 9546, 23350, 4141, 7938, 44583, 48523, 13036, 44929,
      30836, 38784, 12224, 23104, 9583, 21015, 31846, 27027, 48634, 2251, 25601, 3670, 42982, 25401,
      42136, 25212, 30725, 43460, 13436, 37528, 17331, 11689, 23369, 49704, 14196, 31816, 45015, 20269,
      49532, 12963, 6697, 25820, 46587, 27867, 23515, 38826, 17948, 48300, 37466, 10750, 3320, 21576,
      10464, 30733, 12446, 4773, 39343, 45283, 37477, 31836, 42542, 41508, 23916, 45696, 24143, 20981,
      30492, 25993, 38553, 13560, 39993, 2311, 28919, 23380, 29685, 12658, 8391, 41445, 15167, 12916,
      2823, 4551, 38104, 11437, 20837, 47111, 28477, 11353, 3749, 16821, 16532, 27370, 8399, 9079,
      524, 45770, 30766, 25523, 3727, 9472, 23183, 32890, 20750, 30461, 15620, 2283, 2302, 23781,
      3052, 14292, 5820, 28036, 42087, 15173, 19950, 48, 26708, 16885, 31819, 35953, 14345, 229,
      1211, 35592, 8772, 33737, 35775, 29163, 20689, 49449, 17458, 10942, 1986, 46769, 39978, 35712,
      44353, 46521, 25022, 14016, 26746, 37201, 44006, 36929, 3117, 17509, 11232, 38090, 13753, 43927,
      6240, 35187, 12316, 6207, 13303, 7170, 29443, 23590, 43671, 33785, 37500, 28853, 24127, 18312,
      350, 45812, 32991, 36404, 49150, 25563, 44221, 35268, 48817, 45406, 33332, 10367, 33690, 3385,
      36701, 30554, 31932, 7959, 19091, 14516, 49585, 49674, 22340, 30522, 36303, 27304, 18316, 26973,
      28315, 7777, 32930, 17205, 26639, 39136, 24662, 45052, 15994, 49096, 30286, 10889, 29150, 7645,
      14116, 9589, 45487, 2833, 26756, 23790, 49839, 38176, 24624, 28324, 42339, 47230, 9979, 42361,
      18259, 14549, 36863, 19073, 3990, 40828, 39307, 14799, 44896, 2785, 3880, 33861, 37953, 45493,
      40522, 11975, 7746, 36713, 26505, 34932, 35654, 10109, 25092, 37122, 5666, 32940, 33407, 3407,
      22880, 5065, 1548, 7435, 10024, 33804, 11814, 14419, 18827, 29113, 43673, 8418, 9582, 45205,
      28666, 12458, 13107, 41025, 12467, 32332, 45766, 45405, 33122, 44075, 38672, 33932, 845, 25389,
      3395, 11559, 23147, 3127, 15138, 41269, 44832, 45927, 954, 16535, 3587, 3557, 49066, 28948,
      47697, 26569, 37939, 6743, 40166, 11267, 28481, 47707, 9484, 16892, 13890, 43923, 24405, 18645,
      23042, 47369, 8177, 11620, 7857, 20805, 17485, 35371, 8609, 8061, 36018, 12601, 28716, 33477,
      32886, 4598, 2042, 40187, 6130, 31528, 33085, 10566, 38083, 2064, 14457, 13419, 29661, 22990,
      31169, 21387, 6523, 25957, 27433, 38507, 39044, 14953, 30859, 5470, 22200, 14336, 30936, 24014,
      36931, 27301, 13180, 33171, 37679, 27926, 11422, 42133, 45844, 6378, 18625, 19867, 14744, 45553,
      36307, 6310, 9219, 38285, 35362, 48751, 42925, 31213, 44822, 39422, 14266, 15867, 21411, 49847,
      21665, 1502, 27445, 26183, 29777, 48183, 30640, 678, 16378, 5851, 7194, 16301, 29841, 2939,
      34618, 22906, 1070, 17929, 6784, 14444, 10672, 19156, 36160, 44558, 27912, 19790, 21120, 41168,
      21782, 28258, 28362, 37661, 8720, 17106, 21560, 48055, 41266, 19159, 43820, 38885, 12716, 39335,
      24099, 5670, 24518, 8949, 21876, 49098, 31556, 26128, 46165, 33342, 24833, 11182, 37146, 25616,
      47330, 15123, 16698, 30761, 41662, 27765, 48758, 8695, 22738, 10514, 10748, 17232, 35016, 15958,
      38384, 31692, 48706, 22486, 43684, 24502, 28513, 30828, 27307, 21939, 38867, 14390, 33765, 12926,
      25752, 29416, 40162, 20756, 19881, 17794, 8032, 1407, 28690, 47943, 14021, 14254, 18196, 31351,
      44725, 33461, 10725, 21395, 3443, 9174, 46639, 4175, 13844, 46036, 13382, 26424, 16645, 11529,
      15979, 38265, 36643, 20400, 3626, 39132, 39520, 37879, 14157, 36323, 10386, 30270, 46548, 19751,
      3516, 35294, 15032, 43089, 1168, 20528, 40660, 24660, 3149, 17264, 23956, 19122, 13439, 34235,
      8154, 46269, 13833, 28902, 29992, 4137, 19423, 4150, 39236, 14017, 6571, 28408, 15366, 23851,
      46333, 40978, 15155, 13779, 33635, 27043, 15761, 49041, 402, 37196, 48242, 3057, 47855, 39828,
      3317, 12118, 40633, 23595, 12126, 39619, 18231, 49373, 17718, 25163, 38523, 48310, 6997, 49015,
      45386, 706, 3491, 15339, 37341, 15823, 45515, 24090, 7054, 5580, 31416, 35919, 39385, 31099,
      49212, 11991, 36790, 32353, 38698, 25650, 2607, 41886, 41950, 2429, 3815, 37335, 48308, 18646,
      835, 8624, 33941, 25494, 22821, 5565, 40870, 21673, 28333, 40866, 4951, 15194, 18799, 49751,
      23718, 19177, 11332, 40563, 49353, 36175, 27675, 25009, 43742, 8963, 34765, 8417, 12278, 30328,
      27710, 5629, 36770, 45006, 37521, 42292, 45449, 26019, 3681, 19403, 40216, 29475, 46768, 3985,
      15198, 44164, 41973, 43723, 20786, 37045, 3666, 8412, 18830, 23205, 33422, 39288, 22834, 25343,
      19556, 11831, 28742, 16928, 33972, 35651, 41381, 42025, 7242, 2637, 47809, 19049, 43577, 18252,
      877, 27105, 49700, 27959, 4379, 11957, 19187, 27573, 3908, 10763, 40456, 26331, 48255, 24831,
      20836, 30297, 40843, 14635, 32152, 13161, 31390, 6479, 4711, 41214, 12476, 33757, 35450, 26535,
      42470, 20698, 17392, 39148, 23023, 22356, 43828, 40555, 22538, 29571, 27200, 36591, 21646, 8446,
      45645, 29087, 37927, 1798, 17143, 654, 44906, 5812, 21672, 2892, 48374, 5636, 9612, 3044,
      24904, 21691, 41213, 6159, 13515, 6022, 37860, 47043, 13569, 11211, 11221, 10828, 23121, 4763,
      27594, 3659, 3326, 9465, 2663, 25938, 46143, 27829, 21917, 11673, 30831, 46299, 43814, 34695,
      44681, 33313, 49910, 2880, 22223, 42262, 9145, 32018, 21341, 29412, 45959, 11154, 27689, 16195,
      37388, 33710, 19619, 47858, 41136, 41395, 24918, 31625, 16692, 32427, 6727, 40701, 48470, 49423,
      29553, 20914, 23777, 23456, 31406, 12817, 46543, 28960, 45292, 48584, 2623, 22302, 29148, 41302,
      41139, 47866, 33505, 19222, 37706, 24600, 14249, 40115, 43703, 42281, 39263, 755, 21304, 2779,
      24503, 46669, 30077, 38968, 20308, 16453, 21751, 8084, 15047, 38450, 48985, 49953, 18064, 40325,
      41337, 42429, 15734, 38729, 18987, 12373, 30251, 7868, 1269, 21797, 45102, 31624, 28806, 6998,
      30935, 11283, 27302, 8669, 9521, 18667, 20116, 9045, 23508, 46523, 49633, 41833, 23004, 23331,
      5127, 9327, 29140, 1545, 739, 10875, 1674, 16121, 2567, 29697, 39752, 39563, 45320, 4732,
      45083, 33541, 8521, 21584, 47593, 32786, 2244, 3203, 40056, 28885, 5204, 30825, 39691, 20224,
      46361, 11998, 47328, 1936, 6665, 3240, 36077, 10358, 363, 20107, 43631, 24054, 37494, 8738,
      19324, 34409, 40775, 20901, 27914, 1172, 37268, 22469, 36110, 36132, 49009, 534, 12665, 34178,
      12479, 39434, 17199, 22884, 23706, 34899, 34565, 40495, 4575, 5190, 40935, 19506, 15732, 30429,
      20659, 33291, 3089, 1996, 21637, 24813, 11819, 2831, 8269, 32355, 26111, 7489, 15627, 29878,
      45217, 39469, 1299, 31315, 39041, 5499, 6447, 15613, 47367, 17864, 27369, 17985, 32559, 7067,
      26905, 35709, 26327, 20045, 15116, 46595, 41515, 21209, 25739, 5680, 11549, 34305, 43842, 67,
      5555, 3010, 17107, 40096, 36953, 48739, 42317, 27718, 13647, 48731, 38799, 11397, 13147, 4582,
      3228, 7367, 10681, 143, 18895, 29813, 23817, 48500, 39472, 9344, 14141, 33980, 29079, 49831,
      18733, 9261, 20085, 46074, 21811, 20167, 46267, 25241, 29238, 23600, 38762, 27454, 37040, 30699,
      43144, 786, 11049, 18100, 43909, 15792, 12379, 7853, 153, 45512, 13016, 14873, 14259, 37394,
      26870, 17380, 46822, 32922, 11468, 32363, 22634, 4654, 8055, 45549, 23889, 30851, 8926, 32924,
      35853, 1552, 13393, 33324, 2148, 495, 13865, 35089, 25161, 32919, 49235, 46355, 45726, 1364,
      18122, 19385, 25693, 23345, 29968, 15696, 19267, 3720, 39895, 9533, 26619, 17272, 38239, 19585,
      4920, 4823, 31376, 15479, 32167, 16727, 4136, 19572, 20906, 27160, 2121, 6858, 992, 16149,
      7382, 49526, 15630, 26636, 7366, 47564, 21118, 20977, 3565, 5840, 16667, 49105, 12861, 22559,
      18984, 41679, 36919, 16075, 14271, 14130, 49604, 20462, 10313, 43085, 23760, 47372, 30435, 4321,
      35929, 35398, 3174, 35333, 47272, 17587, 20028, 26502, 3114, 26655, 47587, 23110, 43292, 35228,
      3225, 40860, 20175, 40566, 8997, 46912, 40544, 14201, 49655, 35908, 38106, 47098, 25142, 46102,
      39886, 6937, 17451, 36686, 29062, 5529, 5398, 11360, 14380, 17285, 46861, 35897, 10740, 8320,
      5269, 34629, 10891, 49852, 24700, 41993, 32769, 35474, 13327, 21709, 9196, 39725, 2155, 19782,
      4011, 48687, 33302, 11962, 32016, 30890, 38591, 12352, 15323, 45910, 23065, 9269, 48535, 32634,
      8683, 42511, 41856, 16562, 6464, 26532, 47112, 29491, 18300, 27761, 48530, 26081, 40875, 14904,
      49386, 34678, 15927, 28610, 1301, 23991, 17517, 1230, 27094, 34085, 4368, 41081, 27025, 46838,
      13854, 6080, 43948, 35369, 6568, 28060, 18557, 12746, 19989, 13276, 22813, 29245, 25186, 7995,
      41910, 36536, 32574, 37845, 24658, 9599, 4631, 240, 15424, 29511, 12197, 43759, 27155, 47162,
      27314, 32439, 7465, 34635, 43752, 35289, 1820, 2410, 44392, 8243, 28464, 39405, 16576, 37333,
      29991, 24326, 13929, 47680, 6391, 34886, 42818, 36547, 41785, 37729, 2809, 33266, 11445, 33686,
      45210, 37052, 45416, 24746, 228, 47147, 35509, 13329, 11703, 9271, 44612, 6001, 4897, 5583,
      28229, 40635, 28899, 19894, 33896, 44836, 10400, 34335, 43066, 34474, 23834, 3153, 10364, 11523,
      40067, 215, 39008, 23488, 26950, 9824, 35693, 9637, 35489, 24277, 49965, 40277, 35427, 24426,
      1449, 39620, 26312, 13799, 27812, 45446, 28307, 45588, 46477, 29670, 10832, 41821, 34273, 6054,
      31875, 36993, 48608, 23824, 48534, 39536, 35967, 49339, 6449, 7951, 28132, 14626, 15804, 37203,
      11357, 46482, 13668, 31105, 14645, 18445, 21029, 27388, 3775, 16374, 5596, 34758, 27125, 42065,
      23649, 48451, 46736, 36942, 41505, 41984, 23308, 29424, 1907, 15581, 25855, 10143, 48727, 41311,
      47314, 33751, 40801, 38248, 48312, 21181, 24327, 43254, 37425, 39182, 15386, 26181, 35918, 49313,
      9265, 38737, 30480, 29086, 49347, 34159, 33214, 40205, 44312, 8802, 46219, 33139, 38914, 14559,
      42543, 17796, 47669, 28386, 47740, 22504, 34980, 5603, 8881, 22388, 38185, 4938, 20008, 3158,
      20651, 9158, 31973, 463, 615, 6380, 20213, 8181, 17719, 16574, 2716, 36736, 26220, 15240,
      30022, 5178, 49407, 42771, 22706, 44277, 40157, 25783, 21045, 40537, 23474, 6221, 13386, 47930,
      28129, 7037, 15474, 10570, 15511, 43507, 45597, 6358, 47530, 6691, 10785, 15881, 31898, 33798,
      41932, 28350, 42256, 1577, 23122, 15859, 32335, 9947, 36561, 20039, 20711, 21493, 17551, 32728,
      49736, 47370, 35685, 5586, 14605, 39094, 31670, 1515, 35139, 3432, 20863, 4239, 19773, 34158,
      893, 39867, 26426, 5074, 24900, 25791, 15187, 2933, 32330, 29265, 11970, 48999, 28022, 1129,
      731, 11110, 30329, 3084, 7297, 37356, 31926, 2795, 25363, 7601, 798, 22616, 17118, 43715,
      178, 17558, 13798, 42598, 17174, 32567, 27777, 32966, 24648, 29769, 16932, 12940, 23849, 11772,
      38498, 4616, 15103, 7533, 66, 49254, 37480, 21598, 15689, 47361, 5033, 39683, 35340, 48157,
      20225, 17006, 9873, 38990, 787, 3332, 30966, 49556, 6008, 24162, 8334, 48617, 6297, 32264,
      1191, 515, 30734, 30024, 37244, 27223, 21435, 23283, 43000, 1001, 14622, 18982, 17898, 6191,
      14175, 40005, 5753, 34836, 40581, 41004, 16252, 24920, 15905, 1462, 24299, 18255, 37344, 42624,
      27464, 47264, 7349, 4818, 220, 26337, 44412, 12632, 19937, 27773, 4603, 37016, 22499, 39255,
      7036, 42224, 5650, 28311, 17632, 46123, 48998, 29863, 2881, 18061, 42058, 22444, 901, 18981,
      39932, 34949, 8488, 42481, 30232, 23464, 8219, 1627, 6772, 12021, 14678, 11440, 44795, 48094,
      28967, 40025, 2580, 40734, 47137, 34924, 4340, 46107, 42330, 35461, 18771, 1073, 21638, 17065,
      37298, 29351, 32626, 3159, 38353, 35755, 21292, 34650, 21398, 31334, 18324, 19680, 5974, 3729,
      490, 22092, 33949, 1375, 37782, 31658, 17010, 4758, 30341, 10304, 6040, 28756, 2841, 36948,
      36854, 47676, 2887, 8876, 20923, 23067, 39439, 14997, 22837, 41979, 17750, 47279, 19023, 17575,
      5602, 32894, 13921, 5730, 14745, 5296, 13851, 45474, 17696, 25274, 42939, 28379, 20918, 42833,
      40437, 6869, 21042, 43240, 9943, 9643, 14892, 29709, 39661, 39449, 38196, 9190, 48024, 21650,
      3786, 34552, 29809, 39884, 4683, 42814, 4270, 32113, 34806, 20425, 42049, 19281, 48356, 44951,
      40644, 3340, 43902, 19037, 32230, 38679, 14287, 41863, 41282, 2031, 21473, 17197, 7235, 12755,
      15327, 30951, 20590, 29850, 1079, 18610, 47049, 28091, 27281, 38417, 27672, 26026, 14318, 28805,
      14506, 36630, 2936, 3917, 30063, 34457, 26299, 28112, 45547, 33073, 36824, 44657, 9837, 9706,
      35081, 30720, 26027, 14308, 34581, 19880, 41798, 2062, 6470, 17400, 6477, 38220, 11279, 29831,
      16940, 29122, 42674, 49854, 37038, 8531, 43129, 20470, 23047, 9095, 19522, 44642, 32092, 16972,
      36133, 5515, 11781, 8226, 15310, 24604, 35163, 5506, 26478, 924, 40902, 12070, 11706, 41439,
      35892, 22057, 30916, 19158, 40388, 6559, 44410, 41913, 12720, 42614, 46682, 41183, 9627, 5798,
      28557, 22366, 38650, 9782, 27832, 26025, 18565, 19627, 17857, 38871, 39516, 29793, 27843, 13009,
      41850, 44191, 45214, 31097, 15966, 46737, 25785, 38308, 33189, 26347, 18690, 24849, 16555, 3956,
      5606, 49070, 24846, 34493, 1184, 26140, 42742, 44121, 33672, 19878, 8346, 7797, 48268, 6089,
      2080, 40696, 46534, 7933, 10846, 12177, 9316, 24594, 11927, 9927, 7211, 21061, 6533, 5209,
      35414, 10073, 43390, 8448, 39164, 34246, 28926, 692, 30225, 46095, 39133, 46931, 7370, 34069,
      7837, 36483, 46425, 24495, 28633, 5037, 37167, 13840, 20900, 30979, 7354, 16122, 8750, 44313,
      27151, 1436, 507, 38170, 5930, 8947, 12242, 17303, 28412, 32263, 4386, 44983, 10310, 8921,
      8693, 17027, 25488, 1539, 9121, 33979, 15284, 5867, 35328, 22490, 13029, 11569, 21999, 390,
      17848, 29001, 17576, 31728, 46660, 42832, 32021, 36358, 11350, 25081, 41203, 6719, 15540, 47127,
      27241, 14693, 946, 14327, 14414, 44304, 35932, 35315, 32157, 18157, 13007, 33040, 20827, 25373,
      36386, 27405, 7008, 48338, 42037, 17304, 4633, 31086, 17130, 40475, 19953, 41750, 27052, 44919,
      30133, 10762, 13945, 24941, 14342, 38367, 9290, 28931, 15989, 43123, 32696, 36405, 20597, 49956,
      25868, 21199, 33367, 21924, 34420, 46454, 40874, 31371, 46966, 1893, 7833, 32651, 42904, 22886,
      20746, 33030, 375, 18350, 30771, 1466, 12615, 13543, 5696, 17627, 49870, 4837, 45649, 33709,
      42431, 29098, 19041, 15882, 10905, 28621, 48506, 4875, 39346, 19183, 20690, 13331, 46884, 33066,
      25625, 23154, 17241, 40745, 2035, 20423, 10450, 42932, 18542, 43059, 17883, 49907, 41612, 6828,
      7130, 40037, 40722, 20469, 16626, 13990, 35912, 18028, 7371, 40299, 5594, 27332, 46579, 45508,
      34844, 4103, 7493, 46020, 29377, 38736, 24704, 15470, 23988, 26681, 20350, 45631, 49755, 47493,
      39522, 2575, 30425, 14389, 4042, 12853, 4078, 7754, 32467, 25216, 42230, 30791, 15960, 19162,
      37371, 21316, 14252, 34753, 20245, 40542, 9726, 16709, 43298, 22778, 935, 4054, 48021, 37997,
      20955, 13666, 40222, 34036, 864, 37710, 2253, 22394, 23382, 16755, 36634, 43116, 40708, 33377,
      37419, 47885, 30005, 25256, 15886, 38687, 20013, 14022, 18748, 7148, 43403, 12997, 20173, 46270,
      5581, 10900, 5060, 9615, 8044, 17046, 8386, 14629, 45394, 28835, 27564, 42079, 2776, 45337,
      43646, 49943, 7189, 13731, 5573, 6135, 29845, 20811, 10553, 5247, 21153, 3981, 24209, 30564,
      11085, 19053, 27540, 16663, 2172, 32083, 31899, 45872, 48233, 41486, 7452, 5197, 26270, 17793,
      13210, 15995, 28992, 21057, 7206, 21267, 22191, 3809, 43512, 42847, 25097, 21067, 5543, 43169,
      29007, 46124, 29978, 20947, 44352, 44609, 32463, 17653, 29092, 41513, 34152, 44463, 41804, 33065,
      8635, 4873, 36635, 13907, 2077, 15029, 14209, 29327, 24368, 3009, 18613, 15216, 19226, 2537,
      16395, 40130, 39404, 7498, 41777, 20426, 39321, 10770, 32535, 30313, 21889, 23238, 21684, 28635,
      37422, 320, 7135, 17755, 49823, 11984, 35422, 24881, 26627, 33654, 37770, 45858, 31831, 3178,
      244, 14758, 23853, 40975, 16527, 38751, 32528, 24535, 35131, 1161, 49762, 22337, 287, 26206,
      35230, 10068, 10680, 12450, 43485, 41449, 1170, 4675, 10374, 39560, 31308, 30497, 26553, 33045,
      45081, 23165, 25491, 28164, 47635, 3121, 41347, 17695, 41107, 36174, 22766, 31301, 13861, 47165,
      31730, 931, 30062, 691, 35349, 6364, 18293, 41789, 43041, 20950, 49321, 16428, 20323, 41909,
      39876, 41743, 4319, 35733, 3969, 25763, 4926, 4933, 14616, 13971, 48225, 23862, 22692, 3092,
      21097, 12748, 24338, 44271, 15790, 3982, 20674, 23324, 34172, 38892, 1094, 22927, 28310, 15972,
      28747, 31918, 26460, 47581, 2843, 37583, 38724, 25095, 18211, 20855, 44913, 16, 28202, 16524,
      18443, 23527, 21054, 12205, 31422, 32006, 14407, 32766, 4686, 4922, 39553, 5877, 30595, 42316,
      32443, 16459, 35113, 22831, 41198, 25006, 4586, 13675, 49555, 44793, 8378, 24816, 25359, 47808,
      38965, 25553, 39169, 5695, 2941, 45154, 31222, 46837, 21164, 40149, 47431, 38346, 10338, 42761,
      40673, 26671, 8307, 11618, 25933, 33816, 45824, 6782, 45249, 47468, 47599, 19945, 45222, 1609,
      19480, 29166, 35183, 23799, 31980, 34785, 35739, 12317, 35699, 48659, 19630, 16508, 13001, 1814,
      25416, 31976, 14586, 44301, 25174, 2123, 13704, 31721, 47140, 49603, 14191, 18581, 20435, 17600,
      40469, 27938, 47774, 32247, 41938, 33576, 44824, 21438, 44411, 40031, 30096, 4906, 3722, 12734,
      36730, 46962, 2671, 41989, 9417, 4552, 6009, 28430, 19601, 38505, 41247, 18437, 27542, 3164,
      39531, 32764, 1657, 48994, 19094, 40317, 37034, 23099, 16806, 27356, 16244, 38084, 31601, 27877,
      9673, 19229, 48502, 33769, 36966, 35186, 36343, 9772, 3558, 45471, 3854, 4887, 28807, 47843,
      5313, 25883, 37292, 13699, 30607, 4827, 33575, 3907, 29134, 39791, 34724, 10637, 9343, 44172,
      37663, 35170, 37952, 22908, 18279, 10283, 40863, 9890, 46502, 18323, 26514, 47332, 47666, 17387,
      15086, 24042, 46297, 7566, 43894, 29227, 14719, 49057, 5368, 39696, 9603, 22673, 29425, 30143,
      2618, 41669, 4485, 11795, 17369, 44036, 24366, 22553, 7384, 45684, 13269, 28677, 9275, 33783,
      9460, 2462, 9968, 42222, 47533, 6509, 48714, 589, 13136, 8848, 37392, 20142, 39613, 18412,
      43618, 41637, 36885, 9424, 5454, 45077, 34217, 6837, 44222, 29432, 20288, 18816, 46243, 48519,
      21031, 42571, 1587, 39454, 45291, 18103, 22484, 31417, 41574, 29277, 3961, 41691, 30140, 29631,
      6078, 30663, 10956, 48762, 4006, 37707, 47244, 18395, 5898, 2866, 14011, 46649, 30209, 30266,
      16968, 11460, 20316, 34028, 20922, 33078, 34484, 34820, 20671, 4668, 4298, 3783, 33776, 7347,
      10377, 48843, 9878, 2773, 13026, 12948, 25105, 1987, 46155, 40047, 29546, 35440, 16260, 25464,
      9175, 31508, 49376, 25901, 19309, 249, 40953, 27790, 38652, 28128, 34812, 6589, 13780, 11989,
      627, 45259, 29523, 28820, 23929, 46946, 4765, 26177, 47988, 6511, 2230, 20566, 12427, 39763,
      46003, 18782, 32726, 6305, 13998, 15641, 32299, 12392, 17570, 10703, 49665, 21698, 41988, 4247,
      8002, 31954, 44041, 32703, 41875, 9497, 11241, 31349, 27543, 1273, 5698, 31521, 40446, 10988,
      42358, 22999, 3358, 16567, 49501, 45937, 46663, 39281, 4567, 13255, 10848, 32551, 46557, 1961,
      4992, 4891, 14330, 30391, 24423, 25954, 30971, 49365, 6226, 27323, 38134, 34019, 35944, 29648,
      3359, 307, 29964, 48223, 32323, 12580, 48636, 9765, 1051, 14519, 11410, 9221, 10234, 37531,
      41830, 34642, 25662, 23666, 27796, 48192, 46401, 13682, 20706, 49087, 25832, 38599, 4917, 25074,
      191, 25068, 24484, 13233, 37253, 9783, 28054, 3924, 9940, 41692, 43423, 22800, 28810, 16061,
      36071, 30826, 25920, 29963, 15549, 18074, 27527, 13304, 45296, 19692, 17888, 34574, 36639, 25864,
      3791, 48462, 35554, 9259, 45686, 34485, 35464, 31027, 1848, 43391, 12852, 39390, 36203, 31923,
      29896, 16526, 6771, 27559, 39760, 13878, 30676, 48460, 46228, 44369, 33885, 30957, 34524, 39519,
      28684, 870, 9104, 33489, 10997, 27649, 17270, 18108, 5592, 41115, 26096, 24486, 10938, 45460,
      11737, 33082, 26375, 48679, 11949, 40214, 20588, 5850, 38897, 38215, 3129, 16279, 33678, 3968,
      47217, 42933, 336, 27340, 18931, 49517, 8112, 32369, 2985, 10878, 15916, 11669, 20862, 19942,
      11001, 37588, 29437, 46316, 19800, 12100, 9018, 29872, 7243, 14079, 20866, 48583, 11874, 48121,
      25805, 8263, 18678, 6855, 8597, 46033, 6901, 29932, 23963, 9949, 16436, 1445, 44998, 14821,
      1695, 43852, 17958, 22523, 20789, 1630, 33037, 1881, 14523, 13900, 37842, 5509, 49157, 2032,
      27500, 34700, 35303, 43837, 32954, 44739, 5558, 11151, 23569, 20527, 46869, 48678, 6587, 17618,
      36683, 446, 14536, 14031, 39892, 28378, 31379, 20519, 35208, 35871, 43856, 40460, 21158, 38862,
      9486, 21902, 47373, 28018, 33455, 5208, 45873, 41185, 10345, 30134, 37688, 48358, 25566, 45860,
      19520, 38230, 14139, 19567, 23906, 22765, 19583, 1447, 34057, 10692, 23741, 10335, 49450, 34779,
      23926, 44673, 15830, 15735, 12158, 18263, 18814, 12453, 38847, 38225, 45955, 11349, 44825, 4131,
      16351, 17420, 15408, 45290, 36902, 17033, 42043, 33629, 25479, 24685, 34710, 10295, 37099, 25159,
      14119, 47957, 36738, 46551, 31647, 2775, 32101, 4145, 26899, 48222, 35179, 17478, 22449, 34314,
      22418, 45366, 49561, 6953, 35903, 13232, 5750, 14715, 31085, 3805, 9076, 27230, 45094, 15160,
      39542, 16848, 42788, 28850, 29768, 3327, 22615, 40150, 1262, 25530, 23596, 17359, 18950, 22250,
      13117, 25517, 39350, 49708, 21119, 32464, 5021, 23513, 23559, 14995, 11413, 22439, 48865, 42570,
      45983, 19173, 25520, 25380, 19404, 36876, 5213, 3255, 40091, 2690, 4627, 46503, 34087, 46657,
      37930, 7226, 8566, 12192, 17519, 4529, 44435, 21133, 23470, 9941, 45128, 18062, 39104, 6982,
      46472, 10066, 917, 18889, 29877, 13288, 19288, 48949, 570, 36182, 36484, 25515, 7031, 39605,
      19610, 45784, 28554, 14026, 25613, 14232, 24229, 2217, 5232, 30453, 45641, 30257, 35595, 22164,
      44594, 4996, 3262, 6838, 5741, 33418, 22423, 11094, 18642, 38163, 39850, 47005, 36289, 10922,
      46603, 4478, 5660, 9788, 32835, 10776, 30857, 27772, 32596, 21188, 45153, 23993, 17642, 36607,
      30926, 17375, 41073, 33687, 43469, 32933, 45038, 6644, 29179, 14334, 14282, 25525, 4594, 10698,
      35618, 19212, 28302, 49144, 37228, 27081, 14908, 39391, 9306, 33724, 41258, 9867, 27923, 49664,
      35503, 38437, 44799, 21372, 2378, 15623, 32001, 28901, 36940, 12391, 12742, 24476, 32510, 16103,
      45165, 365, 2103, 20143, 33457, 35959, 19259, 42500, 5710, 16034, 25183, 20884, 15228, 1093,
      39486, 49813, 25344, 29063, 15899, 16544, 203, 22867, 20324, 49833, 37701, 10006, 24031, 43395,
      33998, 7957, 27526, 48857, 44948, 37019, 22495, 31709, 13440, 22588, 27869, 12226, 37102, 10744,
      28453, 16767, 31455, 7485, 4886, 33625, 6539, 18945, 27216, 21839, 36046, 43307, 41609, 6859,
      10973, 1629, 10625, 33722, 40172, 38712, 16999, 32821, 39178, 36284, 19275, 49020, 22260, 44516,
      489, 15935, 47512, 17374, 49582, 47061, 46157, 11705, 35740, 34693, 35710, 35931, 21062, 35386,
      19996, 41003, 24255, 44386, 20176, 11763, 11577, 35622, 32172, 3439, 34660, 16633, 21639, 49941,
      13006, 44535, 17889, 23675, 670, 49300, 42239, 46723, 33665, 3306, 8026, 43626, 27769, 2890,
      22387, 24123, 46770, 27197, 14394, 45786, 22335, 8397, 14162, 26946, 44764, 26345, 33402, 22463,
      2382, 24565, 6476, 36945, 37548, 11312, 11064, 30835, 25307, 10531, 38759, 27374, 2763, 2581,
      47853, 11999, 41153, 43442, 23185, 42215, 34872, 37405, 46414, 3764, 4234, 4994, 29100, 37825,
      4434, 11676, 717, 29894, 36584, 6773, 43954, 48010, 10738, 27048, 14671, 42581, 33272, 42056,
      39579, 36661, 9359, 30075, 10655, 30698, 36468, 40142, 32130, 39082, 12816, 36413, 192, 25396,
      33584, 30009, 49054, 15810, 6160, 19071, 37158, 11164, 27964, 4927, 28916, 5552, 10799, 48656,
      238, 12207, 49104, 43937, 45497, 37004, 5618, 30049, 25521, 46153, 8640, 37865, 14665, 35010,
      36320, 19389, 19744, 15534, 8328, 38396, 43370, 37275, 3453, 44942, 31870, 46377, 35062, 26829,
      44571, 29345, 43939, 24690, 46083, 21113, 23501, 41458, 7081, 31135, 30954, 4733, 41680, 13045,
      48740, 13917, 44049, 14955, 48978, 20929, 48874, 44278, 5520, 32115, 44589, 23199, 35468, 28246,
      1700, 27886, 27518, 6968, 16322, 24527, 38987, 46052, 32854, 26884, 27253, 49011, 47606, 18978,
      17413, 136, 39740, 23408, 30816, 11087, 19238, 15721, 1200, 38889, 26147, 44895, 49085, 30444,
      6296, 3927, 14387, 26489, 32828, 3606, 21225, 26935, 35098, 11707, 2187, 32963, 12356, 17186,
      15954, 35436, 47438, 18452, 35529, 34800, 25500, 5103, 13652, 31781, 1637, 41080, 30449, 11173,
      48191, 35842, 25398, 7296, 3278, 31707, 8003, 26711, 29493, 45966, 41094, 47271, 31957, 23299,
      13516, 7352, 10751, 40597, 16446, 24417, 7697, 49145, 5668, 38506, 28273, 43427, 18425, 41701,
      5307, 4458, 20025, 47562, 19642, 12855, 18257, 21128, 27172, 26293, 19296, 43803, 20411, 38256,
      16678, 8024, 24170, 29061, 43516, 49083, 23248, 16873, 25069, 33458, 30471, 44781, 16986, 10103,
      1014, 47518, 869, 34761, 10626, 44717, 14924, 43326, 7610, 5283, 4370, 26149, 1361, 26249,
      34397, 12625, 1551, 20810, 49980, 27586, 8252, 10442, 46272, 5039, 49130, 21869, 22520, 38462,
      37887, 30131, 1134, 43764, 24944, 10278, 28327, 10451, 4017, 10409, 25640, 35192, 4138, 44816,
      859, 29943, 2962, 24473, 2426, 3676, 29315, 29038, 7674, 19874, 12977, 18485, 16753, 37705,
      43664, 5285, 8367, 30981, 24351, 12905, 2093, 15596, 11336, 11683, 40585, 1920, 82, 17200,
      13318, 42051, 37164, 41243, 18845, 27491, 1813, 34039, 2994, 37525, 15438, 14296, 42137, 2642,
      9280, 40387, 29084, 18689, 36963, 29231, 12360, 3849, 49821, 34510, 16194, 19233, 30109, 16193,
      26990, 36322, 29267, 2600, 16346, 22547, 30949, 1518, 29340, 28890, 32182, 45836, 4117, 22693,
      10825, 5755, 38401, 41167, 14114, 48289, 22625, 39930, 28230, 22192, 14256, 44505, 1988, 25917,
      30020, 40505, 16901, 10561, 32969, 38556, 25991, 29240, 15166, 23580, 22931, 37623, 48574, 24703,
      22742, 9741, 45270, 15950, 3765, 39200, 25027, 7846, 45980, 12253, 26049, 21205, 16402, 30013,
      19488, 31802, 887, 39029, 23620, 6989, 38811, 10808, 19552, 1424, 16523, 32026, 26500, 19581,
      21515, 112, 40928, 7291, 16199, 37327, 11442, 21074, 11254, 24335, 47297, 41334, 43526, 20452,
      20792, 17266, 19477, 26113, 27798, 16835, 3731, 1481, 32298, 4986, 35531, 13794, 40893, 1855,
      45580, 33767, 389, 44367, 39194, 18624, 10578, 38055, 40880, 17376, 4997, 20306, 19356, 27962,
      23255, 14211, 37564, 4769, 26400, 43833, 4173, 18919, 48928, 34675, 24618, 4946, 41328, 6033,
      7619, 33919, 19555, 47745, 9689, 39874, 48549, 37055, 34998, 26732, 174, 18287, 25675, 41520,
      36176, 1538, 35060, 42291, 1363, 37125, 21644, 18504, 18908, 680, 13050, 47210, 36432, 33276,
      32934, 13689, 406, 25582, 19456, 23749, 1914, 7263, 20238, 20583, 29783, 29566, 10728, 33872,
      12067, 2610, 42712, 38078, 49790, 31845, 11108, 11156, 32920, 13422, 22963, 22063, 28483, 2832,
      27128, 43733, 45864, 3551, 46704, 48135, 12541, 31486, 30881, 37306, 3273, 10014, 45046, 46614,
      15088, 18375, 48772, 24885, 28884, 5141, 27127, 44582, 20195, 30581, 48366, 36218, 20975, 23736,
      16589, 30106, 25711, 23064, 13156, 35517, 46180, 22412, 26564, 19624, 45475, 49754, 20466, 19493,
      12251, 10179, 22318, 48730, 38578, 38402, 11580, 19540, 22918, 42633, 34148, 38213, 14901, 25275,
      3832, 32252, 37544, 37044, 37726, 49518, 43884, 23155, 7415, 36020, 6614, 27056, 16673, 19459,
      12265, 10775, 19991, 15523, 30908, 14270, 45095, 44314, 25966, 15042, 35236, 45026, 16654, 31555,
      20954, 28152, 44525, 13869, 16998, 28783, 27794, 42351, 39464, 20700, 35948, 8275, 9065, 43798,
      2179, 4557, 7812, 45607, 39065, 42998, 23854, 14534, 33467, 1132, 43410, 10521, 22626, 2871,
      12996, 19164, 26536, 34540, 43361, 21904, 25792, 34681, 46561, 9256, 12602, 29961, 32598, 30099,
      24729, 15417, 1105, 17076, 10195, 4956, 41075, 49287, 19149, 20313, 20058, 3696, 40546, 42589,
      33396, 35219, 46004, 47652, 20208, 27228, 41560, 20127, 2176, 25242, 19702, 40695, 23816, 2787,
      12297, 1196, 18060, 20331, 40386, 37212, 43896, 15514, 49571, 47296, 5722, 9135, 43463, 48043,
      18753, 4967, 18601, 24532, 43178, 19710, 36777, 15515, 3583, 49739, 18020, 22601, 18852, 12424,
      27691, 41045, 22357, 28247, 36435, 45242, 31312, 21542, 23360, 45550, 10211, 36191, 10717, 8199,
      18793, 19596, 48155, 5366, 2895, 24820, 14122, 29290, 34064, 28001, 3642, 46436, 33650, 47916,
      30873, 31030, 38870, 49391, 41316, 21642, 5451, 23544, 10685, 15449, 7866, 30527, 31279, 49919,
      12867, 28328, 42565, 44523, 13979, 42506, 26956, 6474, 28399, 24272, 27808, 8811, 27882, 492,
      11691, 43527, 1116, 38405, 37853, 30722, 1757, 44254, 46423, 43309, 31433, 39121, 22973, 48846,
      44605, 27076, 49981, 21625, 36412, 19167, 44769, 27045, 11185, 34464, 35063, 5939, 48737, 42736,
      11033, 36081, 14824, 24734, 46488, 42552, 9915, 23989, 32983, 23091, 32430, 33840, 8682, 7006,
      13379, 41420, 22794, 32082, 46700, 31226, 32793, 11704, 43369, 7659, 38458, 42512, 49023, 12721,
      9171, 43615, 26423, 11908, 33398, 24968, 21607, 41475, 39382, 38011, 33870, 31131, 21729, 27233,
      2204, 41448, 28572, 24770, 45671, 44245, 11308, 13767, 28151, 27606, 45280, 23303, 4426, 20936,
      20963, 33487, 6155, 20093, 4025, 40992, 29336, 17908, 30431, 20447, 28038, 15493, 30116, 5818,
      44724, 32245, 3866, 2745, 11867, 43111, 10704, 11950, 43791, 19611, 36982, 20307, 44864, 26853,
      15193, 19643, 1401, 31128, 12828, 24087, 36021, 48261, 34926, 41346, 24472, 17058, 31881, 37261,
      39779, 46328, 42965, 36609, 18199, 20132, 28172, 44617, 2100, 34441, 10293, 4213, 26672, 7480,
      14562, 46144, 44283, 8547, 16923, 19604, 23554, 30499, 49442, 18135, 20360, 18156, 42156, 42838,
      10860, 27747, 34773, 30154, 20808, 49814, 15887, 15233, 26654, 24972, 27364, 2257, 13324, 20456,
      38342, 9083, 5355, 38861, 40703, 22161, 1519, 1378, 22056, 25599, 18971, 15206, 22005, 17508,
      45968, 1316, 5842, 39890, 16211, 12820, 5832, 9821, 45486, 28099, 33290, 24427, 29796, 15372,
      33002, 12180, 20180, 28694, 6318, 23478, 44760, 26586, 48144, 34716, 39129, 49265, 32441, 48111,
      44452, 48869, 2224, 25682, 43148, 25394, 16209, 31331, 5571, 37291, 5793, 49803, 5738, 19008,
      37496, 40586, 41627, 5276, 15275, 35205, 22440, 14087, 27990, 22736, 26917, 44757, 3167, 31897,
      23545, 24142, 14027, 7016, 46154, 45409, 47041, 37713, 15649, 12237, 38814, 28278, 9227, 5585,
      5590, 33996, 18691, 46109, 46101, 31566, 14743, 8244, 46942, 16237, 39323, 49248, 15373, 12145,
      159, 25235, 1589, 24035, 15369, 38333, 23071, 7190, 16566, 10576, 30750, 23864, 46132, 34324,
      35596, 33204, 22173, 15592, 49593, 28454, 23782, 35548, 36469, 38454, 4727, 17622, 2951, 35323,
      30622, 10350, 46319, 45505, 39233, 40123, 15717, 40591, 24297, 12449, 48158, 15271, 5185, 22031,
      8549, 38010, 18514, 28220, 2092, 21793, 10207, 44716, 32955, 41869, 24322, 19810, 1098, 1381,
      47060, 8605, 21281, 11528, 28182, 15038, 10433, 29218, 47317, 41216, 11390, 41160, 7295, 8068,
      12935, 42727, 20620, 9764, 32792, 3363, 1088, 12866, 10886, 11590, 48959, 19225, 10503, 12306,
      27810, 20536, 15906, 11944, 39105, 17611, 276, 12413, 26943, 22313, 19337, 36674, 21162, 5845,
      36188, 27103, 33905, 24566, 26910, 24045, 25518, 46092, 2490, 21826, 40510, 14482, 45895, 36703,
      15072, 2384, 8016, 39852, 16499, 34631, 19503, 33132, 41862, 28398, 46772, 46585, 18354, 21083,
      28753, 3802, 30386, 36304, 36593, 39410, 48281, 12991, 20878, 46784, 13527, 28064, 7269, 38115,
      40697, 12982, 7166, 12869, 29535, 38635, 37529, 882, 32272, 13893, 29689, 557, 1960, 46099,
      1207, 25552, 7684, 16859, 26086, 44789, 28308, 10485, 19595, 3630, 1708, 26421, 24842, 1140,
      38975, 10238, 26485, 43171, 35428, 25232, 14852, 1307, 18951, 12452, 19218, 39673, 44695, 9429,
      34919, 20219, 19554, 47659, 13283, 26762, 37772, 15996, 25879, 30654, 34395, 19840, 9714, 358,
      138, 8491, 26132, 16766, 43949, 340, 4857, 9569, 10582, 5498, 21300, 8556, 10913, 1932,
      2352, 15848, 3236, 27716, 45123, 42261, 39919, 36575, 34704, 5619, 14973, 20538, 25372, 18800,
      6344, 6139, 785, 30403, 23173, 27734, 31778, 8036, 8315, 6313, 22052, 18556, 2169, 14138,
      18693, 26417, 11826, 25833, 6591, 37226, 7597, 42138, 24323, 4652, 28226, 33210, 19799, 42359,
      7069, 47898, 42417, 47110, 5744, 17438, 29504, 26039, 11951, 929, 48969, 22852, 8767, 11120,
      28797, 11738, 44014, 2011, 17297, 40379, 46893, 44179, 18990, 27840, 21312, 26167, 39332, 49433,
      16390, 11172, 40603, 22967, 36129, 45734, 42903, 49210, 18019, 1141, 10233, 15434, 16743, 3134,
      39758, 47732, 18626, 17858, 34591, 42849, 28011, 36027, 10213, 36788, 48540, 24950, 36268, 35426,
      17514, 13749, 10516, 34587, 7461, 38392, 47583, 39832, 9342, 12336, 37437, 9428, 38244, 48458,
      1998, 24364, 34624, 2282, 28939, 28669, 13392, 22785, 6439, 27997, 6031, 33154, 30373, 34396,
      11777, 19539, 17154, 40486, 40312, 11381, 4658, 12497, 9101, 10058, 34610, 20584, 36636, 37822,
      5889, 14376, 19086, 24306, 48792, 16715, 36576, 29808, 47574, 33703, 10651, 34542, 32402, 16977,
      24995, 3744, 17373, 38211, 47833, 23377, 1875, 22190, 3760, 48365, 35820, 13654, 13146, 37383,
      15812, 3321, 47665, 22432, 3311, 47019, 44299, 47158, 12743, 45639, 44363, 8210, 44199, 17740,
      21386, 16018, 34285, 15114, 22207, 4492, 22054, 3112, 44602, 35634, 33623, 47971, 4912, 5463,
      22760, 27005, 5482, 31337, 12605, 47831, 3828, 16724, 30502, 37465, 37755, 29075, 37418, 17543,
      17709, 43056, 21180, 6796, 5808, 30519, 17839, 5410, 8333, 30119, 29538, 2800, 42604, 10332,
      45496, 24000, 29033, 19835, 46546, 40583, 4378, 41689, 28933, 21259, 6716, 26512, 28369, 2261,
      40197, 20389, 42070, 32327, 42752, 11190, 17569, 34775, 193, 46571, 49618, 8770, 30795, 21909,
      33539, 31259, 43355, 17862, 18230, 28803, 12466, 30483, 47337, 24370, 14868, 14567, 16789, 49441,
      26649, 49653, 42856, 6317, 44619, 6581, 26955, 34215, 32174, 33110, 23852, 46087, 44096, 20961,
      9168, 25634, 48797, 30600, 19900, 7368, 2044, 7156, 16288, 7851, 42946, 44900, 13615, 30462,
      1492, 47818, 778, 9885, 31600, 9277, 35292, 23567, 21174, 5374, 24173, 40572, 16232, 14849,
      8259, 32762, 5827, 32808, 26957, 32698, 11240, 29492, 47841, 11639, 6816, 43472, 31655, 14140,
      34228, 4493, 13074, 29304, 13686, 13947, 11002, 7230, 28365, 10412, 5075, 24264, 21778, 42409,
      19330, 48005, 4088, 18351, 34518, 4249, 23383, 8472, 42864, 8787, 22010, 12109, 6142, 38429,
      46738, 15037, 9031, 20980, 2659, 141, 2597, 6701, 15223, 17761, 2454, 22746, 7418, 21125,
      10449, 29516, 44898, 47389, 23952, 16843, 8179, 44333, 28276, 9528, 6370, 37396, 22424, 33209,
      9794, 25215, 41814, 36598, 49258, 28795, 38547, 39112, 10693, 1958, 155, 10487, 48102, 37346,
      1089, 22433, 27516, 12576, 9122, 32602, 40718, 11101, 18058, 6980, 6416, 16021, 41855, 11439,
      18710, 39864, 33866, 5433, 48124, 13230, 6450, 45096, 43553, 18099, 25556, 30112, 24765, 25817,
      20215, 36116, 4079, 41945, 49200, 587, 9346, 46037, 46305, 47175, 43732, 49419, 26475, 46443,
      21953, 30090, 16299, 30930, 645, 30129, 44517, 9587, 32220, 11739, 15036, 32994, 23172, 24217,
      26515, 36632, 26819, 43360, 9752, 8004, 16154, 20095, 8438, 26170, 1529, 1125, 33691, 1283,
      42870, 31852, 48763, 39951, 44918, 15149, 2591, 5906, 11205, 39901, 2307, 25188, 20074, 17071,
      33380, 23551, 19584, 43936, 6629, 4135, 1898, 13937, 282, 258, 11116, 6530, 37711, 19206,
      14721, 11531, 19909, 29139, 6971, 13521, 37991, 2285, 22447, 40846, 21038, 21384, 6710, 49174,
      10403, 21800, 33243, 6411, 2551, 29450, 6852, 32658, 38314, 13489, 23128, 26390, 21253, 18658,
      41971, 23648, 25643, 42951, 20354, 13565, 22263, 16280, 34881, 29118, 39961, 18489, 6823, 27624,
      781, 14939, 18133, 30798, 30932, 10983, 6519, 5774, 30933, 13171, 30573, 9283, 9369, 12819,
      18708, 43039, 37823, 10800, 48775, 1727, 16994, 4666, 30651, 24487, 8535, 27733, 3750, 12924,
      12722, 30575, 11407, 97, 3137, 46136, 14357, 17921, 13140, 3648, 43617, 12485, 1633, 21008,
      45232, 44629, 49692, 18474, 23481, 6171, 7521, 33340, 32316, 9879, 48849, 19446, 33365, 15352,
      23017, 49305, 24259, 47408, 7345, 6304, 47388, 49320, 16376, 47590, 29055, 22360, 18322, 48585,
      49140, 34521, 28228, 18745, 20644, 5432, 22669, 45951, 47170, 2539, 11929, 48149, 41903, 48499,
      1171, 7927, 14289, 31358, 32262, 47561, 36768, 17073, 15892, 48972, 18681, 40785, 2643, 30314,
      5347, 30508, 41800, 32972, 7896, 9833, 34782, 28047, 32591, 17015, 8461, 19675, 34742, 162,
      37766, 47698, 9557, 27037, 37481, 9067, 1431, 15261, 23252, 45603, 13975, 1619, 7710, 7736,
      37051, 7531, 46907, 17069, 13493, 42821, 43619, 3384, 2839, 29312, 5105, 15078, 29309, 19715,
      26201, 43363, 25279, 2096, 42963, 22436, 7999, 29252, 16370, 5017, 25122, 17833, 23284, 18994,
      18284, 24570, 35525, 32373, 6397, 42845, 28272, 46698, 46850, 34865, 8329, 30268, 41796, 3471,
      45657, 14472, 18509, 30254, 34501, 18394, 30447, 34051, 45253, 12448, 10028, 21621, 33787, 16184,
      48054, 9518, 27386, 25051, 19194, 1651, 33598, 33937, 10720, 6256, 28854, 5469, 29411, 16044,
      10258, 43934, 13428, 37861, 21817, 541, 42092, 12693, 5997, 3390, 44848, 43922, 28731, 14226,
      16029, 49927, 43543, 11005, 36727, 27523, 6643, 29750, 23225, 16087, 3586, 29197, 36060, 2563,
      43590, 27766, 47207, 37804, 33848, 38659, 26661, 14537, 2023, 13109, 48736, 7909, 48392, 23705,
      1013, 18313, 42003, 38019, 9596, 34947, 17081, 23762, 12087, 5110, 24286, 34546, 36751, 15379,
      23928, 40372, 19873, 13944, 26832, 35851, 10805, 19033, 43241, 19363, 37900, 2159, 31656, 11329,
      25498, 14042, 14566, 39213, 36735, 34196, 3081, 2520, 44522, 48056, 42815, 48265, 38787, 16832,
      25860, 22656, 36495, 41321, 22663, 29806, 36068, 9496, 39019, 5926, 29725, 16406, 18450, 18037,
      8894, 8706, 1376, 1724, 27044, 3754, 43285, 29739, 20567, 46486, 36850, 26062, 44638, 24858,
      45268, 13057, 19921, 28444, 23387, 43541, 20714, 28927, 42719, 14571, 29334, 17030, 23911, 33069,
      14215, 15997, 39933, 28044, 47318, 43950, 37643, 10736, 30841, 12258, 18544, 33453, 48496, 11435,
      48016, 14291, 2461, 12275, 27413, 11889, 39896, 38714, 4583, 22168, 45000, 26806, 23953, 45838,
      16905, 29921, 48665, 3983, 39071, 42676, 33548, 17153, 21991, 5978, 25227, 20131, 34964, 46857,
      49864, 20669, 12504, 42600, 26189, 6979, 32125, 11824, 25538, 31182, 35144, 17630, 23888, 44251,
      39279, 13279, 28270, 48953, 47241, 5439, 10759, 39261, 41732, 29956, 27065, 28138, 38278, 38098,
      45454, 4531, 9866, 10142, 44857, 28903, 22804, 16531, 18052, 11280, 35479, 24034, 28082, 7788,
      36224, 28758, 4940, 41991, 26724, 22614, 39851, 30111, 31186, 25431, 7099, 8080, 23472, 47699,
      48180, 27425, 41674, 25364, 28671, 20281, 47420, 23561, 42080, 6172, 3631, 39040, 25000, 33160,
      3191, 32784, 30911, 49453, 19877, 30620, 26035, 48040, 14056, 7394, 21223, 33361, 28411, 37487,
      25121, 38595, 10749, 24345, 29300, 22420, 4798, 10634, 4795, 44002, 41424, 163, 671, 47076,
      49743, 16052, 24817, 22740, 30784, 25476, 5542, 40761, 24022, 23177, 43668, 7758, 37605, 6548,
      24282, 4481, 3716, 10837, 38908, 9956, 31174, 34317, 27605, 26715, 30874, 31238, 14818, 33535,
      5693, 32371, 42468, 15422, 37285, 12411, 48856, 47455, 3292, 41779, 34171, 1382, 43108, 23312,
      34406, 46851, 32003, 41568, 23291, 31823, 6406, 9074, 28141, 28861, 5448, 29794, 44936, 37846,
      25032, 30158, 26526, 46332, 36618, 39256, 31497, 42913, 13828, 39922, 6430, 6610, 27286, 37947,
      20733, 12330, 18268, 12677, 35262, 28179, 33613, 8734, 11916, 28763, 11871, 45183, 7967, 23563,
      40108, 46659, 31822, 16920, 17347, 39905, 35732, 5772, 23429, 35298, 11138, 14716, 8429, 37685,
      31055, 25709, 31552, 5901, 8286, 29984, 8984, 5656, 28937, 38675, 7373, 48576, 6721, 24226,
      46484, 12686, 8264, 40461, 29619, 31750, 28495, 8325, 7629, 45033, 11421, 34594, 21932, 25169,
      12329, 33328, 31982, 36875, 24819, 5435, 4437, 10382, 24981, 17826, 24837, 37174, 36035, 18073,
      42685, 38067, 18880, 30682, 35585, 18792, 22641, 5782, 16163, 19169, 9715, 10699, 49259, 4895,
      26342, 20421, 13395, 32916, 16669, 32376, 18752, 41323, 26116, 29301, 37211, 7446, 33004, 15901,
      34447, 10754, 39891, 48834, 42891, 46479, 29328, 3083, 33400, 23197, 35433, 207, 28982, 25592,
      3374, 10526, 42828, 47556, 30137, 44843, 48030, 32007, 46877, 9686, 19201, 5249, 32581, 8533,
      40194, 45113, 48219, 40747, 49024, 34503, 14484, 4255, 47735, 2475, 10756, 5051, 3713, 6704,
      2472, 37957, 10106, 31367, 16456, 14210, 7843, 45408, 46820, 45799, 12323, 39532, 25766, 31007,
      10793, 33893, 17625, 49689, 29371, 44311, 32496, 47683, 23164, 32117, 28482, 4358, 46882, 17727,
      33537, 21400, 7421, 39420, 27213, 9160, 26122, 23711, 40390, 33755, 27042, 16014, 2852, 11695,
      41621, 14996, 17014, 29344, 17633, 26160, 42422, 3040, 16035, 37778, 145, 23384, 36041, 31910,
      7227, 36451, 39575, 45105, 34084, 35993, 49710, 31401, 9852, 38520, 10617, 16393, 37384, 28552,
      49309, 23253, 34068, 23669, 15222, 22668, 49374, 13673, 42668, 5495, 21675, 42368, 34566, 12149,
      42435, 24611, 6441, 8636, 24489, 18743, 23486, 3654, 7052, 29734, 44139, 34054, 20829, 34905,
      23171, 43596, 44976, 12289, 42641, 47788, 13467, 6894, 42652, 36378, 27117, 28211, 7151, 6012,
      46413, 46881, 37650, 13076, 45379, 44814, 36914, 8906, 39310, 21627, 27764, 4431, 47867, 33174,
      24596, 39338, 13178, 26987, 16173, 26966, 25519, 8234, 43790, 46819, 11563, 27598, 11556, 16353,
      21636, 32779, 4760, 1177, 31348, 26523, 43461, 35631, 6471, 28441, 22612, 41986, 12040, 35757,
      25537, 11207, 39778, 44298, 14437, 22443, 31010, 28144, 8927, 45360, 17824, 49701, 31324, 35643,
      12178, 9108, 34958, 37574, 27723, 23616, 3726, 26200, 41781, 40957, 1367, 3712, 38218, 17772,
      25426, 33768, 31116, 7761, 36321, 4114, 26213, 1667, 29165, 35941, 25923, 39882, 488, 19614,
      27208, 6924, 45743, 21592, 7848, 5704, 40901, 17087, 37873, 4033, 36059, 8125, 44633, 26984,
      13380, 42287, 49568, 46733, 47055, 13598, 48044, 48776, 30659, 37208, 42823, 29259, 49397, 48563,
      49069, 49251, 24089, 15504, 28625, 22473, 15577, 38006, 47414, 45141, 48844, 13669, 40287, 23196,
      42759, 41974, 42324, 10225, 4470, 17275, 43753, 1969, 12595, 32556, 38525, 22911, 39062, 12115,
      13605, 40363, 9110, 3249, 6570, 6638, 15398, 23857, 45272, 125, 38138, 1239, 35057, 41235,
      25611, 33997, 9200, 29856, 39748, 37946, 28404, 10724, 20677, 1058, 39030, 15360, 27420, 281,
      25619, 25892, 47614, 968, 16001, 20337, 34707, 17658, 619, 18309, 1742, 17774, 14135, 26155,
      9847, 36336, 26928, 26788, 15563, 6116, 35946, 19576, 42267, 6099, 16959, 43320, 23040, 23499,
      13994, 38663, 6276, 42240, 48732, 45917, 11083, 5724, 10831, 16653, 33397, 44738, 39198, 36142,
      12588, 32419, 20939, 21927, 13760, 43006, 2113, 26616, 35984, 45893, 3814, 41089, 35923, 47064,
      35046, 4599, 32781, 34414, 29052, 48906, 35133, 4648, 44965, 26916, 33142, 22861, 525, 41899,
      11561, 46678, 12765, 23279, 26723, 19975, 27490, 19342, 33297, 21116, 42229, 45241, 17778, 29426,
      12201, 45350, 11171, 26017, 26958, 49843, 12003, 22015, 31585, 31860, 25849, 6563, 4703, 15282,
      39063, 33723, 39443, 36221, 25963, 12803, 47908, 8595, 34839, 956, 46804, 7005, 30027, 33120,
      46286, 16309, 39004, 45500, 28706, 8946, 14025, 49974, 2920, 37412, 661, 16082, 39825, 10181,
      20049, 24363, 26911, 4790, 2356, 44662, 28380, 18311, 49594, 20022, 31890, 26745, 17650, 13612,
      1560, 44555, 10326, 7179, 15349, 15313, 46026, 36877, 29545, 21288, 33282, 33662, 8601, 16405,
      27961, 49935, 899, 32975, 48733, 33226, 26630, 35198, 24826, 13629, 25683, 3389, 26289, 36679,
      25291, 33320, 26015, 39685, 18440, 1925, 38850, 49114, 25003, 9078, 105, 3041, 16369, 10361,
      32857, 23398, 15525, 43201, 47219, 23116, 18333, 45004, 46824, 27424, 6368, 22431, 9127, 8905,
      35488, 30811, 29781, 46389, 8783, 49783, 39499, 43408, 9768, 46167, 3762, 32981, 30087, 48522,
      41688, 21804, 6154, 26143, 41125, 17773, 29009, 30015, 26589, 36935, 20172, 29759, 16967, 35201,
      5109, 9208, 48699, 8712, 34531, 13547, 28541, 11536, 47837, 3224, 526, 15251, 44859, 5655,
      41652, 38827, 17343, 39110, 30707, 20017, 46765, 17434, 8782, 8711, 3380, 36444, 5776, 39341,
      21563, 34375, 19994, 18639, 23019, 49997, 26385, 17175, 41752, 19440, 26431, 1980, 11425, 19982,
      44923, 12857, 7424, 5626, 32196, 34450, 28602, 16335, 39214, 33756, 32347, 28087, 47851, 44413,
      22042, 11722, 3093, 13261, 46766, 23411, 17482, 10396, 35612, 41846, 3342, 16422, 32232, 6540,
      23650, 14288, 36124, 13025, 26029, 11745, 44569, 48681, 29241, 27082, 27570, 47182, 31598, 7813,
      49679, 21510, 27083, 35196, 21427, 21730, 25338, 11939, 21195, 24860, 37567, 23821, 2353, 11383,
      20953, 9077, 8073, 14859, 49417, 7491, 45539, 49107, 7059, 13507, 16661, 5084, 26660, 25821,
      35150, 33339, 1435, 13281, 42207, 21736, 29257, 44486, 47517, 10706, 5445, 1007, 31575, 37311,
      12987, 7009, 31966, 34832, 1136, 9882, 30220, 21727, 10177, 33062, 26123, 26588, 18787, 26705,
      36766, 42534, 36509, 11700, 22890, 2719, 40329, 12713, 47638, 2808, 9017, 22534, 2469, 3738,
      20670, 46249, 26292, 32088, 33130, 39692, 18088, 31290, 47456, 2139, 19623, 7314, 20695, 34080,
      26572, 6183, 30561, 11303, 1591, 49250, 18546, 2396, 47327, 9516, 38001, 48626, 21452, 20420,
      41755, 3020, 9903, 40996, 29125, 41873, 46681, 5295, 3972, 21754, 14663, 4133, 33742, 40059,
      25559, 15585, 42520, 46542, 29192, 28841, 25931, 23265, 37784, 17602, 32284, 43642, 23874, 46007,
      18024, 17674, 44641, 17764, 34701, 37443, 10222, 33660, 7287, 7906, 28831, 24578, 47319, 26685,
      25425, 18850, 7657, 42874, 26172, 30448, 18297, 11362, 46600, 726, 7214, 8245, 15876, 14199,
      43513, 27376, 17320, 40042, 11593, 34157, 36332, 41844, 38197, 15934, 14899, 24262, 48280, 14561,
      34636, 29757, 40970, 806, 37573, 32123, 41898, 45028, 48952, 49952, 43194, 31883, 9155, 23895,
      15152, 4494, 35400, 47054, 48622, 25280, 40600, 47037, 32913, 34801, 32413, 24951, 33933, 44460,
      2050, 20144, 32733, 10816, 12676, 3430, 24574, 39837, 37129, 10616, 18155, 19895, 33039, 12984,
      8436, 29629, 45084, 49726, 41773, 49605, 30586, 3810, 13919, 29969, 27788, 9996, 29430, 37114,
      545, 8502, 44481, 15229, 9323, 13737, 28687, 48288, 27345, 7564, 15317, 44547, 6640, 28535,
      40998, 12651, 23510, 20662, 31705, 2983, 29866, 16514, 13409, 30907, 35435, 9374, 24077, 21776,
      614, 17850, 37265, 19426, 25510, 36062, 6737, 34268, 29398, 41786, 17905, 48908, 15023, 11122,
      4232, 24070, 8820, 37198, 44813, 16774, 28921, 19541, 22297, 12182, 41360, 4806, 29711, 48694,
      27935, 46617, 25064, 11918, 15896, 5319, 39887, 2421, 1750, 11344, 12254, 49666, 338, 24791,
      44623, 1341, 49452, 28470, 36408, 21520, 35772, 6960, 4090, 26212, 23051, 23393, 20581, 19933,
      9650, 41131, 20587, 34020, 28145, 45186, 24354, 13350, 48749, 18023, 9130, 60, 34008, 37904,
      35111, 15048, 34888, 1524, 40385, 32921, 47304, 481, 38890, 45420, 24058, 12112, 15850, 31987,
      1762, 48275, 8942, 40483, 21792, 23863, 29077, 4853, 2711, 23150, 28769, 31463, 11046, 24762,
      25712, 6819, 24063, 13081, 21874, 11555, 21172, 19250, 38709, 35835, 48829, 36397, 29373, 24027,
      35796, 35737, 11664, 27529, 8646, 47924, 46828, 30987, 4263, 29402, 17029, 15646, 40760, 16725,
      40809, 1622, 12875, 31896, 22180, 39952, 49177, 31653, 38243, 26665, 31889, 16458, 8996, 11372,
      41401, 17685, 23752, 34072, 41196, 36801, 35367, 12808, 2573, 27856, 35954, 28529, 37599, 20607,
      24557, 2106, 19063, 48285, 45648, 29975, 17771, 43861, 7083, 45960, 1279, 13221, 33572, 14596,
      11382, 37334, 29378, 49613, 15358, 37609, 19978, 22419, 23236, 42880, 8705, 31419, 13859, 41874,
      36220, 20079, 2198, 16032, 4425, 6150, 47057, 17327, 822, 47838, 21389, 41124, 12175, 18922,
      47917, 9503, 31821, 21591, 49410, 7970, 13575, 35822, 20059, 24160, 39986, 6722, 3300, 19694,
      31480, 8519, 10682, 30678, 47063, 10998, 45368, 44039, 49760, 19846, 26399, 40411, 16438, 47190,
      10093, 34249, 37641, 13087, 40806, 12342, 25522, 38565, 11485, 26737, 38000, 6645, 28865, 48302,
      38258, 33536, 18449, 23570, 28071, 7311, 24861, 42460, 20908, 27952, 2717, 2079, 27965, 33719,
      24442, 2482, 26838, 41949, 1759, 9984, 20806, 9916, 21566, 31195, 24917, 37011, 19816, 46163,
      4944, 27696, 38356, 16241, 10395, 19097, 4757, 28734, 37148, 46240, 22359, 19956, 45765, 5299,
      1990, 45080, 45719, 13490, 4971, 49677, 45994, 6783, 36368, 8666, 8070, 8577, 7973, 43082,
      34393, 25150, 40738, 13224, 32409, 36980, 39224, 31880, 9524, 11694, 2708, 39282, 37430, 34622,
      35840, 19256, 47523, 1645, 36185, 36244, 22116, 11053, 34560, 13718, 47882, 3797, 3368, 44327,
      39964, 20530, 44409, 41563, 27632, 126, 38727, 46403, 15343, 37219, 39915, 19915, 27306, 33595,
      26215, 15328, 17368, 44241, 7783, 10380, 10457, 2443, 24938, 10541, 814, 12999, 44165, 48855,
      43879, 14153, 12298, 5779, 34884, 33561, 10147, 39666, 35442, 16478, 48538, 20609, 3756, 35659,
      18755, 14382, 20103, 35996, 40631, 6359, 49021, 29486, 23710, 46197, 43872, 46714, 37380, 32265,
      19029, 2243, 38141, 2336, 17334, 32154, 44028, 1120, 32184, 10789, 33187, 922, 9446, 25053,
      5408, 5788, 15374, 21951, 31273, 24519, 17586, 31110, 27202, 41157, 1970, 11302, 4018, 26727,
      36455, 18381, 45558, 11246, 34016, 2192, 19096, 9184, 18574, 37438, 21526, 5984, 6565, 7804,
      11954, 39711, 28173, 29287, 9510, 43303, 18520, 17449, 14060, 16984, 20611, 40345, 77, 23930,
      19282, 15524, 21204, 23325, 30523, 41832, 8007, 21852, 5951, 43925, 36159, 5415, 8162, 19019,
      5256, 36298, 8567, 1908, 42929, 235, 12219, 31037, 17988, 40752, 42078, 28253, 36258, 26614,
      32293, 14231, 27534, 19216, 43336, 1342, 8512, 34387, 5287, 39809, 2219, 9865, 22422, 16644,
      49228, 45745, 20128, 47362, 39756, 32254, 20618, 1917, 1828, 42533, 45375, 12941, 39001, 2048,
      39051, 36976, 45587, 26386, 42101, 30105, 6469, 32043, 49286, 46514, 48153, 13703, 10954, 846,
      38328, 13234, 47077, 18935, 46685, 117, 41605, 22350, 28746, 14043, 41427, 16389, 38110, 9111,
      10787, 4324, 35358, 24818, 13046, 27446, 20119, 13918, 10589, 11613, 27139, 6767, 5622, 1605,
      26900, 27285, 28024, 3812, 47045, 17260, 10554, 10167, 34529, 48447, 19123, 35240, 15913, 6738,
      23275, 15728, 12199, 7943, 12910, 14369, 26069, 6371, 26734, 16616, 8258, 7561, 42563, 6168,
      44243, 3596, 39056, 4632, 47915, 6229, 29926, 49369, 49317, 10267, 45540, 38518, 8152, 46271,
      35854, 34674, 39650, 23333, 40441, 40940, 1531, 38638, 19181, 17302, 18030, 5122, 5126, 46391,
      15034, 4621, 39577, 16748, 48513, 44247, 2125, 8150, 28699, 8717, 45781, 55, 17022, 302,
      22195, 14178, 13568, 29721, 4432, 19262, 45162, 10478, 43221, 5240, 22574, 10488, 23321, 23624,
      16282, 46892, 26329, 42928, 27693, 18777, 16907, 39144, 39749, 13716, 23061, 36668, 37545, 45659,
      21969, 21508, 23954, 11314, 28732, 10161, 4188, 33434, 36034, 18271, 41240, 42679, 45415, 24071,
      22415, 11637, 6090, 6238, 15183, 40118, 24214, 17144, 6254, 45002, 12015, 36586, 39037, 4300,
      5569, 14388, 7941, 27169, 36932, 19963, 21833, 19856, 39811, 37660, 43088, 4854, 4637, 42318,
      31703, 28920, 17715, 10209, 23386, 25934, 6941, 8017, 42289, 6949, 39649, 13051, 15781, 26698,
      37441, 12173, 39764, 1252, 44238, 15254, 19758, 19198, 22928, 42808, 37626, 24285, 41348, 8427,
      42944, 37131, 32049, 28538, 43125, 14489, 7239, 47198, 36187, 26657, 42783, 49525, 37744, 4544,
      21949, 17100, 45106, 34816, 38765, 48212, 13456, 32201, 4809, 10916, 3636, 23524, 23574, 15106,
      38757, 9860, 49923, 18384, 12763, 29189, 47926, 40943, 404, 384, 8702, 40034, 10344, 18017,
      20384, 46540, 21168, 6938, 6970, 20309, 4158, 23833, 49390, 46318, 8415, 34961, 27712, 1015,
      37892, 29548, 23793, 19255, 9, 10136, 4804, 5713, 45445, 34349, 27532, 17308, 31471, 35547,
      13216, 38088, 40080, 47605, 38810, 20159, 4835, 37732, 27355, 33307, 31921, 40251, 19129, 36487,
      46427, 9337, 29703, 667, 23959, 24933, 21447, 11023, 10975, 34121, 13323, 7114, 24504, 41430,
      19087, 3330, 40821, 44597, 42356, 38413, 17640, 6190, 48529, 44472, 13843, 30354, 25826, 21732,
      11003, 27860, 27509, 20559, 37678, 34620, 22700, 45740, 36395, 2105, 49285, 46196, 37797, 17312,
      33591, 23960, 28016, 34299, 33982, 504, 14683, 42956, 39298, 42918, 42344, 25470, 13116, 30355,
      3709, 49508, 21233, 4748, 20652, 44482, 15485, 28710, 28178, 25289, 26790, 38069, 6588, 34578,
      19870, 23803, 35909, 25731, 1324, 37080, 40262, 26256, 41459, 17749, 26432, 42348, 13807, 28295,
      26962, 22556, 17924, 19065, 23322, 27569, 39081, 46732, 21677, 1542, 44261, 11516, 7056, 35307,
      17337, 23625, 48136, 6731, 37614, 6801, 24394, 37098, 8924, 38102, 23714, 9348, 37497, 22925,
      11174, 21689, 21545, 24244, 18540, 1062, 27192, 1167, 40419, 21972, 11130, 31667, 23576, 37259,
      21364, 8335, 5486, 32307, 17101, 35270, 4360, 36939, 24466, 49715, 16779, 13923, 47280, 39954,
      698, 728, 46959, 41555, 14397, 44912, 46352, 21352, 2914, 47320, 43286, 5644, 20150, 36208,
      44811, 32479, 7357, 23190, 34911, 5104, 37841, 17955, 20463, 17506, 48816, 47295, 35735, 18888,
      38756, 44425, 27384, 23548, 33496, 40355, 7543, 412, 11338, 26092, 38513, 24052, 17209, 3267,
      20358, 41576, 417, 11261, 9817, 15305, 49049, 23132, 25351, 28761, 27472, 27350, 34850, 27122,
      31996, 12161, 3373, 38494, 20491, 43404, 20764, 24107, 17450, 3913, 46247, 38304, 32320, 40770,
      38155, 28074, 35506, 5052, 4000, 26144, 35195, 11938, 6833, 18071, 851, 22687, 25471, 49115,
      29168, 30977, 38646, 27663, 4611, 16364, 9540, 41975, 9823, 35257, 44690, 23289, 40158, 2849,
      31843, 32580, 14069, 23049, 38649, 26646, 37220, 26211, 29222, 35247, 43225, 43919, 29899, 49657,
      13245, 30445, 13296, 44078, 9435, 27932, 19128, 7253, 13284, 3506, 1679, 19531, 8130, 47893,
      16964, 9662, 29375, 13500, 3343, 45952, 49012, 45543, 20056, 5237, 7805, 46175, 16896, 29305,
      1081, 9204, 34699, 23944, 1150, 5949, 8308, 32217, 25316, 25945, 47030, 37945, 28251, 14098,
      17214, 8311, 21136, 26258, 18077, 46185, 17019, 37233, 28940, 39567, 7987, 7079, 39734, 15202,
      4142, 32093, 876, 21699, 21606, 49156, 48747, 3051, 19508, 14599, 48096, 27236, 2491, 15338,
      29749, 4777, 42675, 31024, 31289, 22677, 28312, 33621, 10966, 13121, 32097, 13403, 22386, 25547,
      10893, 4495, 40941, 6655, 12039, 2368, 4780, 45091, 24376, 22009, 23355, 8716, 10647, 29592,
      38754, 19190, 5801, 39974, 40111, 12533, 40328, 40864, 27751, 784, 45017, 34177, 10729, 16538,
      35777, 18070, 11093, 4014, 7455, 45681, 36631, 34663, 38210, 569, 23093, 32745, 34584, 26641,
      19778, 6102, 35743, 10492, 190, 699, 45236, 301, 31216, 3420, 18711, 33828, 32635, 47202,
      43525, 36212, 17453, 43484, 18589, 8208, 40447, 44080, 37410, 45714, 9007, 40764, 27643, 29124,
      5600, 41919, 39790, 32352, 48404, 49377, 30746, 19738, 5895, 10677, 8754, 3436, 47333, 14373,
      6893, 17429, 19830, 45525, 40818, 41914, 4555, 44064, 4735, 20880, 33986, 46214, 22399, 3987,
      21295, 25876, 23328, 38467, 24736, 28643, 46760, 2869, 11969, 21357, 46975, 2961, 46940, 2200,
      16482, 38360, 2557, 48354, 42405, 5539, 32711, 12874, 29299, 12183, 6295, 4499, 1154, 15151,
      42642, 7400, 43016, 7158, 29855, 20932, 47357, 38191, 31616, 2049, 45936, 11835, 16371, 41976,
      25199, 31065, 46843, 16646, 30306, 20445, 21918, 47254, 47025, 39384, 8120, 8155, 1802, 37504,
      11111, 35153, 23078, 5759, 18343, 19360, 8680, 18227, 1734, 2911, 11411, 41106, 30206, 34754,
      6546, 47011, 2811, 26370, 15708, 44357, 20666, 42107, 27848, 25184, 22671, 15087, 44542, 34698,
      23509, 197, 40545, 40772, 2327, 37157, 25342, 12688, 44215, 32970, 4931, 21919, 26309, 38559,
      21556, 46717, 7392, 38623, 24548, 854, 46645, 47323, 37505, 28673, 26736, 27728, 20080, 1636,
      23664, 23938, 44417, 17675, 39353, 46576, 3304, 30303, 28021, 7994, 34766, 663, 13545, 32562,
      31968, 3748, 29320, 5530, 21959, 40294, 9474, 27251, 6776, 1306, 30080, 23776, 44262, 21976,
      15707, 10230, 26105, 18047, 21834, 42941, 48925, 25939, 3627, 46699, 29723, 29467, 2693, 44020,
      49080, 42557, 43689, 43585, 22299, 27890, 9914, 16198, 33827, 1678, 6374, 40342, 14820, 18141,
      22403, 45151, 41523, 48702, 23419, 22361, 21518, 206, 25446, 45453, 6910, 33270, 17412, 27266,
      13773, 8110, 47716, 32482, 5056, 42530, 24538, 10965, 19115, 30818, 14039, 11837, 35222, 23599,
      48033, 13067, 30535, 8392, 22662, 38952, 26854, 3561, 38660, 12666, 13986, 33159, 39504, 22002,
      5258, 48190, 2695, 2027, 2568, 40774, 48984, 49216, 38044, 39976, 8571, 39099, 21243, 12185,
      21271, 9268, 17262, 8529, 24300, 23247, 24276, 24253, 1016, 25851, 40397, 29127, 11534, 32606,
      33763, 26557, 37065, 161, 5675, 6873, 45758, 9692, 40757, 13417, 43573, 11653, 1021, 19457,
      23939, 3943, 1585, 26531, 35920, 14541, 40994, 44974, 17159, 48555, 23483, 2612, 23897, 11016,
      43001, 8433, 43021, 43323, 8792, 10627, 21777, 14502, 30740, 41606, 3890, 3556, 11394, 31551,
      1267, 1899, 35773, 19118, 189, 2747, 18431, 18942, 25658, 41434, 27480, 6396, 28693, 19769,
      17568, 39188, 37819, 5311, 2433, 769, 1685, 41090, 16023, 44131, 47191, 21962, 37194, 16850,
      6265, 11284, 44732, 38158, 860, 15795>>

Permutation50001 ==
    <<33553, 9427, 199, 12447, 39489, 42725, 10822, 49499, 4144, 36958, 43107, 38695, 6188, 1414,
      18471, 29282, 15177, 34304, 12609, 12144, 6113, 15908, 821, 15118, 13466, 26497, 42112, 30188,
      37237, 33109, 36480, 24148, 5503, 3918, 38478, 21123, 49718, 42295, 47610, 11076, 41514, 22062,
      9413, 38340, 30263, 41252, 14644, 26335, 28102, 17523, 24712, 40485, 3850, 40040, 15267, 49147,
      30001, 45927, 43825, 17240, 4892, 725, 22949, 34657, 37213, 20304, 15269, 22367, 47559, 46735,
      11732, 18619, 48493, 26803, 44306, 48779, 32207, 2530, 17746, 8270, 15079, 13624, 30638, 30440,
      36056, 47735, 36803, 48225, 29226, 5633, 5987, 48064, 1812, 27578, 16823, 3928, 37286, 25045,
      15727, 29600, 10430, 25768, 29103, 36537, 39328, 35539, 28075, 17840, 27802, 7682, 24279, 33070,
      35557, 37189, 47150, 46916, 9801, 38800, 24669, 44234, 31919, 7134, 33704, 29660, 17893, 22018,
      13538, 43119, 36420, 9405, 13413, 6720, 15601, 44744, 31138, 2729, 38242, 29625, 47895, 42091,
      36399, 6244, 5545, 4064, 12851, 21802, 41163, 6232, 3862, 35094, 40195, 39250, 6217, 36775,
      42977, 48468, 14831, 30092, 8893, 6020, 46089, 15242, 45308, 26550, 6034, 7905, 32225, 6017,
      21879, 2791, 42606, 5823, 15387, 29561, 39475, 292, 16957, 30860, 14073, 21856, 22079, 17023,
      8739, 15825, 2741, 18048, 49937, 17372, 22021, 46365, 23537, 48024, 40185, 9613, 43282, 37891,
      26178, 47960, 20933, 40971, 22224, 24381, 34855, 48578, 38536, 31755, 7753, 46639, 43835, 26235,
      44230, 49597, 18552, 43137, 36672, 43650, 3940, 31496, 26593, 23921, 26402, 45943, 48526, 18315,
      36893, 26695, 42128, 14170, 3732, 7881, 6016, 23029, 35473, 49686, 4817, 41694, 12007, 41327,
      9506, 45055, 34062, 27474, 31143, 21235, 1390, 38249, 37624, 42029, 20834, 14757, 26396, 6808,
      9225, 43195, 5395, 6943, 23870, 32492, 36345, 10755, 12301, 48387, 42746, 29089, 44713, 14343,
      38172, 5071, 24121, 48810, 17820, 1122, 11264, 30579, 45465, 44065, 43045, 15656, 1900, 147,
      29642, 3211, 43851, 2354, 31520, 42584, 43338, 45285, 46957, 48791, 36585, 10465, 7821, 7205,
      6413, 34046, 12728, 6925, 27995, 37612, 39483, 3016, 1640, 8883, 37601, 12969, 23463, 15757,
      44077, 4086, 508, 6354, 29644, 20815, 6234, 31989, 12995, 42502, 38920, 262, 7891, 10527,
      18600, 24114, 33498, 13471, 31725, 23690, 10557, 6556, 45578, 41503, 27872, 10810, 38214, 11730,
      27438, 21779, 34079, 22915, 8085, 43468, 14709, 15466, 37172, 28748, 3104, 708, 38385, 23444,
      26510, 8466, 6230, 46359, 39357, 16386, 34165, 4168, 5803, 12753, 2189, 12187, 31727, 19245,
      37866, 43515, 8718, 28824, 24468, 47518, 7201, 9282, 26820, 27373, 22492, 45638, 45880, 29339,
      46548, 10803, 20964, 30032, 5222, 659, 33245, 5865, 48872, 22985, 28880, 42822, 26527, 9647,
      49546, 32374, 26158, 11711, 27238, 18353, 49515, 21724, 25924, 41389, 4772, 35204, 27878, 5874,
      17804, 34223, 7841, 15922, 28366, 12083, 20033, 14487, 20818, 37517, 44236, 48651, 36235, 21069,
      9523, 32755, 12053, 23593, 8037, 46977, 16399, 45786, 34615, 7624, 13661, 37736, 26541, 13267,
      18082, 48086, 42768, 4070, 16286, 1118, 10074, 11373, 32684, 46434, 25349, 6715, 34567, 1030,
      22753, 11761, 35896, 14492, 25085, 20395, 4813, 8994, 49692, 21374, 30242, 47579, 1164, 24810,
      21109, 3697, 11438, 4469, 9807, 47768, 6748, 45107, 17378, 36884, 13356, 32404, 42455, 46066,
      11538, 2008, 3221, 41876, 18762, 14165, 40683, 25080, 1822, 48040, 6848, 12635, 37668, 6095,
      39248, 10577, 31074, 29112, 10192, 314, 11449, 30745, 29702, 27658, 23685, 28375, 3085, 49372,
      3751, 5048, 29186, 30708, 20146, 32249, 4969, 30525, 18494, 38064, 41837, 32752, 20073, 26273,
      13649, 25533, 17521, 25480, 47296, 48788, 32389, 5086, 17252, 4039, 18386, 4246, 18627, 879,
      23298, 29752, 30172, 28559, 18863, 43344, 34210, 26083, 1941, 22225, 44692, 43628, 23859, 14158,
      33875, 48105, 23449, 6623, 38264, 26241, 46480, 24155, 32058, 9331, 43565, 3493, 4878, 48683,
      998, 37086, 36437, 34749, 28616, 37095, 22810, 7142, 21558, 9935, 4788, 30510, 31189, 20083,
      10823, 672, 15594, 43049, 21911, 11868, 34690, 11321, 44212, 24614, 12005, 3939, 4613, 36759,
      31458, 44953, 4347, 39327, 49923, 22393, 3156, 29917, 37223, 13478, 13871, 38555, 25329, 44685,
      985, 37139, 35033, 23730, 7530, 44395, 32948, 30877, 29930, 23415, 6059, 23679, 15940, 6948,
      30095, 41339, 49599, 33183, 16580, 1388, 21350, 49751, 34431, 24454, 40359, 18577, 33451, 47853,
      4, 29182, 8230, 5946, 7822, 19486, 15384, 41099, 18183, 27161, 11645, 24390, 4850, 47436,
      48249, 45341, 28169, 3419, 47753, 38734, 36719, 29497, 4362, 4028, 3426, 20268, 20057, 11478,
      47945, 29392, 29046, 8564, 39506, 49805, 25449, 34921, 30477, 13519, 34007, 21315, 42425, 48901,
      47633, 49789, 44232, 10723, 13154, 13762, 42812, 30803, 36260, 21436, 25970, 32203, 7180, 41280,
      28086, 13701, 1003, 9058, 44235, 25674, 45056, 35143, 38162, 22476, 23006, 44896, 36127, 49710,
      13098, 37195, 4107, 41335, 25222, 35839, 29718, 46953, 29827, 17542, 24915, 4513, 19936, 46525,
      24510, 27441, 12001, 23353, 27292, 34203, 12147, 15291, 46880, 8690, 12653, 31469, 2954, 3003,
      15813, 6656, 12773, 39530, 34407, 8836, 14617, 22835, 15980, 37915, 1570, 35907, 26089, 20913,
      9957, 18275, 15431, 23493, 15789, 35779, 11980, 44906, 35762, 27092, 46835, 33437, 47381, 1590,
      26755, 21758, 3001, 44112, 43520, 628, 20736, 11902, 6366, 17132, 9478, 41871, 12932, 13641,
      19626, 9951, 28962, 28445, 19698, 44224, 2996, 13637, 22470, 36086, 28917, 17649, 27955, 2854,
      13389, 13048, 22332, 30577, 34734, 19538, 39586, 5572, 47751, 30963, 35495, 20262, 44660, 21745,
      47249, 36227, 28786, 35619, 46000, 49513, 44515, 28683, 31548, 31964, 9433, 22373, 21622, 12451,
      11799, 31388, 20768, 4828, 14589, 1507, 18612, 19302, 38309, 1738, 35875, 47068, 5114, 24906,
      7635, 14398, 36170, 9183, 36796, 37622, 1655, 4326, 27377, 19044, 44329, 9661, 15914, 25466,
      13610, 11670, 1219, 38863, 12557, 39143, 35508, 11852, 13238, 29950, 27984, 22090, 48990, 40639,
      28911, 8570, 38431, 40525, 35549, 29487, 26037, 19370, 44735, 6915, 14998, 16750, 29959, 28856,
      38911, 5843, 15769, 27098, 34726, 20930, 12313, 8293, 49409, 22319, 20486, 22610, 12465, 41512,
      48610, 17672, 8565, 42906, 33294, 12928, 8383, 26546, 21160, 25331, 416, 38313, 40758, 1406,
      27988, 20657, 46982, 29901, 32869, 21613, 18692, 14462, 13529, 29804, 1444, 18218, 45064, 30646,
      49168, 39989, 44756, 48346, 42970, 20419, 10896, 45621, 36349, 19312, 5582, 6682, 30679, 28388,
      6847, 15981, 33675, 46660, 7565, 20728, 7411, 25354, 47739, 9758, 9767, 7133, 28593, 41209,
      23111, 44347, 22809, 20507, 45706, 21761, 21495, 11504, 32456, 44210, 43813, 18264, 41114, 20034,
      10075, 37296, 14276, 35780, 16870, 4229, 49030, 167, 14446, 36716, 36164, 14473, 44427, 46117,
      30625, 9960, 38722, 28344, 16437, 8853, 17363, 4580, 48545, 44680, 15192, 31447, 5525, 39227,
      3467, 15073, 48303, 13609, 18785, 39757, 24216, 33985, 11625, 12136, 12628, 28347, 42625, 5872,
      48244, 33981, 31260, 12292, 47840, 13664, 12950, 31756, 14513, 20457, 41546, 850, 34767, 24912,
      17969, 28376, 9889, 46456, 38499, 16247, 8786, 35429, 19103, 44143, 14786, 18216, 29736, 18194,
      49271, 20185, 38610, 22655, 31785, 36666, 44905, 6079, 15555, 48062, 24407, 44889, 6424, 46203,
      42285, 42713, 41460, 28417, 18150, 30623, 3150, 18184, 26730, 12514, 36055, 40832, 34373, 49864,
      34307, 46162, 37975, 21232, 20326, 27004, 45594, 25847, 7439, 37340, 10026, 20965, 7284, 30274,
      49968, 31158, 15617, 9618, 28872, 37267, 18810, 32953, 29893, 32504, 27731, 31313, 31844, 4273,
      47404, 23361, 2322, 14972, 16451, 14545, 19313, 23670, 37049, 45913, 26319, 33921, 6322, 465,
      3253, 10986, 14750, 14784, 564, 43127, 12724, 33807, 7298, 25388, 19685, 34488, 37827, 3593,
      12400, 29939, 24854, 21775, 38918, 7525, 8901, 24778, 40303, 39665, 31512, 26722, 11904, 32149,
      48832, 21257, 43773, 44110, 32748, 34535, 31920, 34536, 9073, 2338, 17026, 20214, 10992, 16339,
      49127, 42628, 43377, 7270, 26457, 16281, 8726, 24192, 29727, 1566, 43977, 11753, 37022, 34920,
      13365, 37398, 36168, 12425, 644, 1039, 28076, 11214, 332, 6483, 46602, 32732, 8178, 16758,
      47722, 33287, 45683, 43321, 35572, 28809, 20361, 4449, 47535, 18203, 18726, 28131, 12915, 46304,
      39061, 15509, 16421, 2574, 38350, 34002, 10600, 6936, 34096, 38822, 30888, 1498, 29445, 29517,
      32131, 31914, 20537, 31679, 28406, 42357, 47069, 28691, 48330, 43258, 13534, 35458, 4859, 30931,
      14074, 39011, 15444, 42471, 42825, 484, 40139, 35248, 47553, 35751, 31134, 19232, 14475, 29800,
      31801, 24675, 5236, 28201, 8042, 3767, 31209, 22329, 37277, 29832, 7524, 6807, 11098, 4729,
      6769, 23257, 9553, 11910, 25133, 19366, 16002, 1644, 49067, 20134, 28821, 27636, 40657, 3279,
      45227, 39537, 44981, 22665, 8248, 16166, 31708, 37417, 38542, 38705, 40564, 26084, 17004, 42437,
      6705, 10172, 22085, 46241, 5152, 13059, 17721, 42214, 24801, 20155, 5146, 32729, 46428, 49477,
      39442, 43121, 18576, 41585, 35108, 36717, 20616, 17768, 16397, 1232, 40279, 11069, 32393, 9430,
      17863, 34417, 44845, 27616, 13034, 1603, 25036, 45999, 8537, 28601, 30644, 37321, 17284, 8375,
      32582, 45446, 15350, 42886, 33626, 1536, 42912, 21190, 1181, 6583, 11499, 30780, 10126, 13022,
      34212, 42796, 21228, 4455, 8440, 5712, 27662, 19824, 31175, 11709, 15719, 20475, 18424, 9549,
      43966, 31206, 12967, 41470, 46711, 9293, 38335, 18614, 38274, 4519, 22109, 42243, 18222, 45396,
      4884, 4506, 42664, 25811, 11124, 664, 19130, 40410, 18299, 6684, 501, 28098, 44872, 32650,
      41288, 33570, 31892, 49651, 48952, 18087, 11178, 19602, 13251, 16416, 23206, 39880, 39375, 11436,
      45573, 29463, 6736, 20686, 17049, 45512, 4844, 3272, 32713, 33177, 49771, 31807, 33269, 16095,
      8904, 8406, 5012, 4243, 15418, 41123, 29755, 32163, 31979, 36443, 16481, 1114, 14875, 6266,
      39208, 32426, 11917, 23180, 41353, 35148, 30572, 47807, 44943, 42791, 20996, 34298, 22048, 2528,
      30518, 29540, 27440, 43855, 26938, 2984, 14773, 27927, 22425, 26389, 42169, 45903, 19185, 18986,
      29620, 20560, 35149, 24234, 15433, 2863, 23219, 16662, 15767, 14478, 9955, 31402, 21049, 34969,
      24268, 23204, 3377, 1599, 476, 10798, 8639, 22142, 22182, 9932, 21046, 45443, 36231, 43953,
      38326, 38592, 17781, 29875, 31070, 22256, 9459, 10665, 8331, 25865, 48002, 17554, 38886, 28590,
      15302, 27980, 19593, 11839, 19062, 26700, 39868, 18826, 44783, 13473, 1811, 5576, 13604, 45815,
      19287, 49233, 2213, 27630, 43905, 30731, 21255, 22982, 16039, 2672, 29363, 2608, 20496, 46878,
      5159, 39381, 35576, 34234, 32777, 11401, 10504, 33526, 41590, 5754, 44771, 22011, 45389, 20937,
      21934, 8034, 7126, 45114, 47791, 46123, 35846, 34582, 13082, 40646, 21905, 25238, 35975, 6496,
      43694, 33524, 20701, 13312, 10036, 14164, 31154, 24948, 35308, 47637, 32907, 45610, 5253, 19104,
      32805, 40516, 3882, 22988, 31224, 3418, 38929, 23541, 26354, 19771, 10189, 44563, 44561, 44945,
      5195, 37255, 31610, 2191, 31039, 46777, 7785, 46173, 42979, 48127, 3154, 22795, 29895, 16912,
      41042, 42716, 7441, 12848, 12619, 19746, 1422, 26894, 6065, 37616, 37028, 43198, 29228, 29835,
      22685, 22341, 46692, 34759, 5215, 48813, 46891, 39364, 41675, 2899, 13307, 18861, 14160, 15153,
      2561, 7308, 19223, 39543, 33680, 39097, 44841, 44615, 27191, 17476, 14803, 26837, 10262, 44191,
      43279, 30948, 42990, 19709, 28468, 543, 23822, 28066, 34415, 39627, 1163, 29746, 2210, 23001,
      32300, 46321, 28827, 44405, 18198, 1901, 37460, 17692, 28200, 24782, 28968, 38888, 35968, 30875,
      38948, 15359, 42282, 44470, 19714, 11607, 36167, 35571, 30441, 39646, 45247, 10434, 45592, 33540,
      4162, 24261, 27618, 17466, 2441, 6211, 16368, 6896, 27590, 27721, 6400, 46283, 30127, 19027,
      33821, 32756, 46333, 31632, 18558, 16625, 17531, 37647, 33395, 17827, 14427, 1005, 5488, 45616,
      17406, 454, 4244, 39505, 43384, 34292, 41413, 44592, 31953, 29980, 9391, 22338, 11708, 12966,
      45665, 12824, 29861, 36407, 19204, 7776, 35972, 46216, 26542, 26716, 41854, 15469, 27055, 11062,
      12110, 14518, 37532, 33612, 13433, 3053, 17452, 27505, 48931, 20000, 39079, 9273, 10134, 2982,
      31599, 47438, 40223, 5770, 34870, 28999, 16320, 38544, 14815, 17962, 23647, 8479, 22895, 18853,
      39474, 9353, 25042, 46016, 2757, 12214, 23491, 28027, 4128, 30611, 7915, 27687, 25572, 2182,
      29965, 26216, 4822, 2110, 20931, 25270, 176, 5683, 47938, 32858, 28221, 28530, 15849, 23744,
      43284, 20613, 27819, 38872, 27587, 41890, 23872, 10915, 22989, 47402, 20374, 24683, 8053, 1741,
      25116, 24184, 13631, 4303, 21987, 35719, 23460, 10444, 42407, 15709, 33009, 10279, 20945, 5653,
      4816, 36890, 39173, 15056, 13943, 21681, 35499, 11028, 4448, 39838, 42197, 32525, 30352, 27614,
      20949, 45485, 38587, 17249, 3431, 44770, 1792, 4865, 27415, 17914, 37332, 7592, 47135, 44991,
      40268, 5169, 35151, 43057, 32957, 40261, 11807, 43649, 2710, 12883, 46276, 48371, 5227, 34401,
      46702, 5186, 13709, 18172, 39229, 2579, 35600, 38532, 29484, 25442, 47118, 1584, 47460, 18329,
      8188, 8931, 33140, 21588, 30813, 45261, 4867, 9100, 21006, 42996, 28563, 41966, 21028, 21397,
      30758, 26869, 1704, 41473, 49579, 47743, 11568, 31448, 30878, 34154, 8407, 43464, 10016, 11044,
      28437, 27224, 25453, 4421, 1276, 27243, 330, 20294, 2432, 6347, 31809, 23468, 17391, 36044,
      39580, 20255, 26719, 9725, 42726, 14845, 4883, 40465, 41336, 9798, 16429, 4264, 28501, 48837,
      19785, 15631, 11901, 16112, 3715, 43726, 1180, 6067, 36253, 41884, 949, 36502, 8200, 49181,
      48905, 48862, 42700, 44391, 12146, 29208, 37981, 20969, 7990, 4672, 4459, 25593, 11113, 34680,
      15868, 31413, 13620, 4155, 27884, 16929, 26669, 46133, 29242, 27539, 25149, 20794, 18684, 44362,
      13326, 34829, 29952, 22771, 16947, 7708, 21155, 2360, 49376, 33641, 34694, 49724, 36525, 12006,
      31489, 39707, 17008, 26175, 30833, 21444, 43180, 29987, 30721, 24787, 44492, 44779, 32429, 10989,
      22847, 6676, 14528, 15809, 3502, 11948, 11209, 4108, 5035, 42331, 18272, 44639, 2522, 23166,
      24676, 38153, 7168, 12365, 21082, 43742, 39135, 33582, 31702, 38237, 22358, 48247, 5929, 38282,
      40523, 14749, 11034, 25200, 29458, 1175, 38937, 48126, 47643, 6049, 35664, 38144, 33825, 25386,
      41041, 24932, 9763, 36881, 3776, 10003, 13033, 19663, 3037, 46902, 7063, 4233, 27604, 19646,
      4982, 21176, 48272, 469, 12859, 33449, 18378, 25309, 24708, 29070, 4775, 25024, 33432, 17075,
      18054, 11668, 1097, 5370, 39072, 30513, 1282, 37580, 41091, 12581, 39515, 48075, 15477, 5522,
      23811, 48467, 33046, 38195, 21193, 47889, 10741, 48560, 25841, 43817, 842, 10054, 2059, 6204,
      6175, 7365, 38301, 3919, 32633, 12551, 40576, 33748, 9531, 7220, 21671, 16781, 41582, 45018,
      10389, 29212, 17176, 46989, 47499, 1710, 47542, 46408, 26941, 33611, 28107, 31398, 46193, 3168,
      48316, 25984, 5046, 15712, 3210, 45043, 14085, 14764, 44103, 19413, 4348, 12725, 34024, 41113,
      37931, 16253, 42985, 27291, 13912, 26574, 43741, 15673, 3396, 11070, 45456, 9887, 22903, 16828,
      20251, 43250, 33083, 48499, 13247, 18097, 20565, 35974, 32459, 7272, 18874, 17624, 37773, 4829,
      4855, 33173, 21212, 16754, 32891, 27947, 15335, 46684, 16162, 24449, 3570, 29637, 42040, 16125,
      7949, 44805, 34330, 2493, 47487, 13150, 33198, 17031, 39393, 47115, 14595, 33942, 15500, 11165,
      41653, 29645, 36288, 33599, 18442, 6923, 36511, 46482, 8492, 29050, 19647, 11474, 25787, 10271,
      19304, 28153, 27705, 47009, 37284, 40351, 23678, 1863, 39934, 2593, 11037, 33899, 4976, 13632,
      20638, 33647, 36557, 22309, 26376, 41376, 28503, 34232, 3698, 26139, 42603, 29490, 45840, 14736,
      35955, 3519, 29413, 43375, 4962, 47216, 17770, 16071, 45843, 3885, 21824, 15724, 2004, 6056,
      22292, 3136, 21728, 13097, 34427, 44344, 49722, 44727, 4315, 11433, 33238, 47413, 29366, 31023,
      17621, 13352, 25260, 4805, 45637, 29468, 30896, 22883, 42329, 28814, 34796, 48681, 16522, 34410,
      30293, 16861, 37199, 37714, 26361, 23392, 40906, 36273, 34975, 48572, 22636, 38160, 32790, 34515,
      341, 28851, 15639, 7481, 22172, 16235, 34439, 9303, 31763, 4408, 15127, 20465, 15178, 16048,
      22269, 48939, 19681, 18683, 35535, 16107, 13759, 24493, 33814, 38796, 9828, 37810, 45298, 36296,
      19138, 28889, 11429, 8473, 31428, 25229, 48134, 5343, 6429, 10098, 32319, 19891, 7468, 34029,
      38247, 9620, 24560, 5297, 10439, 18110, 9561, 48361, 7456, 8663, 43406, 13506, 6890, 46831,
      46704, 39126, 38472, 6193, 33180, 4252, 15953, 30520, 22807, 21583, 2418, 43474, 24109, 36560,
      31405, 29905, 1954, 35071, 45791, 10657, 3025, 27391, 13970, 2116, 44219, 18633, 7920, 31122,
      7342, 22167, 14131, 2868, 3653, 21994, 22371, 26473, 9736, 49794, 26600, 25541, 38905, 15085,
      40412, 18278, 18289, 2969, 28556, 6835, 45468, 13579, 32128, 23443, 144, 29706, 9877, 17581,
      33251, 16344, 24103, 47235, 4622, 40552, 1253, 13075, 28364, 7143, 17838, 31492, 30168, 41841,
      40084, 12800, 6194, 13685, 23379, 27063, 34162, 45521, 16542, 14563, 26765, 49616, 10853, 29180,
      39362, 38959, 12371, 44510, 28232, 12123, 17311, 33817, 3617, 1121, 48746, 26185, 31588, 43814,
      24803, 28452, 35351, 32605, 31577, 32897, 21748, 10210, 30478, 24526, 39453, 48003, 21365, 22815,
      33753, 41620, 20330, 27651, 16033, 45694, 43624, 7879, 2084, 36920, 12687, 13321, 17832, 32610,
      46169, 45418, 4035, 23656, 19012, 44034, 399, 28160, 17436, 41095, 22494, 30822, 20050, 40022,
      12759, 31166, 6467, 32237, 1372, 38358, 926, 35817, 10115, 8318, 26072, 29729, 9625, 3785,
      20885, 6904, 6478, 27148, 33657, 38899, 26816, 35546, 41571, 24447, 30245, 22557, 45579, 17735,
      25980, 5864, 6529, 10536, 28212, 7360, 38902, 12510, 10453, 18377, 20737, 48935, 8393, 21102,
      1162, 2531, 7844, 26047, 39016, 41843, 12702, 33512, 19802, 5751, 34355, 30769, 36492, 25057,
      15821, 28283, 13650, 40570, 17172, 12283, 35460, 34059, 35235, 26633, 24470, 18415, 18954, 37193,
      20718, 37400, 3263, 46180, 31125, 42233, 43714, 7024, 17498, 29712, 32787, 15107, 2476, 48078,
      11348, 29034, 1911, 27727, 36499, 42094, 49531, 27311, 14598, 12074, 41320, 28987, 2098, 19533,
      34939, 8023, 13253, 1985, 26011, 3335, 26620, 11744, 18476, 47612, 25536, 20864, 43447, 8006,
      29076, 43721, 23000, 28193, 21512, 21024, 15294, 11661, 31718, 42116, 28241, 43152, 9694, 25565,
      34444, 14109, 12958, 23314, 17926, 20413, 22458, 46603, 5676, 43367, 33871, 609, 30920, 25259,
      30393, 38325, 44289, 48465, 9289, 26406, 28058, 22295, 22051, 41670, 12512, 48576, 18775, 15714,
      7976, 33175, 47635, 8344, 30589, 11897, 25495, 22321, 17679, 12469, 4657, 43002, 1687, 22181,
      12791, 8040, 31061, 35026, 14829, 38848, 20062, 28277, 34547, 10904, 19220, 24429, 47350, 18111,
      3541, 25562, 6759, 33829, 21275, 38232, 14350, 1226, 9159, 25665, 20544, 4119, 277, 19036,
      20046, 38648, 37312, 853, 43087, 46494, 19535, 16463, 36746, 29860, 884, 47056, 21461, 9403,
      33415, 40743, 23976, 28139, 46079, 20717, 27647, 29970, 24242, 3035, 6976, 31765, 23701, 22077,
      19235, 19892, 36414, 43916, 14697, 28275, 49862, 49925, 49960, 10092, 47577, 34858, 12805, 12422,
      28728, 41924, 28236, 23310, 27811, 14711, 18794, 6888, 771, 2767, 33762, 43247, 32832, 13062,
      44157, 34736, 24513, 46126, 38234, 25209, 26934, 21362, 32640, 46346, 22572, 31854, 5223, 13179,
      17123, 20089, 5966, 36447, 646, 3780, 20231, 19263, 24761, 17160, 30809, 19735, 43669, 38059,
      429, 9911, 4016, 2975, 22227, 42580, 31427, 38533, 32233, 37010, 18750, 48448, 8409, 10406,
      23955, 23041, 19833, 48428, 7268, 44997, 1138, 4985, 2885, 48414, 14977, 38403, 23791, 10993,
      44173, 26581, 3120, 39202, 37447, 4057, 31985, 48842, 18869, 27739, 7070, 33874, 29558, 17583,
      43157, 18583, 13458, 17724, 4569, 31513, 21496, 18175, 6329, 14874, 40462, 47442, 39230, 30146,
      49825, 198, 1448, 17757, 44012, 10268, 32008, 20833, 34626, 8659, 10045, 16379, 17244, 31570,
      19723, 40336, 12618, 5746, 44071, 43135, 23575, 47224, 25326, 44217, 19819, 47714, 45674, 41828,
      3840, 34965, 5645, 33931, 25315, 23046, 9672, 45834, 9242, 35274, 32446, 681, 45180, 49699,
      41769, 8812, 40264, 25266, 49380, 28591, 12758, 8474, 24802, 13505, 18215, 44985, 6224, 33322,
      32156, 45144, 10460, 34110, 36900, 36462, 585, 26501, 39109, 29316, 23208, 43786, 23584, 47615,
      40064, 7650, 7584, 40551, 36927, 13373, 13484, 24492, 2463, 9829, 31684, 37428, 20339, 48860,
      48808, 47408, 27506, 17552, 23514, 26006, 46860, 29596, 18046, 44419, 31562, 34962, 7055, 7646,
      25770, 46904, 27719, 28448, 41774, 24384, 38939, 36465, 10927, 42424, 12894, 41067, 26106, 45575,
      3290, 34117, 11427, 15054, 19474, 3494, 5264, 12377, 20366, 45678, 40829, 6916, 18027, 37745,
      21328, 20279, 42540, 16545, 14067, 20630, 21239, 27152, 26634, 10821, 19015, 14759, 18119, 42882,
      36207, 49475, 1824, 46195, 25434, 40078, 8909, 20853, 27450, 31937, 6946, 9685, 34334, 46759,
      28474, 18668, 37156, 3564, 28540, 18049, 28079, 28532, 21420, 322, 47971, 19345, 14804, 45992,
      45620, 49166, 28279, 38831, 29276, 27488, 47956, 10496, 42663, 5528, 35387, 31208, 40987, 21332,
      3402, 7780, 27135, 45930, 25715, 22229, 482, 28661, 14181, 39684, 8790, 38978, 40401, 2874,
      44718, 22603, 37027, 44394, 4215, 33067, 13591, 44341, 38869, 46869, 373, 48582, 39616, 27088,
      32024, 21634, 4579, 39392, 17782, 40302, 19516, 28309, 12617, 35498, 35884, 31744, 48721, 13911,
      7094, 15400, 42130, 29297, 33129, 29116, 7687, 45115, 62, 25109, 12024, 37595, 7892, 20265,
      49707, 41815, 22681, 29909, 2385, 25884, 3184, 21752, 8358, 4995, 19990, 37218, 45048, 13734,
      6111, 5373, 42275, 12431, 7918, 35811, 37630, 12140, 39634, 9645, 43842, 36448, 25313, 46536,
      5304, 38769, 22445, 10324, 37746, 41364, 3180, 29109, 26629, 17020, 4614, 30558, 428, 45145,
      36165, 45410, 43339, 21861, 24211, 10365, 39272, 33412, 20849, 16842, 9998, 23186, 7497, 5459,
      4573, 8171, 33839, 23588, 43744, 7294, 25913, 16357, 36329, 46763, 13263, 33510, 44106, 11192,
      27638, 35305, 17714, 32663, 13167, 25290, 27401, 12457, 2185, 37087, 21358, 40553, 25253, 2494,
      11032, 13611, 26444, 41257, 11762, 5235, 5763, 19732, 39017, 36078, 44768, 28280, 46355, 47867,
      42930, 47079, 18151, 41440, 18346, 21522, 39092, 29608, 19136, 9384, 21112, 43031, 16158, 24592,
      27461, 10166, 34915, 34137, 31230, 44958, 3030, 29206, 31460, 40776, 43706, 28614, 30870, 9068,
      22921, 36211, 30420, 3227, 44490, 25419, 32343, 30372, 18379, 35715, 43932, 5707, 49578, 26772,
      37654, 385, 39190, 3375, 29724, 18892, 30061, 3863, 44042, 7209, 3366, 14441, 15970, 45343,
      6075, 32810, 42824, 38201, 32661, 2095, 28780, 47101, 31465, 3758, 30136, 13342, 37833, 16918,
      26792, 28791, 43172, 47795, 13674, 19393, 16765, 11313, 46457, 22608, 8920, 1281, 46450, 33863,
      9064, 39821, 23077, 24065, 914, 22125, 23364, 31431, 26749, 33779, 41928, 17471, 19315, 44429,
      32656, 36917, 898, 23558, 46238, 40170, 23307, 17628, 17518, 971, 35852, 12130, 11461, 18694,
      44136, 11048, 18126, 6526, 35962, 2132, 32290, 11224, 49691, 2372, 18999, 6484, 18253, 38923,
      8615, 28322, 36523, 8578, 42514, 8020, 47345, 39100, 38366, 1012, 2247, 21317, 47606, 33283,
      37638, 41587, 49129, 48363, 49840, 20495, 5567, 11832, 38330, 32211, 25615, 44932, 231, 38514,
      41664, 5977, 6648, 40879, 37518, 17609, 28059, 12257, 23745, 21356, 2893, 24414, 14229, 23399,
      2638, 47262, 10151, 45311, 14417, 39356, 30250, 28592, 48389, 21210, 42733, 10970, 31537, 26533,
      29311, 36835, 5931, 3804, 30202, 33211, 48170, 2980, 16785, 25497, 3737, 31466, 21680, 49543,
      20992, 23409, 4377, 24847, 45656, 42861, 43942, 3095, 36267, 14277, 11591, 44476, 46566, 49577,
      38691, 27024, 38844, 30141, 8394, 4605, 33051, 35009, 16695, 24587, 18983, 5715, 34075, 41051,
      22739, 32476, 42199, 23865, 49417, 42085, 1876, 7789, 4305, 625, 39755, 15000, 15644, 30602,
      29897, 34419, 41100, 14032, 19140, 35630, 48655, 35022, 46127, 5610, 39231, 10644, 49989, 19371,
      35075, 45172, 4384, 14458, 16476, 12761, 24554, 20453, 480, 37868, 42002, 42704, 38465, 12980,
      9733, 26182, 28680, 15189, 45947, 36079, 31255, 47127, 26492, 47923, 7327, 273, 29650, 32906,
      15039, 23848, 32853, 15108, 16159, 42475, 2174, 43099, 26677, 20124, 46575, 38341, 31063, 4351,
      15298, 758, 25812, 23972, 22140, 7514, 1818, 13819, 46526, 42048, 27011, 47048, 14363, 13904,
      36895, 38797, 44982, 32836, 44959, 29502, 34118, 25430, 25376, 47883, 40184, 17593, 22678, 15239,
      8404, 11396, 38654, 20500, 17066, 48546, 7801, 44528, 46622, 12230, 26506, 40432, 41026, 5266,
      35759, 43568, 351, 5011, 6576, 3222, 1576, 3661, 15044, 16234, 40296, 17546, 22882, 3539,
      11042, 21163, 10824, 26491, 13586, 31849, 18124, 3604, 44360, 25608, 35065, 38938, 13486, 49621,
      14748, 41952, 37350, 39608, 35202, 40378, 46315, 38373, 26978, 33252, 41289, 44004, 35415, 32840,
      6965, 39300, 30103, 6788, 29666, 35220, 18593, 35448, 6995, 9165, 9189, 36615, 43159, 16780,
      13671, 49474, 17419, 5034, 2902, 11476, 2434, 36500, 1853, 19473, 30045, 37817, 3829, 27074,
      21051, 34499, 558, 26895, 39389, 11838, 46260, 23812, 29539, 9666, 21111, 12814, 40445, 8435,
      9985, 12486, 43562, 103, 48962, 36813, 26137, 33088, 16341, 40020, 39721, 14597, 1480, 16690,
      19635, 3792, 4980, 19666, 24640, 7503, 12575, 7122, 38789, 1866, 13203, 24081, 33384, 848,
      14049, 47308, 45634, 8658, 7515, 702, 31986, 28487, 47472, 42185, 25604, 35674, 4669, 28048,
      35032, 18239, 26403, 11208, 31333, 43186, 48347, 776, 20771, 33264, 19214, 11797, 8665, 15013,
      14224, 12868, 15045, 7836, 16089, 48553, 6100, 2055, 745, 13236, 13197, 49958, 20628, 2851,
      39857, 20164, 19150, 46520, 10746, 28150, 3036, 7460, 24113, 22642, 1682, 4877, 13723, 10901,
      49636, 21739, 5428, 15888, 29364, 36449, 41758, 7982, 8180, 23316, 25891, 20489, 9606, 31687,
      20973, 14960, 4831, 15880, 14261, 34197, 1000, 13114, 18872, 30970, 3986, 12789, 35642, 13695,
      13475, 11749, 10592, 36535, 19271, 40739, 45397, 11872, 7478, 21081, 13293, 24023, 23125, 11660,
      38198, 6750, 43880, 7916, 16604, 5367, 3444, 8569, 8929, 21907, 3931, 5348, 28244, 32604,
      11535, 17121, 46474, 22348, 26260, 16135, 10500, 18233, 13295, 28714, 27660, 13268, 47920, 34428,
      3265, 45851, 15004, 22396, 34429, 24212, 44043, 6522, 28632, 47704, 20211, 31722, 4894, 15191,
      18209, 39808, 30545, 7667, 28073, 34014, 31118, 460, 28186, 25680, 11680, 12947, 14237, 7686,
      44200, 23442, 9931, 32938, 28216, 8454, 5841, 13375, 37379, 2135, 7817, 1377, 10175, 4689,
      28426, 46128, 20184, 49386, 40577, 11813, 27520, 42505, 24353, 22294, 47725, 31461, 31869, 39163,
      47877, 4256, 5187, 29760, 4740, 47836, 6013, 16055, 3700, 216, 40468, 23894, 30500, 27237,
      13883, 21547, 22510, 11035, 20691, 35720, 14504, 7893, 27679, 5908, 4504, 9086, 2328, 44442,
      32783, 47360, 46675, 15854, 49480, 42205, 12957, 35129, 15146, 31307, 7414, 6308, 27367, 9846,
      13370, 45334, 33176, 32129, 17212, 24294, 13744, 2436, 22105, 46599, 34894, 20410, 32236, 30912,
      48464, 32884, 42110, 39509, 41121, 29710, 33116, 9349, 20840, 40353, 17239, 48606, 16176, 12831,
      38588, 48801, 45872, 48922, 7200, 36989, 44606, 890, 48015, 7890, 20399, 16227, 5687, 31162,
      43029, 48149, 41702, 41757, 8528, 40908, 651, 13906, 23231, 23343, 27497, 5010, 18148, 36687,
      28576, 34713, 33391, 49768, 46160, 35267, 2554, 3714, 16563, 24880, 21279, 38941, 12387, 33416,
      11808, 25953, 19321, 43437, 26428, 34882, 10009, 27090, 9125, 37455, 48233, 29213, 8517, 17713,
      22946, 37538, 8274, 34448, 48377, 49914, 30338, 29618, 4826, 32085, 10171, 10783, 17690, 45905,
      39303, 33543, 21674, 15219, 7511, 19434, 22922, 38109, 45233, 40520, 36346, 2514, 19718, 42954,
      17141, 35991, 7677, 8442, 42535, 43494, 48640, 43503, 13791, 8617, 4248, 21720, 26308, 2515,
      2726, 49877, 22550, 25561, 46564, 6585, 40732, 24851, 29428, 31803, 43731, 25704, 30342, 21073,
      16812, 42839, 32291, 35505, 29983, 35083, 14285, 31623, 37326, 6793, 2900, 9743, 15837, 42212,
      4704, 27325, 29519, 12524, 936, 38817, 40298, 30142, 32193, 40974, 5748, 21048, 21973, 14554,
      20562, 48809, 27159, 31827, 12622, 5921, 1720, 581, 24465, 6143, 47121, 12662, 6361, 42202,
      34561, 29123, 20305, 34088, 10254, 46736, 28681, 46607, 7499, 24975, 16000, 40862, 23013, 770,
      4091, 47649, 30053, 48859, 19580, 30107, 42971, 43110, 35980, 16313, 38042, 45023, 14356, 297,
      33784, 34173, 23494, 43720, 40396, 21600, 12395, 34845, 13995, 45700, 1278, 42636, 4724, 32825,
      26812, 20222, 46077, 27613, 19361, 18370, 46232, 44368, 37760, 43167, 28121, 3308, 17681, 29102,
      12104, 17486, 38603, 38485, 34691, 14061, 31026, 9925, 3401, 43024, 15296, 18674, 47624, 23614,
      26362, 37636, 30887, 46316, 9381, 22702, 43633, 27561, 33624, 47597, 21935, 18169, 29419, 36616,
      10593, 37423, 16674, 21393, 44423, 6293, 37181, 18587, 3425, 3230, 41879, 14463, 15353, 42731,
      17786, 46331, 16392, 16852, 34834, 32529, 43524, 41557, 16581, 17555, 30229, 4130, 38306, 26808,
      37061, 17362, 48398, 1077, 47207, 41033, 5501, 4413, 23802, 34528, 21244, 3000, 39703, 47445,
      4759, 49277, 46091, 16539, 43801, 25151, 8322, 38150, 47905, 14946, 48621, 44671, 9468, 5308,
      24988, 34482, 31680, 4475, 23090, 12261, 2417, 10214, 42120, 6985, 4120, 34896, 26495, 49745,
      5794, 32817, 38894, 24905, 10163, 2829, 46557, 37519, 13826, 30760, 32271, 23115, 22683, 28907,
      441, 35276, 38708, 34543, 15364, 33648, 195, 2705, 16460, 42390, 32667, 31902, 24319, 27515,
      39162, 16914, 40617, 44156, 32384, 29601, 34541, 6653, 42418, 1470, 10907, 41441, 43322, 6392,
      28953, 16656, 17922, 19588, 32631, 22897, 6340, 23905, 38422, 18916, 25895, 12955, 29065, 45252,
      35182, 31470, 1157, 18107, 28858, 16051, 17287, 29982, 578, 5692, 25472, 40199, 8960, 3858,
      32561, 38792, 8445, 7772, 10869, 46361, 48807, 29174, 41829, 29273, 16739, 43133, 26968, 21535,
      30281, 29013, 43841, 48723, 32477, 15041, 2740, 48418, 6128, 11575, 26970, 49275, 25631, 4034,
      16729, 26041, 42859, 48315, 29995, 19792, 40178, 20210, 13964, 27919, 18137, 30113, 37767, 49317,
      24249, 17353, 2081, 41682, 43417, 30365, 41712, 40155, 42811, 30364, 42193, 6850, 12065, 11220,
      15944, 523, 38823, 40945, 35689, 30837, 11987, 38202, 38003, 18480, 46483, 30036, 46036, 36924,
      29624, 30693, 36550, 24993, 47110, 23986, 3068, 40642, 40698, 23263, 44117, 33421, 38747, 27449,
      5396, 19168, 3759, 15703, 18829, 43812, 19224, 25162, 29247, 5491, 49788, 30973, 48782, 17196,
      36608, 47879, 25284, 23074, 42738, 10742, 30601, 38275, 32738, 44094, 41104, 1182, 34647, 12240,
      21564, 48812, 38782, 41809, 17095, 30582, 16749, 27752, 16776, 5711, 36440, 48138, 6201, 31965,
      42773, 3461, 22960, 33520, 32338, 41591, 35238, 2527, 18881, 1484, 29708, 3270, 3610, 11846,
      24066, 8760, 35552, 10369, 2464, 48583, 28499, 22039, 42172, 35906, 9389, 28175, 46340, 11163,
      48267, 46901, 10758, 45755, 37078, 23502, 38332, 38057, 42244, 28617, 37794, 5564, 5907, 31304,
      23181, 37739, 44504, 23372, 33789, 7442, 7474, 24963, 41065, 49172, 35527, 20376, 46011, 41547,
      26458, 20873, 20483, 23498, 640, 44856, 14761, 10445, 44158, 2875, 47178, 31531, 25678, 9848,
      10598, 4524, 46201, 48140, 6515, 25694, 1508, 45963, 12285, 11015, 46616, 27600, 40771, 44518,
      29801, 18875, 12793, 5739, 736, 3607, 25429, 30965, 19706, 19970, 17457, 24792, 47531, 49632,
      25083, 2624, 6954, 28739, 27656, 20367, 23477, 27623, 19339, 21492, 37082, 37057, 11546, 13095,
      42858, 29728, 9987, 8477, 30169, 18972, 39470, 10734, 2211, 38741, 25387, 27451, 31210, 32077,
      18304, 36450, 13670, 8193, 3288, 47083, 31429, 48364, 31992, 36436, 21628, 38020, 26164, 12532,
      407, 48608, 26366, 10743, 33089, 10157, 17164, 43184, 2915, 27175, 17897, 22472, 5228, 44791,
      343, 49311, 48980, 14584, 20216, 23413, 37273, 47947, 42106, 7237, 31866, 39265, 45052, 47975,
      27393, 22776, 17377, 26294, 7251, 25224, 26540, 7431, 1048, 44160, 9118, 32804, 42225, 34107,
      19721, 38370, 42960, 12556, 36316, 27204, 39089, 8191, 14279, 38463, 7672, 26391, 39900, 36778,
      43653, 17759, 48384, 862, 19261, 45076, 19557, 23428, 19272, 40676, 5568, 19284, 17874, 3161,
      24545, 49218, 31791, 1131, 24564, 31148, 31491, 37516, 43064, 9401, 35419, 7340, 24869, 48944,
      27524, 28195, 15951, 25030, 23400, 22730, 29415, 39273, 49189, 34883, 18967, 47711, 31660, 26753,
      36417, 40652, 2742, 3049, 49, 39859, 8745, 4745, 9194, 7613, 46148, 20015, 44979, 15170,
      17972, 22512, 24393, 28354, 7003, 35263, 39995, 173, 19901, 46794, 13013, 34513, 15800, 45751,
      419, 16295, 29307, 22177, 16751, 18698, 39387, 32976, 5836, 39624, 30504, 40915, 40653, 24105,
      30534, 28396, 3243, 800, 34940, 40231, 10413, 17971, 44277, 42494, 23553, 32691, 43114, 10945,
      19822, 44730, 38933, 17227, 26565, 7560, 41019, 3663, 28956, 40154, 41552, 6365, 3707, 35385,
      27612, 14217, 71, 4280, 3555, 8468, 44321, 21920, 9598, 33698, 11014, 28713, 46974, 29678,
      45564, 31178, 21609, 25408, 43345, 49197, 26733, 45085, 18686, 16649, 24775, 24569, 42826, 25403,
      24602, 49698, 13847, 49247, 42943, 39967, 28980, 2799, 30334, 5275, 10820, 31365, 24808, 49270,
      21154, 44800, 21131, 11601, 3788, 22892, 33901, 13618, 26683, 46297, 18496, 48286, 36287, 45452,
      29833, 1668, 8247, 23292, 15798, 31328, 21043, 29167, 48246, 34522, 32503, 32999, 49896, 26876,
      14499, 36251, 29574, 39973, 22952, 44579, 3486, 48173, 48697, 20705, 354, 7852, 40565, 10064,
      30768, 46183, 30621, 25406, 17104, 10476, 38294, 40254, 7379, 19496, 39588, 48063, 48296, 22264,
      37821, 44339, 2652, 36786, 32690, 39699, 49032, 14169, 9400, 38877, 22779, 29903, 21296, 28773,
      5045, 25598, 15158, 42213, 27619, 38002, 22654, 24317, 38925, 11729, 36599, 37315, 40983, 26822,
      44655, 28580, 34976, 22651, 41112, 19151, 41978, 2000, 18219, 36112, 46235, 29244, 25673, 41396,
      14402, 42590, 21377, 21538, 9036, 44532, 15075, 26330, 9986, 49732, 19499, 41633, 38805, 34613,
      42776, 6268, 34191, 15207, 45436, 38381, 6567, 12994, 35406, 45302, 27249, 45611, 37083, 14128,
      22016, 5089, 26768, 7615, 32447, 45646, 15286, 40804, 24784, 26357, 13290, 15134, 11827, 14403,
      33492, 9254, 37765, 1487, 22898, 23327, 21419, 29045, 4336, 26314, 15452, 22532, 15157, 17990,
      44642, 35316, 29156, 12362, 10259, 33011, 13700, 45948, 37452, 1703, 11327, 16731, 3994, 25485,
      5265, 7743, 3912, 38490, 7984, 15529, 930, 39238, 13889, 37007, 30385, 45238, 861, 40815,
      13000, 32420, 1594, 10239, 32878, 19487, 21842, 41171, 5975, 29288, 46381, 24461, 36301, 11275,
      44649, 25642, 26323, 42087, 25882, 11597, 14577, 49205, 26364, 18501, 47265, 14495, 29568, 43608,
      23702, 19392, 38551, 10814, 32141, 8869, 225, 17395, 34081, 42031, 19888, 19395, 20634, 37421,
      2761, 33479, 10926, 46031, 4538, 41715, 19512, 39211, 29266, 45846, 39438, 44432, 22522, 21656,
      49585, 14459, 14409, 33227, 7212, 14580, 14836, 40778, 23969, 16274, 37445, 29638, 1397, 46411,
      45750, 15952, 19820, 38359, 17309, 16599, 46342, 1246, 16030, 26644, 45567, 27674, 20958, 43025,
      33713, 6939, 45127, 13924, 3241, 11150, 48650, 19671, 1413, 28282, 41012, 34240, 29575, 41270,
      8257, 26852, 8880, 22078, 49715, 19349, 32181, 16954, 39246, 1621, 47757, 45676, 2404, 30796,
      37586, 23317, 12830, 33557, 29557, 43987, 27893, 5294, 24913, 34659, 1784, 39885, 17566, 16062,
      48446, 20382, 40877, 18057, 19066, 20525, 5847, 18622, 45474, 31760, 5211, 25730, 6373, 30197,
      23945, 36934, 34847, 15292, 1851, 18432, 28970, 17039, 6687, 40938, 42182, 25252, 18841, 15806,
      4181, 13862, 20189, 8784, 3705, 24445, 37771, 5158, 29836, 6129, 11029, 47242, 36029, 33446,
      4116, 11756, 27123, 5369, 15978, 9134, 11061, 4550, 35858, 49402, 43901, 17577, 2746, 21850,
      25747, 6072, 23920, 12933, 36180, 34380, 28996, 38260, 512, 16134, 35633, 8088, 36092, 31391,
      33042, 34308, 12627, 1976, 7337, 42453, 22971, 37307, 44972, 5216, 23622, 41399, 20310, 657,
      35037, 44828, 15943, 42014, 28057, 21871, 7027, 46718, 30812, 35601, 21546, 14794, 45054, 3899,
      29368, 15625, 45497, 10284, 25873, 18719, 14948, 38343, 31303, 6542, 42691, 5876, 49325, 15602,
      23357, 46343, 19127, 34791, 36359, 18143, 316, 729, 43179, 6215, 17298, 1841, 2386, 21345,
      22114, 42615, 5466, 38365, 46720, 5540, 23562, 23012, 32741, 14163, 9062, 28697, 18490, 14825,
      49828, 15679, 7932, 38880, 3002, 31443, 6262, 3953, 45135, 33478, 18553, 24223, 32041, 26218,
      14632, 17090, 34426, 9376, 17780, 10436, 7568, 23549, 1458, 42297, 34365, 29308, 4845, 41961,
      38152, 24380, 38921, 26538, 5936, 7673, 40436, 35494, 39591, 14174, 40381, 23137, 29628, 32308,
      30871, 28092, 32484, 32812, 25154, 10153, 25866, 15443, 14192, 13717, 17348, 6420, 38690, 47431,
      34114, 816, 13863, 49437, 10587, 49498, 26517, 5245, 38331, 48333, 14926, 49066, 37864, 23346,
      27036, 40418, 28961, 23034, 17324, 44928, 18246, 21403, 47288, 14710, 6367, 48396, 42364, 40888,
      31706, 3378, 39487, 13702, 16883, 9656, 40354, 31378, 28458, 28446, 26889, 20715, 40604, 45282,
      32111, 34348, 15204, 6892, 22134, 44142, 3028, 16297, 32721, 25134, 9055, 34885, 16228, 11281,
      25573, 36501, 48211, 43418, 46465, 16703, 32458, 6161, 42992, 19306, 48552, 40377, 39953, 4988,
      19075, 20182, 38819, 19432, 36918, 19482, 39058, 39446, 22156, 37811, 12290, 36128, 2296, 3831,
      33222, 11494, 20790, 44316, 38884, 3434, 38207, 3077, 1107, 16655, 43955, 25830, 21503, 46861,
      2146, 36814, 25283, 27040, 46779, 45190, 18145, 27707, 46652, 7762, 29632, 8145, 40439, 13039,
      34037, 36290, 27907, 24656, 16993, 5345, 5165, 34825, 1675, 31689, 4146, 31935, 18393, 4707,
      2585, 28117, 42180, 31618, 35763, 22581, 13835, 12044, 30767, 7128, 22783, 23250, 23885, 40093,
      31011, 12082, 7786, 5729, 13963, 49262, 5121, 10339, 2820, 32607, 1034, 233, 20696, 45287,
      29064, 16381, 36641, 11933, 49558, 1319, 19421, 14194, 27211, 23943, 30570, 24191, 41834, 23407,
      756, 27669, 5553, 33456, 41063, 18337, 5042, 20135, 6491, 18129, 30128, 38903, 14129, 28147,
      6689, 9693, 39652, 811, 28624, 27745, 23713, 13504, 13797, 33256, 9720, 44137, 8317, 36325,
      48422, 39927, 2630, 18014, 24531, 8677, 1618, 21723, 20564, 16171, 8489, 16338, 5455, 35813,
      48472, 22750, 7831, 16694, 23467, 5627, 4222, 35609, 21130, 18856, 49110, 10639, 10613, 45810,
      18478, 5762, 26689, 44533, 45318, 44237, 17596, 45088, 40910, 22038, 23254, 45134, 27771, 10276,
      10241, 210, 28976, 39435, 43448, 43062, 36050, 13687, 26071, 3022, 4110, 19011, 15838, 46040,
      6756, 18806, 32676, 48021, 11065, 17179, 27737, 24456, 36004, 36082, 47366, 14411, 8530, 33306,
      23783, 14337, 22954, 36823, 11450, 7258, 42765, 49142, 18603, 3031, 49220, 7229, 116, 9246,
      19475, 18809, 24556, 3795, 41870, 47403, 12414, 5879, 13396, 30392, 38491, 6802, 25304, 34697,
      8586, 45079, 48408, 5625, 10342, 15695, 17258, 34824, 39719, 47285, 35249, 5920, 14625, 16113,
      7266, 36754, 14982, 75, 35250, 26830, 44840, 1124, 25981, 42315, 16454, 45756, 6427, 27934,
      30843, 30081, 15006, 34082, 40402, 47395, 28703, 35848, 47721, 29395, 14579, 17900, 194, 48183,
      30799, 19219, 46368, 2813, 20370, 6537, 2664, 22856, 11617, 2952, 45702, 12058, 29338, 45491,
      26378, 27861, 10533, 15458, 49677, 46246, 43502, 34623, 5504, 16256, 9237, 45503, 7950, 13683,
      15632, 26306, 22071, 36752, 46682, 29278, 1631, 6108, 24339, 15814, 24383, 26607, 839, 11475,
      20626, 8279, 30633, 49341, 47116, 31544, 29500, 46055, 8875, 41994, 30914, 5685, 5733, 30292,
      11300, 5598, 2517, 25779, 19825, 35669, 47049, 18331, 1846, 18502, 20217, 40292, 34983, 27970,
      28359, 17901, 27087, 12440, 12594, 3197, 2865, 23311, 19741, 9452, 34236, 1736, 45116, 28334,
      11757, 34580, 7029, 23578, 10859, 38468, 16372, 14054, 38564, 34913, 49085, 1930, 46499, 1126,
      14233, 44701, 30321, 42698, 7479, 29036, 12589, 44511, 13588, 17306, 2888, 46394, 22034, 20137,
      36454, 8877, 30442, 29915, 48716, 36947, 8668, 31394, 41419, 10240, 7596, 42544, 8870, 7800,
      20999, 13035, 19849, 5200, 38426, 45464, 33669, 40488, 13160, 5662, 47648, 34267, 7955, 12968,
      46976, 42656, 30691, 61, 33594, 12909, 27717, 10827, 26231, 7779, 40065, 10202, 1808, 37577,
      42764, 22281, 31942, 41615, 10424, 13614, 27269, 8420, 33890, 32671, 10632, 30902, 3489, 45941,
      13958, 12203, 28964, 25286, 9186, 17150, 43190, 15650, 6658, 28374, 23879, 45459, 35087, 45315,
      32266, 42974, 1572, 32569, 35279, 46452, 16124, 13431, 6179, 32679, 939, 29188, 34755, 49312,
      8825, 31072, 35210, 15255, 42005, 22853, 46719, 3460, 49940, 6832, 33010, 11306, 48620, 36073,
      28455, 27963, 34854, 35412, 27700, 38261, 41279, 49226, 3021, 3220, 17937, 23712, 150, 12613,
      18554, 35927, 31350, 49395, 49140, 4678, 31150, 48473, 9731, 36352, 42835, 26348, 29573, 45330,
      3929, 18455, 19451, 3298, 40426, 43439, 1489, 34590, 28459, 31611, 46539, 21750, 10881, 14673,
      8478, 27545, 33254, 32423, 36418, 31165, 37800, 20532, 33936, 22468, 20916, 46458, 47694, 283,
      9410, 5070, 45663, 40845, 23542, 3633, 30494, 35042, 28958, 46492, 9501, 8642, 37786, 34861,
      12088, 33903, 9011, 16382, 4036, 6804, 46393, 4609, 45559, 31257, 586, 34495, 31732, 3789,
      47186, 1697, 42441, 33728, 48481, 30689, 36691, 47192, 22132, 7598, 38399, 36521, 45536, 12010,
      11010, 27887, 16164, 17549, 16409, 15731, 47379, 5990, 43891, 35691, 25940, 18849, 6974, 17319,
      10089, 43035, 8238, 36342, 3504, 36285, 44130, 8961, 5329, 43092, 44455, 27392, 40295, 6660,
      22761, 21430, 9284, 7289, 45320, 36250, 3189, 37042, 46573, 47824, 29949, 5260, 16157, 41990,
      16115, 22022, 2265, 47344, 35302, 32434, 6752, 10801, 31586, 13933, 29141, 8781, 15211, 25850,
      24835, 38857, 11265, 29658, 30481, 34392, 34176, 35244, 6199, 18508, 6887, 28985, 19101, 31456,
      15121, 12141, 21549, 13069, 24994, 36638, 42271, 48932, 45738, 23141, 9267, 17299, 42536, 43656,
      19386, 24181, 21110, 28191, 42741, 30224, 23271, 2582, 12903, 23861, 31943, 48328, 11863, 35910,
      25264, 41827, 6921, 42060, 26545, 38594, 25082, 42711, 30405, 21095, 39723, 21640, 7112, 43712,
      36676, 46806, 37628, 31994, 35831, 27983, 27368, 39706, 8971, 48551, 30710, 27310, 36697, 18736,
      1534, 24296, 14712, 35688, 18769, 29762, 40160, 33904, 8546, 43972, 19326, 32466, 19495, 37023,
      1139, 37414, 34473, 22675, 12505, 45057, 3618, 39606, 34857, 45416, 7324, 962, 35313, 30515,
      25548, 10835, 1975, 14765, 48449, 37970, 39241, 40229, 41496, 40356, 8057, 45876, 28206, 34179,
      24957, 26350, 5055, 20586, 2678, 46057, 30288, 20468, 24517, 48703, 24769, 2762, 12403, 13249,
      40383, 21531, 45684, 39610, 45802, 32048, 6381, 42415, 18092, 38864, 30999, 9988, 42098, 33509,
      18435, 41790, 17503, 41736, 1417, 47551, 29842, 10311, 37556, 20847, 19964, 17853, 29461, 30541,
      22777, 22633, 33484, 1486, 27335, 30088, 2111, 43717, 25055, 13651, 11886, 13909, 3131, 19699,
      913, 31140, 23347, 37752, 27876, 33486, 12429, 31451, 20892, 42006, 41385, 16430, 43163, 29264,
      4082, 1331, 46095, 14543, 34490, 44946, 49026, 13922, 42564, 41941, 10530, 32956, 41287, 19002,
      33028, 11665, 30207, 17122, 43223, 39777, 36789, 29824, 13367, 4199, 28908, 41644, 13606, 18237,
      24651, 30879, 38415, 36581, 17394, 18144, 9728, 30038, 35607, 30639, 10347, 44046, 30467, 28042,
      40977, 19145, 46326, 17163, 14145, 29130, 630, 6821, 2276, 14564, 21562, 40156, 44129, 4272,
      6, 2145, 38973, 44231, 42714, 1699, 39968, 38077, 39524, 44666, 35432, 23251, 27666, 15550,
      49508, 21956, 33726, 15671, 48106, 7132, 26991, 40305, 28050, 3455, 20512, 2735, 19719, 33137,
      39219, 3214, 46554, 7638, 30742, 17688, 47204, 16658, 1721, 38512, 6433, 27060, 26726, 18754,
      20277, 32378, 2094, 22029, 14938, 6029, 1864, 8350, 47282, 30205, 24049, 6994, 24029, 27295,
      14935, 6132, 22645, 1402, 536, 5822, 6348, 48292, 48713, 8543, 19998, 38047, 7544, 1993,
      32538, 26410, 41145, 6778, 5377, 2399, 43610, 32146, 25877, 7100, 26735, 23422, 39662, 37222,
      49507, 6156, 2298, 25668, 27093, 6046, 36549, 26280, 4265, 39383, 13542, 38803, 4165, 26063,
      10629, 37173, 1956, 16671, 34035, 28416, 1731, 25764, 31640, 7781, 19961, 32533, 19193, 18960,
      35363, 38318, 23751, 30258, 8113, 48563, 10791, 32834, 25056, 44147, 31981, 8194, 33191, 14381,
      40920, 7234, 26988, 10069, 32280, 35074, 34184, 29579, 42111, 31144, 1166, 49835, 35300, 37353,
      48204, 47543, 29853, 37187, 32390, 17271, 22930, 44195, 36808, 26794, 2269, 23691, 28537, 2445,
      23182, 24069, 21847, 24757, 17983, 19303, 18276, 47516, 5407, 2348, 26360, 45209, 16507, 33745,
      27989, 32365, 9224, 8370, 46801, 39141, 9769, 31271, 9555, 33645, 35137, 22860, 7895, 34963,
      38173, 1788, 26476, 32995, 892, 14720, 31571, 6735, 38670, 18430, 18537, 430, 25627, 11189,
      12708, 9738, 48874, 12030, 32822, 45237, 1616, 2864, 252, 7964, 27815, 676, 7096, 44810,
      10873, 40077, 16529, 15982, 45604, 1670, 24273, 14273, 10612, 2644, 19387, 13571, 32647, 14424,
      30950, 8296, 17050, 20904, 17915, 44944, 42549, 41753, 38901, 9022, 8755, 10595, 44398, 46146,
      34927, 38307, 39600, 21041, 34634, 29399, 13426, 22764, 29453, 24304, 37749, 44478, 47525, 23770,
      18221, 24221, 18106, 1053, 16356, 866, 1974, 45842, 4071, 48784, 42654, 9803, 21993, 16231,
      48492, 20558, 13469, 45630, 5734, 18457, 14791, 45466, 32688, 10289, 46323, 38919, 32414, 47060,
      48277, 10941, 30904, 12475, 18067, 15590, 36067, 29235, 37976, 18597, 22215, 25018, 9667, 532,
      37225, 686, 39186, 26326, 16895, 18104, 46170, 41135, 4699, 7182, 44182, 46338, 6434, 624,
      43997, 22589, 14361, 42684, 28070, 44832, 14933, 928, 47678, 3673, 9351, 24962, 44802, 35194,
      5537, 22962, 22317, 499, 9025, 25918, 45501, 16992, 25088, 5954, 6231, 39651, 46291, 1673,
      38269, 26967, 18035, 32411, 48528, 45345, 18109, 20713, 41772, 24379, 6651, 13852, 43142, 13822,
      31483, 24422, 48073, 18491, 15711, 25012, 8059, 41760, 27784, 28065, 19113, 36629, 16497, 19707,
      41939, 38297, 9199, 23927, 12678, 29695, 30185, 11905, 17318, 18400, 20290, 12266, 2467, 32165,
      261, 46832, 26237, 30801, 40973, 18341, 35021, 28056, 38950, 11099, 44661, 19839, 42489, 26511,
      12341, 8684, 20342, 36792, 37450, 31387, 35866, 47405, 48432, 20078, 33114, 45647, 49909, 15578,
      5854, 33579, 8777, 18178, 45458, 32194, 17203, 9604, 42378, 26888, 9366, 40907, 38391, 30781,
      41039, 12263, 1033, 593, 29890, 45257, 9679, 44500, 16752, 8224, 32474, 21238, 12208, 34465,
      27554, 37096, 11734, 34769, 7451, 40344, 31112, 2916, 5604, 21126, 1291, 3428, 4766, 21145,
      38279, 873, 27565, 37149, 4537, 35621, 1819, 41602, 15016, 47521, 28787, 2022, 45653, 48318,
      30256, 24779, 24579, 45204, 17047, 43366, 33912, 41604, 14611, 49703, 13294, 1928, 19384, 26800,
      15633, 44090, 9712, 18380, 7149, 14969, 27905, 14936, 28918, 43952, 37183, 16528, 1661, 20065,
      31482, 3734, 37084, 25767, 37655, 2549, 12604, 36423, 4104, 5068, 43168, 47587, 39054, 26286,
      9167, 41768, 8470, 25205, 46511, 37759, 35480, 4981, 31245, 48478, 47977, 49422, 45595, 49501,
      49036, 2305, 37977, 14355, 9928, 23747, 8045, 31199, 4785, 9592, 6975, 18365, 12913, 14493,
      47157, 37559, 7401, 41838, 6573, 13094, 6178, 584, 44721, 39145, 5326, 37404, 28965, 18236,
      22312, 38310, 47290, 12895, 35819, 423, 24867, 13747, 26395, 35870, 43495, 12555, 23270, 42187,
      29741, 5747, 4741, 44153, 8962, 39569, 10317, 250, 24129, 11873, 6418, 49938, 47848, 33385,
      38758, 29731, 15031, 38, 34902, 2692, 19382, 40890, 2255, 19662, 39458, 21286, 22969, 22647,
      41433, 33643, 20348, 14467, 28158, 27921, 21211, 13732, 11096, 26738, 36869, 505, 44390, 32118,
      42922, 1100, 46668, 36589, 32507, 44074, 22811, 35353, 40728, 25609, 1608, 38878, 32494, 20443,
      17846, 20868, 10735, 5382, 20865, 13104, 15686, 48673, 31518, 9621, 11235, 20285, 20241, 18475,
      6431, 42397, 47541, 5925, 43100, 26643, 17795, 14871, 1430, 39635, 39039, 45847, 28304, 14505,
      13625, 26994, 621, 21714, 44244, 33279, 12235, 42975, 31793, 15999, 7264, 14238, 25454, 36832,
      12796, 40534, 48416, 748, 16345, 217, 32588, 20192, 47449, 45313, 36458, 47549, 21070, 12418,
      15959, 32653, 7538, 14401, 42786, 17161, 8481, 7321, 30059, 13757, 47845, 8510, 23330, 7339,
      35861, 39529, 7519, 2943, 41711, 2616, 41607, 23149, 36654, 47692, 42923, 27290, 49373, 7144,
      6926, 5923, 1859, 22198, 43162, 38930, 7652, 23469, 32209, 6536, 48431, 24247, 9313, 26516,
      37295, 5697, 40001, 28508, 12477, 49580, 35366, 4152, 32595, 28993, 27507, 14682, 22496, 2603,
      9792, 35778, 9105, 8321, 39345, 7161, 35058, 46009, 24006, 30838, 42355, 34991, 48614, 29451,
      10539, 42687, 1850, 3799, 37712, 33917, 44866, 33112, 33363, 37686, 29874, 39113, 39898, 49791,
      22955, 14944, 9192, 7390, 23242, 40796, 31091, 7040, 16927, 22049, 36299, 41801, 39083, 32318,
      15747, 24929, 9683, 35159, 9936, 32716, 41199, 31928, 32122, 37434, 48863, 46987, 31628, 21616,
      41705, 26073, 42879, 22774, 11521, 31258, 13214, 42446, 27318, 29900, 28360, 20416, 27305, 16817,
      34507, 39168, 15897, 34572, 6196, 41746, 45212, 11342, 14514, 28627, 47322, 46710, 19696, 16982,
      14540, 1227, 10050, 35172, 42915, 7175, 32469, 43902, 18002, 5080, 1183, 28498, 279, 35644,
      23766, 33470, 18902, 45044, 24026, 14603, 38731, 28569, 11771, 2830, 5341, 2034, 41384, 44564,
      25937, 2326, 46239, 3693, 10388, 1400, 39134, 17036, 42280, 3916, 33656, 16577, 21456, 34757,
      48657, 2730, 48351, 20510, 5411, 3640, 37120, 17280, 14013, 32901, 4277, 47841, 27095, 35764,
      31306, 6311, 38776, 17700, 30574, 17708, 18598, 46656, 19243, 2181, 10280, 15694, 15397, 35781,
      44970, 11210, 14240, 44894, 36873, 1165, 30324, 20346, 4157, 40337, 47852, 37300, 8239, 9060,
      1952, 43698, 43483, 36242, 35513, 38080, 36597, 18572, 23919, 6631, 6390, 6650, 34340, 21735,
      30040, 33627, 20082, 42125, 42097, 30631, 12566, 8976, 45293, 9020, 42345, 23388, 19939, 15516,
      24670, 38072, 18102, 10393, 12435, 15214, 39611, 25899, 17235, 39043, 3105, 42630, 30989, 24250,
      45323, 15553, 49063, 18655, 9093, 2331, 44040, 11682, 46448, 579, 20775, 48786, 7356, 20424,
      19645, 37453, 25114, 35041, 48304, 48918, 13152, 24100, 14886, 5994, 30110, 30361, 13242, 1317,
      6809, 9141, 44233, 42055, 32629, 20204, 30922, 7406, 49095, 35218, 18842, 26856, 17520, 36257,
      38375, 16147, 40925, 39497, 18716, 24108, 4180, 18956, 37704, 48298, 46420, 44775, 25827, 7306,
      3115, 21349, 23893, 17173, 4422, 8895, 11466, 46867, 49381, 20321, 43569, 46768, 43611, 37543,
      32495, 2150, 18159, 32162, 43776, 32438, 15124, 25311, 9634, 3843, 41301, 38567, 1271, 43357,
      41426, 28101, 2069, 40105, 38406, 7427, 18977, 5875, 33976, 24986, 47497, 14695, 17689, 29043,
      5115, 32572, 16688, 21888, 2731, 21284, 5541, 43192, 43774, 22346, 43828, 49433, 33578, 15142,
      31407, 31619, 33873, 37048, 27987, 16145, 1503, 46789, 49549, 902, 31330, 21854, 19591, 8596,
      9057, 48426, 7359, 647, 36520, 25962, 45752, 26254, 27184, 44637, 48926, 34310, 11911, 24936,
      25281, 27349, 9195, 42332, 26690, 12656, 46958, 25050, 30380, 2544, 6839, 5855, 27400, 36120,
      49020, 37796, 46565, 13168, 33620, 28675, 14486, 26621, 31894, 6415, 9128, 26760, 10936, 171,
      23213, 42842, 9908, 25910, 48885, 42173, 19438, 39503, 38495, 18871, 20712, 17053, 32672, 38808,
      9538, 15334, 21449, 12892, 40010, 26334, 16810, 16601, 2680, 43295, 29029, 26054, 44292, 18969,
      47814, 21488, 35580, 317, 31247, 10708, 45877, 7576, 23240, 4896, 4564, 25716, 47238, 41056,
      12426, 9126, 5718, 43358, 31834, 31142, 25506, 1912, 43161, 21690, 49425, 39222, 28289, 31044,
      5205, 26805, 33568, 18661, 19969, 27000, 44725, 14421, 31005, 40027, 27110, 15236, 11337, 13182,
      35246, 29003, 18487, 9722, 10132, 1681, 45425, 41739, 2279, 35486, 19020, 32799, 22408, 13040,
      33348, 46547, 20663, 40240, 41085, 31352, 32506, 521, 19529, 19414, 19466, 28628, 5657, 13192,
      29528, 41601, 734, 7330, 4241, 43816, 18154, 26209, 15046, 24206, 22243, 40922, 8225, 22508,
      28224, 20633, 16953, 27078, 29640, 19347, 39481, 24772, 16144, 47674, 40, 3029, 10675, 38730,
      42953, 24758, 11960, 18955, 19962, 12092, 22643, 21391, 20109, 47247, 31420, 21669, 49326, 28977,
      3946, 25808, 17208, 32218, 29679, 31602, 28744, 14471, 35115, 33233, 46404, 30900, 36763, 45775,
      41817, 1045, 22957, 39191, 37236, 46038, 6202, 23651, 44529, 26645, 19060, 32590, 49587, 14740,
      32401, 6184, 5360, 16084, 26846, 18917, 4503, 2362, 15262, 8557, 14303, 31342, 27580, 20518,
      17887, 45979, 26066, 41253, 17009, 17115, 9856, 26060, 2817, 15463, 12981, 1583, 11923, 14896,
      25455, 20392, 3619, 3900, 28600, 33761, 21688, 10586, 9536, 14840, 6927, 19443, 27080, 70,
      2965, 44909, 12900, 15618, 32942, 5139, 40596, 9920, 5342, 9205, 29083, 7155, 32424, 38647,
      409, 30961, 43385, 25661, 1680, 33466, 44052, 1490, 27502, 47004, 14782, 32329, 11638, 39314,
      44719, 40179, 6432, 46614, 10604, 16408, 23480, 30555, 44691, 47380, 37109, 43242, 41628, 42964,
      4518, 4730, 214, 22287, 39301, 30956, 14861, 6166, 35101, 3594, 25244, 34514, 36232, 25529,
      47696, 33056, 48013, 40207, 34571, 20322, 8780, 24412, 41038, 5199, 29431, 40173, 3933, 6978,
      989, 12423, 38461, 6267, 14148, 5003, 32625, 10508, 27229, 48388, 21114, 48634, 35736, 35982,
      41014, 21590, 11594, 49871, 11121, 17995, 18905, 44880, 25911, 5517, 31906, 31662, 32699, 4207,
      37141, 39587, 11875, 41631, 36072, 4419, 33090, 1829, 16250, 49314, 4630, 16946, 13972, 9146,
      12564, 3818, 16768, 14005, 13205, 26303, 34194, 38182, 35620, 40798, 15664, 14044, 19983, 14029,
      19032, 8919, 9648, 3462, 7678, 20813, 7217, 48594, 36012, 25155, 5478, 35833, 20546, 20090,
      23856, 13949, 21981, 27296, 9519, 33640, 7033, 19200, 22530, 46996, 7267, 40616, 26341, 39835,
      31800, 48966, 36183, 40658, 49257, 19006, 2907, 36305, 13129, 3482, 5677, 47500, 38706, 39979,
      11527, 10490, 24093, 21308, 49077, 49335, 29095, 27688, 8940, 12630, 44983, 21227, 36266, 27421,
      27853, 8525, 2104, 31452, 29971, 35176, 2007, 33430, 1707, 48823, 9744, 16629, 22493, 7262,
      38791, 42648, 42972, 3923, 2344, 10463, 19354, 9312, 26789, 46488, 45623, 41005, 9520, 37280,
      35964, 28752, 47375, 31114, 29207, 46985, 7064, 6541, 22001, 22716, 28560, 37308, 3861, 25736,
      31630, 49823, 6699, 4647, 48828, 14365, 2457, 34516, 49540, 3125, 42384, 15460, 23484, 32979,
      38579, 49913, 14806, 2571, 44715, 2286, 8451, 31698, 3609, 4193, 22283, 46204, 28103, 17416,
      31884, 32051, 8035, 19373, 673, 9444, 33857, 28148, 31316, 46292, 30404, 23156, 26430, 8858,
      48945, 35492, 44877, 29391, 13656, 28836, 28657, 30479, 43211, 18166, 44484, 7680, 49269, 35061,
      34379, 11634, 40750, 29582, 40854, 3611, 19291, 32540, 2946, 41812, 15614, 29396, 46533, 30124,
      40307, 9447, 41141, 9790, 30891, 7, 45949, 4095, 25955, 37499, 37103, 23692, 33515, 6969,
      16243, 17220, 34746, 45995, 25829, 43481, 37652, 23912, 24609, 1962, 44851, 22859, 44349, 41581,
      7277, 1483, 9532, 39914, 46098, 17128, 26692, 12788, 7364, 47570, 18701, 5100, 16264, 13289,
      12496, 40714, 8807, 30238, 655, 3118, 11359, 8647, 46968, 3382, 5457, 13099, 2908, 1895,
      3488, 21955, 8692, 6747, 19269, 30379, 26142, 30596, 24032, 45348, 48205, 34004, 9709, 12376,
      35540, 26608, 49490, 42018, 20227, 2755, 24415, 16305, 47177, 45931, 182, 46920, 24898, 1370,
      47771, 12616, 35119, 34498, 8241, 49615, 20822, 19018, 35104, 5688, 35730, 25753, 36278, 128,
      33834, 24270, 9367, 34443, 5354, 49059, 19704, 40161, 8385, 14747, 29947, 36565, 15796, 21439,
      26929, 46375, 4304, 110, 42273, 33299, 29735, 40562, 2836, 21544, 17278, 1557, 16028, 16483,
      49682, 44562, 109, 47651, 9961, 42166, 42586, 28316, 843, 21679, 2601, 35166, 15785, 48270,
      25325, 32898, 13477, 38190, 11578, 16403, 36230, 48116, 8297, 40990, 47007, 21187, 7540, 33178,
      18446, 10817, 49038, 31395, 2495, 10012, 6428, 9301, 26503, 22311, 36045, 42044, 23002, 18182,
      3836, 10127, 7616, 28493, 1826, 47937, 40104, 30100, 3910, 13459, 10689, 46174, 26454, 37581,
      42850, 36842, 19736, 24012, 2012, 13299, 27193, 7225, 742, 1671, 23503, 18238, 36749, 48658,
      22901, 26010, 49735, 43007, 9253, 36528, 47016, 32246, 23732, 23900, 6407, 29246, 219, 14326,
      42416, 3702, 6810, 14572, 24850, 46330, 11972, 2289, 18641, 22726, 39677, 29951, 5563, 9207,
      31485, 25759, 2342, 17638, 22607, 35478, 16077, 31767, 1786, 12701, 29386, 11477, 17291, 15985,
      47962, 14359, 8844, 14686, 13488, 37838, 49209, 30696, 28433, 6383, 41078, 13997, 40177, 24521,
      7184, 17190, 35574, 40364, 5881, 13252, 19174, 3305, 23873, 45959, 36032, 23302, 3064, 43141,
      37031, 37776, 47759, 6181, 13577, 46619, 32465, 21039, 20340, 34144, 41632, 23261, 30307, 324,
      45339, 14509, 19884, 29104, 27880, 39053, 2541, 19916, 26409, 48050, 8368, 23445, 80, 20048,
      1803, 35807, 7625, 49096, 9061, 1106, 48350, 11081, 40803, 22723, 18965, 13988, 20088, 20824,
      46083, 17385, 38788, 26030, 2992, 5181, 15130, 323, 22533, 12051, 8161, 20757, 29617, 15226,
      8337, 19700, 24166, 28192, 9804, 41526, 21431, 40932, 38386, 10855, 29599, 26332, 29747, 18590,
      24165, 10949, 46153, 24157, 46303, 34534, 19766, 39678, 1684, 45267, 24674, 120, 43102, 19308,
      2744, 17662, 950, 22047, 4062, 49550, 3510, 47330, 8850, 10512, 6425, 23144, 17702, 2325,
      30401, 31683, 41797, 39060, 46151, 32200, 38076, 39746, 1068, 47072, 37250, 37944, 6524, 42747,
      41371, 45479, 29082, 24793, 27695, 44252, 42109, 2778, 17599, 47028, 37013, 17516, 32337, 26343,
      10733, 22330, 17961, 39457, 48261, 13996, 34551, 42011, 31686, 3581, 20971, 26333, 46165, 27336,
      20688, 27062, 16426, 37836, 9441, 26985, 16971, 48072, 1635, 24965, 49221, 13989, 44580, 22213,
      49977, 15420, 19357, 36118, 34456, 19092, 37217, 43960, 3798, 42176, 42115, 14769, 29347, 30915,
      12528, 46537, 802, 46384, 49993, 9420, 25580, 28154, 40266, 3905, 12338, 10506, 9234, 36096,
      48890, 23367, 18517, 772, 10660, 28353, 22947, 18662, 11715, 38099, 5040, 42804, 46073, 5959,
      30455, 20375, 14222, 22529, 14203, 31798, 33946, 47617, 29976, 7402, 39322, 39584, 41415, 15853,
      3944, 14883, 7305, 37961, 35317, 9084, 7563, 42582, 36669, 19652, 47021, 20201, 35496, 3231,
      43205, 40398, 12593, 40174, 43486, 200, 31214, 39676, 15429, 30939, 31221, 34201, 48936, 47151,
      24410, 17808, 47268, 3755, 33141, 12586, 30437, 13328, 13061, 28698, 4296, 30195, 38036, 4750,
      8648, 43462, 10636, 19240, 36309, 24333, 46017, 22907, 48717, 4556, 19922, 28245, 16261, 20825,
      41175, 36057, 857, 37968, 27822, 33346, 31164, 14283, 20252, 5533, 36334, 37214, 44001, 1877,
      29111, 28473, 15027, 25659, 25164, 6605, 22832, 32075, 41212, 967, 42052, 747, 17407, 1032,
      39774, 25160, 12287, 12037, 28010, 5270, 4283, 33454, 47537, 19679, 14552, 46177, 6758, 40681,
      4903, 6693, 36039, 20506, 29570, 6935, 16711, 26353, 39637, 29417, 36998, 19437, 33493, 41421,
      44420, 3075, 44260, 27583, 46001, 27404, 8675, 42188, 45894, 3563, 49674, 26776, 3766, 48090,
      2029, 16549, 12216, 44444, 7193, 21299, 9354, 31837, 22691, 12364, 23008, 12757, 2627, 11605,
      29452, 2499, 49180, 724, 25697, 3855, 17418, 9170, 39196, 16152, 41088, 36997, 12971, 14565,
      8220, 16647, 42866, 14729, 21229, 17841, 17582, 44994, 29194, 32678, 33808, 14741, 28442, 16675,
      27697, 34985, 4237, 46454, 12639, 3356, 31479, 36122, 48893, 14539, 2662, 24543, 5102, 5548,
      31648, 2789, 37785, 49705, 24210, 21746, 37971, 3548, 6082, 31995, 25846, 13956, 42075, 45869,
      38337, 20650, 47347, 35647, 20956, 36341, 19967, 33558, 42186, 42576, 30599, 3452, 45142, 36762,
      31487, 48544, 32724, 27680, 21898, 44101, 4337, 16845, 2245, 48914, 44027, 36773, 43446, 20861,
      36596, 14488, 12515, 21401, 34352, 14643, 46858, 37808, 49676, 29847, 26156, 26176, 47961, 6920,
      2304, 7974, 10996, 1653, 19055, 39571, 7117, 1243, 17204, 7679, 45391, 5031, 47557, 18618,
      19740, 41187, 41205, 14182, 10477, 42686, 42638, 43054, 14631, 17730, 9287, 22111, 29254, 39005,
      41070, 27070, 29002, 11331, 26131, 42333, 37059, 8899, 15499, 39659, 22722, 32526, 34752, 7385,
      7956, 38103, 42616, 30051, 8206, 3568, 12733, 16085, 16342, 46795, 33230, 42523, 37925, 11497,
      41507, 7947, 16177, 25941, 45065, 43354, 48196, 17052, 5225, 1544, 14731, 14084, 44503, 40347,
      1395, 25193, 21766, 32757, 4644, 40076, 46143, 26561, 26101, 10656, 13278, 14526, 31961, 47689,
      31193, 11026, 8763, 22238, 11212, 3507, 27089, 9040, 34799, 24780, 19898, 29447, 16880, 29496,
      37585, 13041, 38580, 5323, 4009, 37349, 27061, 24633, 12350, 4543, 21241, 38388, 5595, 32946,
      24001, 41423, 36829, 11890, 41766, 7449, 20206, 14286, 19090, 36083, 40434, 16714, 29085, 40310,
      30772, 28943, 49094, 19808, 38187, 24650, 48260, 36467, 6600, 29337, 7861, 35413, 9584, 32985,
      6552, 22914, 39352, 19949, 14304, 35860, 2300, 18498, 7173, 6708, 26936, 17571, 15246, 35665,
      4589, 25790, 8592, 32425, 13282, 14092, 38496, 48895, 32326, 24424, 22978, 25684, 19391, 16053,
      17479, 48692, 46022, 2824, 1647, 6206, 22624, 13897, 36003, 16355, 48236, 11993, 740, 8952,
      22567, 26328, 48993, 21478, 22379, 36748, 32372, 48230, 19850, 34471, 34280, 32908, 39858, 5766,
      22868, 23262, 47168, 21772, 34930, 8305, 2848, 20568, 21445, 18091, 13259, 6863, 27677, 32223,
      20403, 28759, 11666, 20060, 16921, 15320, 38394, 40275, 26821, 28118, 22395, 15368, 40666, 31940,
      20349, 1977, 41808, 5940, 8939, 39636, 33508, 8278, 21835, 38561, 49898, 30834, 6592, 24799,
      5303, 35147, 30283, 17446, 13980, 39216, 36271, 38129, 9314, 11843, 41977, 1052, 1984, 10852,
      47363, 15653, 20190, 16404, 7738, 34995, 34306, 27538, 41985, 43505, 19976, 3945, 45658, 940,
      11457, 22033, 37475, 33033, 19805, 45591, 41210, 33788, 34982, 44648, 31867, 19618, 6675, 22389,
      20788, 24525, 39012, 21457, 10099, 7745, 43540, 12710, 38147, 20404, 16248, 7705, 47206, 25555,
      23285, 49299, 18399, 31155, 9830, 3391, 19834, 12081, 41116, 9590, 1521, 3076, 31188, 20499,
      9024, 4047, 1554, 14575, 20063, 4915, 8582, 44949, 43927, 6312, 18307, 23532, 22249, 21334,
      14737, 24672, 11836, 45858, 3416, 11127, 516, 8908, 26896, 14188, 12659, 24141, 25815, 36354,
      15680, 5991, 24688, 14300, 38377, 17524, 24753, 9266, 8379, 10964, 27991, 20145, 37121, 39535,
      98, 49918, 29149, 44188, 32910, 33425, 9632, 30182, 46056, 33832, 2388, 35627, 26702, 5426,
      34643, 20665, 8276, 7911, 25837, 25483, 48251, 41375, 36478, 20570, 3753, 36042, 30747, 46807,
      29586, 14885, 31947, 2020, 45644, 47257, 34186, 44356, 32593, 8504, 16635, 9006, 22937, 36601,
      12200, 39739, 5893, 10422, 21247, 6350, 2507, 20272, 46068, 39513, 4253, 5742, 40360, 23394,
      27834, 953, 27156, 46161, 33263, 34906, 23441, 26168, 4012, 36049, 45083, 45278, 2658, 49536,
      42377, 49601, 43055, 41569, 27473, 49983, 4361, 2666, 25334, 29572, 19051, 48129, 49352, 44693,
      12351, 20401, 3893, 44830, 25300, 48403, 847, 10849, 12692, 17193, 48360, 47134, 49459, 37069,
      17356, 31838, 42807, 49777, 6757, 18410, 17364, 20693, 14449, 31059, 30709, 16511, 20727, 30934,
      28463, 14555, 46076, 40872, 8140, 47478, 22460, 16180, 41133, 31278, 24120, 2290, 9026, 24446,
      12483, 47756, 8132, 24163, 28724, 6981, 20027, 21369, 14774, 6119, 18295, 32155, 23934, 43711,
      49286, 39736, 10399, 42997, 21056, 9480, 21122, 25278, 1453, 45747, 48826, 41722, 31069, 27969,
      11483, 39759, 21611, 6404, 16377, 23623, 46379, 40413, 39223, 30918, 4615, 9451, 15280, 8538,
      19811, 34891, 44102, 28266, 27254, 18469, 2194, 29789, 13876, 30587, 37399, 15277, 14614, 31201,
      26752, 47695, 6730, 44201, 9008, 46257, 18310, 34559, 5787, 18862, 45955, 26878, 3277, 31411,
      29512, 14889, 31593, 10676, 12671, 32138, 33655, 31654, 19253, 14362, 12184, 32091, 29406, 17012,
      46051, 15394, 304, 10883, 25250, 22756, 152, 5862, 32856, 3445, 18673, 16420, 43750, 1418,
      4702, 15483, 45565, 5561, 31564, 7374, 21023, 22201, 30610, 27653, 22639, 17802, 13729, 39059,
      40751, 20412, 35197, 30272, 7815, 41110, 28081, 10630, 27918, 10417, 42729, 8256, 44678, 8694,
      6851, 4726, 3257, 45477, 24985, 46199, 14443, 46267, 37024, 31723, 4832, 9317, 6133, 28815,
      4500, 11500, 2942, 12591, 29551, 6872, 7397, 26769, 44437, 39101, 41672, 23403, 37369, 49169,
      10981, 5020, 14828, 9826, 38296, 37918, 35350, 11107, 45132, 21421, 19353, 12936, 41333, 2901,
      5352, 20582, 3628, 19433, 25948, 43278, 25586, 41676, 9861, 4201, 11823, 15257, 24607, 35942,
      38874, 35678, 33749, 6535, 25900, 39108, 42868, 34789, 2240, 30026, 16178, 32056, 40070, 23406,
      34354, 16470, 13623, 2237, 22279, 11444, 6902, 45701, 33150, 22775, 25686, 6274, 18461, 21339,
      11562, 4203, 47783, 36879, 38916, 18112, 46786, 17474, 12347, 45022, 41648, 30882, 49486, 28579,
      45912, 35002, 13005, 14957, 47922, 491, 31120, 20352, 16930, 28898, 40584, 11024, 38289, 41864,
      13126, 26263, 32666, 31832, 25660, 35491, 31004, 37091, 18117, 35352, 42154, 7718, 49031, 38700,
      19052, 2718, 42984, 7557, 5726, 22012, 12157, 29623, 7870, 49193, 18739, 4364, 47548, 19713,
      33035, 42426, 42099, 34719, 35332, 5170, 13602, 791, 30994, 25758, 41294, 14858, 32061, 35056,
      12117, 47902, 1285, 16773, 16618, 13297, 27957, 39916, 1043, 27101, 39076, 41678, 29912, 17515,
      41443, 15884, 3169, 28638, 36152, 426, 32715, 39430, 44335, 34402, 42189, 20436, 15188, 1190,
      3229, 30790, 30248, 26268, 932, 40824, 5356, 33566, 35329, 41540, 30331, 41918, 14768, 4530,
      2141, 37331, 21221, 20207, 46468, 45542, 9324, 32988, 41729, 37154, 25713, 20018, 18924, 2558,
      20091, 37105, 14168, 11270, 16570, 48308, 21399, 24742, 33636, 6885, 35569, 46905, 40450, 9002,
      957, 27072, 2760, 48919, 31009, 6314, 10894, 42968, 369, 39397, 12691, 18473, 34931, 34218,
      14532, 47602, 8871, 16941, 46436, 36524, 36206, 29249, 24096, 7886, 46150, 43623, 16425, 21092,
      22188, 45538, 5661, 3309, 19148, 3056, 1905, 36956, 4156, 943, 27436, 46778, 38241, 12052,
      2294, 6803, 13659, 25023, 45622, 24891, 40376, 44402, 32279, 36411, 44304, 289, 30829, 45552,
      9571, 8822, 27477, 48530, 17707, 5116, 29081, 37137, 22478, 11636, 36696, 32687, 23573, 38954,
      22968, 27142, 31877, 24551, 40283, 14922, 43231, 39694, 46748, 43768, 26842, 30178, 9580, 28679,
      32823, 45827, 38983, 48213, 6081, 38419, 19492, 1127, 27133, 27720, 36052, 46373, 16413, 39879,
      30451, 15022, 9235, 9845, 10020, 49403, 4851, 20296, 4093, 38449, 26262, 48310, 6245, 43657,
      42309, 1464, 45437, 40348, 24131, 33945, 23638, 18389, 38292, 5286, 10591, 41190, 38837, 19080,
      38550, 31540, 42499, 38976, 30671, 43519, 20385, 14865, 37974, 8879, 26744, 32880, 42083, 38487,
      46471, 22956, 10407, 38873, 40120, 32681, 28534, 27562, 22265, 8326, 10263, 38998, 14854, 31699,
      15486, 18188, 18685, 36874, 19231, 2299, 26383, 39380, 2186, 46634, 13676, 14657, 26932, 22808,
      41468, 22747, 29253, 21799, 4660, 6394, 648, 46601, 15311, 1392, 6014, 24636, 13118, 4548,
      44161, 13298, 6882, 38572, 13153, 44608, 28974, 42387, 6988, 9123, 6205, 4402, 16796, 6233,
      6253, 11912, 2990, 25201, 20076, 6739, 34053, 46608, 49295, 5262, 38018, 36690, 26471, 9264,
      17534, 29469, 33516, 39997, 10565, 17815, 22824, 19869, 26085, 25115, 33596, 24411, 25528, 10552,
      1442, 45178, 49015, 19658, 26003, 44577, 37648, 47339, 11077, 9793, 21124, 13585, 30749, 48933,
      36190, 25806, 8761, 41819, 5438, 10229, 44193, 7462, 23381, 42103, 32791, 911, 2772, 36532,
      2351, 23048, 35578, 28299, 49929, 27824, 3942, 10079, 30166, 12038, 2595, 17704, 2442, 1295,
      34821, 2649, 1807, 23935, 2861, 11168, 12993, 8897, 9311, 30398, 31022, 32132, 1748, 48916,
      18980, 18937, 9654, 28146, 20944, 4563, 15259, 4619, 8153, 7811, 9270, 12865, 2158, 48337,
      19227, 49308, 32248, 14335, 47573, 12750, 34667, 31439, 16466, 12296, 7062, 28494, 11921, 8568,
      3269, 22466, 49642, 8402, 12481, 10146, 5861, 37202, 34798, 7936, 41967, 10378, 13177, 19364,
      12732, 15217, 26982, 20450, 33352, 22878, 21712, 32382, 32321, 35902, 5904, 42165, 33201, 26452,
      38924, 14321, 48607, 39511, 8932, 6463, 12372, 28113, 31741, 16935, 24999, 26529, 41234, 16728,
      20549, 34709, 18173, 11119, 17644, 48334, 26939, 15505, 12407, 15520, 25340, 3126, 19489, 35567,
      45032, 30387, 27865, 16100, 36781, 30512, 15572, 45357, 10583, 8842, 11380, 17880, 4520, 35373,
      16054, 35705, 21402, 11335, 36197, 1289, 11426, 39990, 3935, 45618, 42346, 37520, 21072, 45369,
      1451, 1501, 42279, 35532, 42306, 2635, 31111, 37913, 44288, 43930, 47509, 45359, 45670, 13451,
      25950, 19577, 48565, 31014, 40490, 27754, 41667, 20685, 40507, 42385, 37754, 14293, 27402, 16875,
      48254, 5175, 3315, 46336, 8413, 11196, 21412, 13657, 2231, 4466, 49107, 18592, 3703, 11100,
      26594, 30490, 47847, 44175, 1884, 457, 32348, 20832, 16620, 588, 43362, 16179, 22876, 30704,
      6098, 45926, 1344, 468, 47124, 49008, 43702, 12353, 6301, 44276, 15666, 16298, 20585, 3289,
      42104, 4401, 10123, 27227, 13399, 15697, 19676, 10390, 16266, 2826, 20574, 8374, 27512, 40580,
      30658, 29871, 16323, 35542, 24901, 2993, 48981, 11574, 2088, 26152, 27735, 29094, 23837, 35979,
      22917, 26463, 29356, 12945, 9113, 23825, 20186, 36619, 10761, 12946, 49638, 29285, 25336, 3547,
      10648, 27218, 20831, 29279, 21666, 33797, 13539, 24196, 20755, 13315, 11806, 21167, 32801, 20292,
      36204, 10609, 12783, 15566, 36995, 24501, 27951, 12124, 16886, 13497, 4010, 15805, 7496, 41524,
      15480, 45669, 1992, 40968, 9097, 27847, 21127, 19682, 26055, 18521, 5579, 43411, 8891, 30235,
      8249, 21837, 34009, 28124, 1423, 436, 13084, 45222, 33978, 37188, 31524, 14339, 41221, 7238,
      44197, 20912, 23964, 34113, 44114, 43762, 43061, 5642, 2743, 7247, 26374, 26126, 24347, 32555,
      30909, 31675, 22237, 1565, 16181, 12229, 49330, 42008, 18848, 21194, 3772, 5853, 11541, 35462,
      26678, 33420, 30409, 11812, 45920, 7725, 21333, 31591, 49065, 37565, 22902, 48706, 15517, 48000,
      30606, 13976, 29923, 26787, 43810, 18192, 37484, 5129, 47289, 32350, 38061, 18555, 3242, 41267,
      29681, 49870, 43897, 5144, 31332, 23796, 979, 28745, 37009, 11915, 46559, 43681, 6282, 15971,
      29449, 18453, 41299, 5672, 9976, 29214, 11619, 7586, 20345, 47401, 45692, 31057, 45527, 11262,
      21489, 16079, 20986, 32108, 28189, 12000, 18285, 3074, 1078, 10499, 17370, 48767, 5665, 2989,
      28735, 45555, 12487, 2814, 7516, 18679, 17954, 961, 30928, 1791, 47978, 4393, 22823, 40143,
      24015, 25804, 5749, 35437, 25374, 11547, 32996, 39908, 18314, 49926, 4262, 46757, 1800, 18519,
      35824, 40151, 22328, 49240, 33673, 32273, 34145, 9233, 46024, 29239, 17202, 47001, 46841, 40110,
      48483, 38854, 6942, 35047, 29507, 33984, 47734, 5325, 29598, 45421, 15832, 37692, 26859, 28567,
      25079, 18707, 15200, 5857, 39087, 30893, 45279, 16398, 13653, 13748, 23965, 45553, 30219, 24079,
      12181, 21848, 14290, 24755, 35013, 15361, 48039, 36311, 30239, 7195, 3579, 36147, 34095, 10441,
      16307, 4204, 6957, 9163, 20627, 17567, 14832, 27029, 44198, 1, 35449, 30903, 7648, 4217,
      10474, 1185, 46088, 26826, 12090, 5386, 17351, 18844, 28816, 43053, 11347, 42803, 3979, 7090,
      21599, 34264, 17930, 41959, 25484, 21027, 29093, 24608, 44988, 24542, 24878, 18528, 40247, 7104,
      11489, 16072, 4056, 42724, 24037, 7191, 35650, 938, 19424, 18115, 31659, 1072, 43348, 35156,
      30665, 44883, 40153, 42524, 16063, 34408, 13655, 45251, 28135, 17267, 29671, 28772, 90, 44128,
      26459, 49623, 41140, 11416, 35988, 498, 22364, 35936, 28243, 37229, 15910, 20850, 46506, 29291,
      30501, 5145, 36137, 27390, 7487, 33923, 24786, 12488, 27743, 12956, 21463, 6493, 29115, 47311,
      37858, 31565, 41201, 28826, 4645, 27091, 25639, 31244, 44595, 5757, 41435, 28800, 19882, 6140,
      6912, 10520, 11532, 48957, 40406, 20589, 46433, 7361, 20072, 1457, 5201, 42217, 14511, 36415,
      45531, 32440, 29016, 1796, 21749, 46578, 3018, 33436, 13371, 15647, 19258, 17432, 21368, 32827,
      12212, 6703, 35536, 44951, 15030, 2645, 21794, 15780, 186, 43431, 8106, 2166, 6316, 32534,
      11398, 13130, 49385, 30282, 24128, 45629, 49153, 27557, 4932, 280, 20966, 20094, 28565, 39718,
      11097, 29137, 39067, 28486, 3723, 24959, 33350, 30775, 3281, 44438, 10491, 12539, 7732, 44073,
      31386, 9701, 25421, 16948, 6319, 10118, 17816, 2845, 20870, 15541, 41229, 3578, 30923, 38040,
      14023, 41881, 29880, 682, 25618, 4230, 5935, 30233, 12899, 16284, 5001, 2923, 21240, 18094,
      49719, 2691, 7827, 4811, 36510, 3446, 28346, 47454, 8156, 18765, 17473, 27183, 39559, 44925,
      44415, 48324, 28781, 44440, 43170, 48930, 1231, 7751, 108, 40330, 22514, 14146, 16839, 48570,
      3529, 3110, 23597, 19753, 23129, 45216, 24899, 38977, 35827, 44029, 33472, 37983, 12498, 37632,
      1396, 12358, 44375, 47997, 18421, 15557, 3141, 47281, 49183, 46653, 16864, 7336, 25145, 34437,
      4289, 38065, 6663, 36962, 36710, 17736, 3202, 45848, 46889, 41453, 28055, 36871, 30375, 8288,
      33597, 17834, 35232, 2323, 34822, 31488, 38008, 36663, 39035, 37972, 24735, 6753, 8480, 10421,
      42518, 19908, 16170, 46874, 15381, 42218, 42371, 24856, 26699, 35397, 34127, 4546, 43237, 33281,
      48754, 6149, 10688, 42708, 44466, 38932, 8632, 49280, 19334, 34664, 13047, 17595, 24013, 33192,
      39495, 42393, 27205, 19327, 1323, 17082, 34621, 29780, 41953, 24595, 10351, 14076, 608, 49584,
      41118, 15258, 41763, 16790, 32310, 30070, 37429, 17919, 49006, 383, 15331, 39309, 22848, 12781,
      14524, 29005, 24639, 13832, 42400, 475, 36800, 18372, 24106, 26758, 1467, 46224, 6724, 14018,
      14019, 37664, 17462, 34018, 8122, 14400, 7600, 36897, 44430, 47766, 3303, 6342, 23556, 15464,
      923, 20458, 3601, 39664, 3875, 6868, 7028, 34519, 4346, 42203, 20903, 48320, 8541, 6006,
      15404, 23728, 39782, 11402, 40075, 30389, 2625, 40571, 16718, 39070, 14881, 24626, 45887, 39562,
      39570, 22175, 14664, 20735, 18938, 33113, 48119, 47225, 18349, 32614, 41824, 5784, 47762, 43475,
      27996, 7989, 24046, 37658, 2357, 43914, 49351, 1398, 30359, 15274, 43314, 13501, 9279, 38054,
      35520, 41307, 48423, 38628, 37467, 16900, 18439, 40811, 470, 17018, 33441, 9038, 32850, 47710,
      42220, 14971, 47994, 7969, 39257, 46279, 46593, 31454, 22417, 13926, 37401, 43738, 30779, 3643,
      9724, 33614, 27844, 34914, 8501, 9392, 3248, 8913, 10427, 27038, 25237, 25927, 38178, 17180,
      10072, 32148, 33136, 41096, 11632, 18044, 181, 9206, 13660, 49199, 23923, 14766, 1143, 29225,
      19485, 44255, 37958, 20021, 38219, 40063, 46918, 24697, 13645, 37893, 30388, 1008, 33452, 37175,
      24362, 16064, 8147, 48372, 18821, 40309, 25098, 10308, 41325, 23587, 13443, 44334, 35823, 41681,
      20667, 35110, 33504, 37964, 12736, 10608, 21453, 4285, 37495, 41499, 37440, 33207, 1623, 38430,
      43779, 8134, 29537, 9737, 17210, 7609, 20623, 31347, 16467, 25417, 26559, 2877, 24433, 43130,
      44229, 34575, 40894, 6110, 30071, 4919, 23602, 38566, 38519, 43736, 41048, 10178, 47492, 35019,
      3704, 26848, 49627, 22254, 12838, 39269, 31341, 33036, 31227, 2259, 1335, 44091, 12573, 9232,
      13420, 26637, 47828, 27522, 2453, 13999, 22598, 42517, 34071, 47040, 37894, 18326, 35565, 18596,
      44019, 28852, 5038, 28822, 23787, 46906, 29223, 33531, 19409, 36193, 44586, 29686, 4400, 29560,
      45762, 15998, 25919, 38096, 8672, 36699, 48114, 40051, 28631, 3833, 22019, 49428, 10059, 36529,
      18832, 41987, 38746, 35243, 35417, 27945, 30291, 1284, 15532, 46284, 26891, 36066, 11947, 18650,
      45148, 1023, 17541, 34366, 32622, 34336, 7275, 23982, 48252, 20807, 38767, 46142, 26625, 42068,
      6197, 48228, 26507, 15083, 10890, 43641, 4160, 19469, 32270, 37558, 40988, 18142, 45203, 2633,
      26124, 32213, 34405, 9137, 31372, 11900, 4178, 44059, 20924, 32986, 550, 43493, 41261, 45855,
      39403, 47794, 11463, 37092, 20295, 34463, 28811, 29383, 13424, 4949, 18730, 3316, 31664, 37317,
      21579, 25922, 41241, 13462, 48502, 43224, 47156, 29352, 6237, 31908, 13464, 3524, 40671, 11153,
      48287, 45724, 24588, 42053, 30094, 29957, 41218, 10343, 41794, 41583, 10842, 43607, 3719, 6355,
      6521, 9288, 45562, 33315, 18398, 2284, 49852, 34996, 40965, 3503, 12712, 49875, 28796, 35541,
      31609, 24139, 41456, 27572, 26180, 10252, 46569, 19886, 34705, 32331, 3287, 8661, 5394, 31013,
      10829, 4159, 1240, 38049, 267, 46234, 23454, 30681, 48636, 8091, 36130, 12009, 39991, 36670,
      7611, 15215, 19490, 6543, 18397, 33259, 6860, 39945, 43871, 21245, 18911, 21480, 27501, 10250,
      37318, 31294, 48038, 25273, 38943, 14065, 18551, 29205, 40793, 24095, 9398, 45520, 39783, 36306,
      20248, 39966, 46350, 45171, 20879, 9562, 41721, 7080, 15871, 12335, 32616, 36109, 26610, 25044,
      11667, 29518, 4029, 16269, 26759, 17723, 48743, 10999, 36774, 45234, 39221, 49414, 17295, 33670,
      31737, 16424, 36726, 19460, 49782, 39931, 15363, 10951, 46803, 20604, 21104, 25013, 2149, 16666,
      33565, 35158, 17224, 34751, 2374, 29066, 43248, 17726, 2097, 34435, 24864, 45118, 15975, 10037,
      4764, 1410, 20177, 19058, 34220, 10007, 16366, 13511, 10802, 47133, 226, 32660, 46344, 14036,
      5128, 10337, 49910, 21882, 27163, 48437, 8628, 12896, 2949, 1174, 7901, 23980, 44827, 44162,
      20482, 2891, 37874, 12033, 47585, 29653, 24621, 32010, 34472, 35164, 49631, 32258, 18896, 21539,
      21441, 37709, 43083, 48210, 19045, 46839, 42200, 17951, 6551, 35402, 47105, 49363, 47343, 1698,
      19444, 27271, 5549, 26612, 7656, 47785, 49329, 11487, 25588, 48719, 34150, 46205, 35162, 47372,
      20554, 12802, 34279, 44374, 25249, 31638, 32304, 27308, 6036, 24441, 1497, 39193, 11821, 27173,
      16156, 18962, 25569, 3282, 31627, 39055, 30506, 32127, 19408, 29185, 12370, 38770, 750, 41600,
      20516, 28326, 19110, 11297, 39633, 24573, 311, 21908, 19587, 29744, 4665, 35750, 39147, 22128,
      1696, 7416, 12640, 6865, 28385, 19649, 5053, 49770, 23635, 33249, 7599, 43393, 43457, 37407,
      41024, 47279, 48264, 11072, 12169, 39201, 8304, 48482, 47650, 2489, 22070, 45537, 15181, 4593,
      47826, 14399, 31833, 1326, 28886, 5756, 34205, 36153, 20723, 36994, 3350, 25393, 49489, 20024,
      49726, 438, 24876, 6740, 15253, 29977, 5684, 42439, 42157, 1188, 9994, 44371, 31231, 41572,
      41159, 33061, 42257, 33376, 6649, 46928, 25932, 47240, 21569, 33865, 7981, 9595, 44736, 27132,
      47508, 773, 42966, 3394, 25869, 45168, 21565, 32116, 38369, 21115, 32564, 10709, 40748, 25915,
      11592, 23815, 28597, 15507, 28891, 11296, 5809, 22792, 47774, 31787, 22014, 49728, 48675, 29707,
      6222, 44025, 44000, 18647, 1426, 8101, 41476, 2754, 2617, 10880, 12815, 32765, 17895, 36937,
      46883, 37619, 1763, 26653, 28644, 1656, 8202, 2277, 43017, 11247, 43729, 23389, 37128, 7747,
      4559, 23643, 47264, 33218, 896, 37604, 16530, 2927, 45351, 16591, 43379, 6561, 35922, 10243,
      42537, 39548, 15726, 32176, 33310, 49118, 6401, 39704, 41027, 33138, 44170, 28219, 37111, 21396,
      40126, 34453, 24056, 18778, 26005, 36028, 31123, 4679, 5771, 22909, 38535, 42408, 32918, 180,
      47906, 21581, 15938, 20679, 10035, 10423, 46451, 8090, 11751, 35100, 21667, 22095, 15612, 13,
      4251, 8494, 3674, 8721, 13556, 37676, 7671, 29353, 17080, 18741, 21121, 40855, 40948, 47825,
      4496, 47471, 5460, 11789, 33240, 11742, 13552, 23518, 13053, 13814, 30269, 38469, 10077, 23458,
      23068, 30637, 24017, 38433, 38820, 1213, 19211, 10329, 12790, 29688, 33869, 3683, 30901, 10237,
      37470, 15662, 19166, 11550, 10287, 36474, 31200, 39959, 3914, 26611, 33231, 40141, 17003, 48908,
      14045, 47193, 23210, 41783, 48879, 39266, 32124, 44795, 44892, 44998, 43428, 45147, 44337, 25549,
      22204, 24567, 39154, 48671, 18388, 32523, 11225, 7020, 40071, 3442, 631, 26317, 49899, 37247,
      20194, 27568, 600, 38876, 47885, 9545, 26012, 17233, 44512, 39581, 7945, 45504, 24352, 25893,
      20037, 17712, 18180, 31857, 4219, 33197, 919, 15526, 12348, 8854, 18998, 9426, 8943, 32235,
      35581, 39117, 27628, 39360, 904, 17411, 32071, 26433, 42610, 8957, 29131, 44497, 10538, 31183,
      3318, 34638, 157, 46259, 4325, 18623, 26951, 5073, 596, 33831, 8339, 22081, 23883, 5434,
      27646, 37436, 16468, 12923, 48135, 10544, 1478, 43356, 22306, 32497, 10113, 12680, 7707, 33179,
      22197, 308, 39878, 471, 41683, 18335, 13360, 42884, 16614, 45199, 24478, 9240, 30459, 37830,
      13480, 41062, 15278, 5082, 17687, 36542, 38416, 9565, 9687, 20258, 12233, 28536, 1270, 42366,
      32418, 16224, 46620, 14198, 9806, 15742, 48599, 18056, 1339, 48284, 23931, 27138, 16419, 49258,
      32896, 14788, 19260, 8620, 23540, 31886, 38390, 40081, 37832, 5401, 47221, 96, 37192, 18004,
      24628, 4913, 5628, 49793, 43120, 24055, 45534, 14522, 49289, 1771, 34596, 44536, 47435, 34000,
      26656, 3349, 42086, 29088, 14050, 37988, 21582, 48647, 43245, 24482, 14009, 1491, 18805, 49505,
      3113, 36708, 12179, 27166, 15232, 12103, 49419, 32468, 29913, 6666, 42852, 15597, 43857, 27595,
      12223, 39735, 3835, 38240, 23846, 285, 17041, 18575, 25636, 33392, 19660, 17005, 447, 4291,
      17891, 34151, 20602, 28165, 8246, 18248, 15382, 45528, 27673, 10398, 44068, 44939, 21080, 16707,
      40188, 34195, 36795, 39052, 4737, 39398, 30727, 7049, 27975, 35943, 204, 30487, 18451, 20731,
      31343, 9981, 10277, 1562, 43765, 33628, 25795, 20646, 21701, 38696, 1968, 35756, 7350, 34688,
      24768, 8410, 30427, 11187, 38021, 14763, 38684, 21816, 47821, 14354, 14200, 6042, 47869, 21974,
      3922, 44567, 25880, 22336, 30357, 17185, 33694, 4149, 32846, 21937, 86, 37413, 35887, 5273,
      9633, 46266, 23835, 21707, 20356, 45041, 16657, 14608, 33080, 25263, 45467, 34211, 32488, 6690,
      49133, 27800, 2715, 11309, 44045, 42980, 32067, 46813, 23933, 32740, 26977, 37482, 39923, 15538,
      41363, 11834, 44917, 15484, 41469, 15760, 15028, 464, 9087, 3622, 24488, 22136, 17933, 47569,
      41671, 20031, 25456, 9572, 24582, 23998, 8765, 44855, 3200, 37522, 40914, 5014, 21454, 30588,
      39630, 30167, 26522, 26647, 46516, 33580, 44085, 46842, 39103, 37780, 9172, 29773, 28711, 47437,
      28450, 32388, 31851, 26782, 19828, 12248, 49334, 6118, 49747, 47954, 28387, 3876, 48291, 24385,
      1303, 46523, 40057, 46628, 2650, 47760, 25828, 6686, 40625, 6346, 33023, 47140, 27639, 3441,
      40079, 33530, 27837, 14981, 35319, 45388, 24057, 17904, 30407, 2133, 13758, 10333, 14857, 5117,
      41436, 41795, 18153, 29421, 4990, 6146, 18191, 15551, 28915, 31196, 32811, 39171, 42305, 20230,
      29462, 2258, 15125, 33360, 49948, 4420, 25769, 44556, 28235, 31701, 20972, 48976, 18666, 2052,
      45322, 15093, 263, 26927, 42947, 46859, 28665, 12792, 21289, 1194, 45405, 47203, 3177, 34278,
      26100, 13004, 1817, 37113, 38942, 19316, 24308, 8902, 33991, 40518, 38023, 15165, 31550, 38949,
      18367, 44514, 15845, 34204, 38438, 18138, 3886, 25648, 494, 41255, 44013, 44747, 44498, 43040,
      34538, 36470, 1274, 20430, 46256, 11986, 38766, 42237, 21273, 26103, 45570, 42100, 23974, 4439,
      28111, 41762, 7908, 25026, 8268, 810, 41543, 9294, 2308, 30993, 10781, 26901, 19273, 5218,
      10646, 517, 5795, 24720, 30853, 6482, 11118, 14095, 24870, 24076, 14090, 14311, 34187, 5388,
      48193, 48967, 17496, 2898, 10610, 46774, 30937, 38030, 14872, 27346, 35749, 48745, 40659, 3615,
      28819, 27372, 35671, 42401, 49779, 4185, 9037, 34421, 5489, 12492, 8124, 43229, 37155, 23109,
      27118, 43509, 48197, 35086, 20218, 4540, 11583, 17155, 30797, 45373, 44631, 48855, 18817, 35911,
      20237, 42837, 4939, 5189, 35707, 16814, 5989, 38558, 47043, 31327, 49725, 8341, 33833, 42084,
      21963, 26640, 6070, 25584, 28348, 36138, 3500, 7164, 23200, 17725, 35925, 11713, 27519, 47662,
      30210, 23818, 45832, 23280, 509, 4416, 16270, 30410, 16290, 107, 28485, 13858, 34259, 966,
      16106, 31146, 21417, 17002, 44376, 46611, 38836, 30773, 4608, 49347, 2548, 17537, 39847, 30052,
      29193, 29073, 18906, 25777, 41742, 11242, 1516, 47586, 1463, 33242, 11031, 29105, 39325, 18885,
      43789, 5941, 44750, 27776, 23568, 38453, 377, 5652, 23571, 5298, 35229, 42487, 20433, 14143,
      12004, 25803, 47301, 2867, 40004, 27804, 31557, 32460, 10385, 26961, 18352, 25478, 15081, 34895,
      49997, 15771, 28443, 37100, 21450, 49135, 14576, 46217, 9298, 6112, 42447, 8372, 47326, 46341,
      30311, 41414, 41531, 10930, 12472, 49731, 16541, 48306, 8357, 1179, 18948, 29360, 1801, 20485,
      42681, 37227, 31233, 19780, 17354, 44246, 16841, 42749, 22390, 19813, 14880, 33075, 2043, 42924,
      49503, 39426, 12597, 42395, 26764, 40919, 45954, 30876, 47744, 29274, 2858, 40621, 9739, 13755,
      12668, 28007, 18868, 16670, 1346, 43233, 27023, 9377, 3102, 5613, 1427, 23037, 29159, 49553,
      47385, 16742, 14558, 33889, 18273, 32025, 20318, 9842, 12151, 31993, 45181, 22719, 13557, 6136,
      48216, 5288, 46936, 27443, 21203, 14014, 32342, 7653, 37575, 10772, 23700, 23665, 7900, 17894,
      43227, 22910, 49812, 41999, 25066, 31716, 45601, 2935, 16584, 2232, 3592, 42986, 36155, 47067,
      38474, 46638, 35025, 4216, 20814, 8508, 30144, 7279, 31211, 45194, 47270, 34182, 44698, 33601,
      30265, 21327, 1332, 22872, 15159, 46013, 278, 6646, 26413, 13902, 6352, 23335, 49538, 37824,
      6275, 15599, 22646, 374, 27791, 2087, 38500, 9440, 16348, 20820, 25049, 19079, 14348, 45240,
      4900, 6514, 26885, 38585, 1146, 12959, 30287, 40759, 12990, 46399, 24534, 15017, 46176, 44836,
      27833, 45037, 45169, 17598, 10368, 47656, 10700, 49324, 34047, 29367, 7281, 39355, 5137, 396,
      20026, 26032, 45066, 39507, 12623, 19175, 49821, 13391, 4148, 32710, 41031, 13206, 48235, 37989,
      19711, 37293, 49173, 45925, 13800, 24349, 29514, 36556, 27774, 11778, 35082, 398, 7567, 14501,
      27344, 23030, 46069, 49263, 35331, 46847, 4214, 5183, 15607, 44777, 13058, 34282, 19609, 15699,
      49101, 37681, 6987, 22698, 5500, 4815, 47632, 43043, 4571, 22451, 25285, 4183, 42830, 3602,
      566, 10962, 23868, 48978, 47461, 45713, 18709, 10575, 6247, 43047, 15725, 47337, 34128, 45156,
      32892, 7605, 6024, 28659, 23757, 32744, 25314, 42799, 1638, 38834, 19832, 46071, 17317, 8993,
      41594, 25272, 3388, 31579, 47884, 29456, 9548, 20196, 38522, 8686, 30012, 43589, 36372, 19730,
      34424, 41373, 24731, 20552, 8768, 40618, 42728, 29494, 30395, 19926, 4048, 22613, 30426, 25943,
      42246, 40448, 31810, 5764, 5815, 30047, 7236, 23038, 44220, 46410, 15936, 38935, 9103, 14302,
      26976, 2679, 13608, 49991, 7375, 36889, 2505, 38283, 21926, 49396, 23045, 45871, 15962, 35878,
      19568, 2714, 15561, 9697, 28989, 4770, 9535, 42245, 37281, 45748, 22334, 19664, 15249, 36226,
      17016, 34125, 31583, 6375, 43479, 25202, 15815, 26770, 16854, 36261, 437, 30223, 7315, 4928,
      24681, 16933, 5242, 4471, 19600, 8047, 28456, 14299, 31963, 40464, 13066, 38881, 17831, 29106,
      47858, 4235, 44793, 38704, 8723, 29117, 20763, 17510, 33855, 27239, 9409, 14521, 20795, 43579,
      37703, 23658, 37354, 40519, 24528, 5826, 9619, 35905, 34952, 27902, 17756, 30880, 22865, 14206,
      34771, 36434, 49091, 17255, 11671, 42573, 46689, 42311, 29132, 9048, 2622, 6334, 25863, 44213,
      45328, 32433, 41788, 32871, 17396, 7573, 47292, 16612, 24800, 23637, 7829, 17836, 8708, 3108,
      1416, 31769, 15102, 21704, 31068, 3495, 37363, 37248, 30814, 35106, 14898, 16721, 39445, 16701,
      17731, 31506, 15135, 14658, 37294, 24135, 34106, 45764, 40431, 29616, 48603, 18136, 46642, 28078,
      49766, 30840, 22858, 2496, 43265, 38609, 15388, 11115, 33098, 10484, 44853, 47336, 13595, 32636,
      5775, 45402, 46643, 29498, 44763, 14934, 45957, 5148, 40380, 34050, 6549, 49086, 47065, 48994,
      9658, 10994, 34655, 28738, 12307, 49979, 30465, 25303, 42047, 1109, 48227, 42035, 6010, 29237,
      7555, 47957, 20397, 9299, 353, 1133, 45725, 44381, 32000, 10944, 22513, 13983, 3011, 43601,
      48646, 9229, 32062, 38715, 18391, 40713, 39585, 44507, 29330, 7640, 12267, 44593, 18724, 38357,
      40538, 10044, 2825, 36328, 26166, 4032, 15824, 48014, 2713, 40692, 13561, 13151, 34090, 15465,
      17136, 24632, 25418, 45605, 2856, 10085, 5536, 22566, 48992, 4077, 18427, 5981, 48137, 42777,
      9035, 25672, 31408, 48742, 11272, 29008, 42131, 479, 16214, 36552, 31842, 30187, 266, 46780,
      28667, 1090, 44558, 42740, 39525, 18342, 42077, 30578, 3193, 35963, 30910, 47878, 2337, 1197,
      46676, 7778, 9871, 29595, 30122, 5134, 14115, 39949, 20649, 3007, 38420, 9568, 10029, 28825,
      16981, 21022, 30550, 8934, 42575, 24316, 24841, 10568, 26338, 47741, 40090, 5510, 34869, 6339,
      42599, 48299, 48104, 24646, 6246, 36772, 2220, 34104, 33605, 3930, 22652, 27359, 7030, 43089,
      774, 573, 44346, 44089, 1465, 6167, 3367, 15307, 3438, 7492, 24432, 40725, 36954, 23146,
      10221, 27789, 38748, 38673, 48915, 19085, 49843, 9771, 34737, 30390, 6797, 37270, 27434, 13400,
      883, 7303, 45125, 874, 45944, 11458, 23877, 11, 27813, 10713, 46015, 3645, 10448, 41969,
      3813, 4523, 7231, 39423, 46648, 12547, 10917, 16904, 39863, 24728, 12695, 36114, 29694, 7528,
      28808, 4756, 30432, 1108, 11090, 42877, 28136, 19860, 8054, 5886, 44552, 3542, 8359, 15074,
      40589, 19528, 2333, 37768, 37791, 22894, 11790, 43629, 47462, 17703, 14474, 22427, 28883, 5785,
      27395, 5883, 37911, 7002, 8801, 39803, 46758, 34684, 17117, 31532, 268, 3142, 4800, 35868,
      7422, 21413, 4396, 2156, 28372, 32050, 1441, 25015, 25072, 27121, 48034, 19546, 35893, 13905,
      32947, 15558, 6527, 49723, 17487, 37634, 16966, 12858, 48445, 11146, 24050, 1496, 733, 44489,
      11903, 11129, 16794, 33663, 21063, 2330, 6328, 48829, 36840, 2072, 35883, 19959, 38707, 23633,
      3219, 28910, 23847, 45262, 24888, 4040, 27396, 26244, 10410, 41277, 26419, 444, 32613, 11250,
      39232, 40248, 39372, 13573, 26815, 48421, 25217, 1336, 6564, 4957, 48694, 3973, 16109, 22323,
      5964, 31092, 34344, 18925, 28612, 21222, 6991, 29938, 43705, 1474, 48991, 24645, 8857, 10877,
      1553, 37578, 12689, 25617, 41109, 31132, 48804, 6043, 43548, 28912, 44033, 52, 37954, 274,
      12231, 13721, 47341, 8490, 43143, 25219, 38951, 21567, 2119, 47554, 23725, 25603, 36283, 21197,
      30433, 34155, 10454, 15621, 34509, 17987, 24597, 5030, 34548, 14159, 6363, 40768, 20643, 15423,
      49040, 21189, 15080, 15811, 30748, 36991, 41059, 39689, 30315, 31041, 27317, 13643, 452, 36293,
      33102, 32416, 11206, 11269, 41776, 29919, 29748, 11690, 28356, 12428, 40272, 12154, 17248, 15010,
      1878, 33962, 22497, 46348, 23890, 29745, 8476, 44993, 47799, 31053, 42392, 6465, 18527, 41813,
      20779, 17697, 2532, 43166, 22147, 35189, 20347, 13254, 17162, 48080, 23876, 33803, 40092, 12096,
      16201, 39406, 9588, 37987, 43144, 48187, 23, 39212, 41018, 22083, 30271, 17247, 9132, 36928,
      2807, 32837, 7328, 13941, 49492, 26524, 17612, 35054, 6875, 6134, 5944, 9527, 40132, 38074,
      19966, 27189, 6216, 41358, 7654, 6442, 4508, 23344, 3600, 14976, 41806, 35921, 16822, 6176,
      12986, 27471, 4738, 1512, 12843, 9810, 43598, 9761, 31434, 34916, 25983, 19295, 19670, 960,
      19217, 35543, 45309, 5140, 27108, 13301, 2306, 42386, 34257, 46039, 16840, 1839, 8500, 36606,
      26980, 20928, 1563, 28005, 32759, 13581, 24382, 21713, 32824, 35171, 46914, 7325, 35606, 46910,
      43587, 30072, 19789, 25292, 16140, 40252, 34494, 2138, 17641, 14704, 11887, 11511, 48975, 21906,
      33634, 5643, 27154, 4020, 15864, 7380, 5450, 19035, 29216, 31967, 7580, 34486, 12114, 47352,
      46693, 41510, 19559, 44699, 2142, 28254, 10264, 20338, 2273, 21476, 33072, 43153, 11086, 15190,
      30350, 40313, 309, 29887, 44624, 1348, 29701, 30674, 33253, 41917, 45964, 39160, 12829, 8482,
      18512, 4387, 29862, 16745, 20692, 27814, 22924, 3639, 35174, 48489, 39675, 10963, 27267, 28291,
      16869, 1113, 34711, 24344, 21867, 29071, 4456, 24716, 42666, 11082, 13438, 42785, 24043, 42161,
      20979, 7721, 38052, 11126, 31715, 27270, 20632, 10107, 34026, 21670, 38719, 47485, 17532, 47276,
      2091, 48940, 38493, 22288, 32221, 47425, 42272, 25328, 32927, 23904, 10065, 35484, 15356, 4824,
      27805, 29636, 46915, 47769, 33815, 10307, 29589, 15750, 9010, 6456, 41454, 20212, 7579, 22171,
      30730, 36269, 28012, 35559, 4592, 7388, 44989, 6330, 8426, 768, 21018, 33790, 37431, 41741,
      43866, 34665, 42164, 44379, 43079, 28269, 35297, 13124, 13694, 7720, 9330, 35802, 14001, 28990,
      21100, 15297, 17102, 13032, 46182, 38593, 20664, 32902, 43755, 7755, 46178, 43539, 44485, 15145,
      45143, 46741, 23768, 9974, 27297, 46651, 24562, 24865, 623, 9281, 13363, 17079, 2408, 22583,
      342, 41948, 31168, 40905, 32285, 30018, 30905, 20487, 15889, 7685, 40346, 19986, 37424, 44338,
      28403, 7665, 16594, 31043, 18086, 18894, 43754, 32929, 45401, 47164, 13713, 33495, 23024, 36834,
      2960, 26845, 27357, 36579, 47510, 11551, 13867, 46287, 8467, 35935, 17109, 49980, 5860, 11364,
      18063, 15937, 1277, 13139, 36922, 10765, 33014, 40746, 8975, 3106, 11128, 38079, 2676, 44873,
      38489, 14314, 22103, 43065, 34276, 20869, 22248, 26429, 13310, 18463, 9750, 14431, 20938, 40117,
      11963, 34078, 2758, 49078, 46970, 24987, 22919, 7724, 38958, 1411, 15020, 4639, 35290, 27779,
      48645, 7606, 36571, 22618, 29889, 21992, 4526, 13172, 11710, 22059, 35006, 36089, 47027, 741,
      9052, 26275, 32914, 12574, 9641, 26371, 25404, 8165, 28447, 20920, 46672, 10458, 12918, 15593,
      23520, 38224, 33569, 30700, 11509, 30301, 37322, 35500, 30619, 20477, 7152, 32137, 36494, 30514,
      39669, 27145, 33851, 42973, 16680, 40833, 27017, 49673, 13256, 7873, 4202, 2239, 22602, 1221,
      1412, 34632, 23105, 6612, 19478, 5679, 3560, 9836, 45067, 6186, 14366, 38482, 29641, 5878,
      44748, 22303, 27807, 34368, 24540, 4097, 36836, 19854, 17811, 45732, 30719, 49804, 6871, 40896,
      9959, 8231, 47943, 14585, 19242, 11641, 44291, 3635, 3096, 26743, 26117, 45816, 2376, 20571,
      48654, 13966, 30000, 16621, 28397, 20744, 8450, 4514, 40911, 40208, 6914, 45718, 38418, 27778,
      32358, 25782, 47217, 11104, 49798, 29797, 4342, 37039, 42546, 28300, 23153, 4998, 42042, 24598,
      20259, 6898, 30097, 13019, 45480, 14916, 36364, 28843, 30430, 19537, 44926, 48142, 17844, 26051,
      40095, 28837, 48982, 7722, 13793, 1357, 26615, 2525, 41215, 9027, 40422, 15497, 32965, 13802,
      19293, 35829, 22069, 20038, 33016, 31584, 28877, 20444, 42252, 45860, 11847, 47473, 11810, 22020,
      28966, 20867, 8133, 5306, 2577, 36084, 39302, 22351, 28331, 16358, 12681, 7978, 16123, 5421,
      31360, 18714, 8982, 3998, 28875, 7409, 37769, 251, 48023, 43964, 39491, 4819, 37775, 20283,
      30145, 22871, 7845, 24481, 33469, 23591, 10261, 8860, 31636, 18729, 46202, 44842, 42498, 542,
      19821, 3852, 36270, 35380, 6002, 32199, 5198, 42476, 43325, 8354, 22913, 40622, 21594, 46687,
      12027, 43684, 30419, 19603, 20168, 14341, 18664, 40528, 46367, 29935, 19412, 22037, 6326, 47981,
      28802, 40797, 2917, 2229, 20023, 39789, 7963, 45929, 41250, 7744, 48343, 42846, 35702, 14068,
      16276, 5654, 3779, 10522, 40514, 3344, 23646, 19683, 15024, 10480, 35255, 24004, 15132, 17722,
      21813, 21979, 17483, 28197, 6633, 313, 19378, 13120, 12048, 49014, 5961, 4635, 17112, 45797,
      4457, 12172, 18968, 14707, 4194, 25814, 4497, 31529, 2780, 28034, 46817, 19007, 14104, 32867,
      42026, 27767, 4650, 8223, 35076, 43044, 10183, 38838, 13745, 23338, 39021, 47382, 3063, 46696,
      2115, 24693, 12650, 7880, 22291, 16723, 33928, 45376, 248, 30234, 45577, 7627, 43811, 25353,
      15539, 39702, 31714, 35895, 27851, 14064, 5231, 2668, 30259, 83, 42550, 22280, 2053, 34460,
      31536, 32027, 38996, 13398, 23654, 48133, 28122, 44628, 22477, 18957, 45063, 39622, 6272, 46211,
      27985, 14384, 34973, 15537, 41354, 42276, 16573, 43980, 40058, 44396, 31773, 39278, 44876, 32565,
      45177, 8713, 19331, 43290, 4191, 22752, 16174, 19872, 26992, 40835, 32453, 12286, 16962, 45469,
      22060, 17072, 40163, 8343, 5960, 40137, 34912, 3853, 48971, 22707, 8741, 47690, 23094, 34359,
      39433, 45806, 45853, 43892, 723, 12324, 30339, 24748, 5172, 42367, 28922, 2295, 17588, 42033,
      4640, 46023, 38427, 47215, 22780, 5570, 31288, 40830, 22819, 41077, 41962, 46030, 39996, 31243,
      13174, 6502, 30325, 21880, 5078, 16987, 43085, 22153, 24060, 28845, 35117, 19431, 21324, 24539,
      31302, 14100, 3777, 4974, 431, 34960, 49174, 33006, 20783, 25140, 8313, 47503, 6324, 21220,
      42950, 38113, 31757, 17807, 25799, 11195, 30360, 22997, 31234, 11238, 31503, 16890, 34544, 35439,
      19038, 47636, 44054, 34254, 44150, 43187, 5321, 27339, 32397, 30997, 46435, 746, 9162, 10628,
      30228, 30892, 21893, 38056, 49230, 4705, 8522, 32012, 15411, 24797, 11764, 14894, 39234, 1555,
      44520, 12887, 20492, 27699, 49360, 40841, 6513, 11368, 45760, 30156, 20817, 35718, 1997, 48803,
      49608, 40002, 37734, 14320, 46679, 19105, 9992, 9056, 36247, 25691, 22133, 27016, 39834, 37005,
      1558, 2578, 14835, 5081, 8201, 17293, 30190, 18121, 12322, 25468, 22363, 19277, 738, 24062,
      709, 9464, 36655, 38305, 42381, 13125, 5098, 47911, 22822, 13077, 47426, 11020, 44302, 3585,
      16887, 10921, 9786, 30411, 25245, 1111, 33559, 21342, 11180, 29687, 11259, 13377, 26434, 24237,
      15481, 36681, 18392, 27366, 6824, 30642, 44975, 3116, 25998, 47476, 40472, 16826, 43436, 32147,
      14700, 6956, 7105, 23176, 33702, 34313, 18362, 27841, 11000, 31710, 13131, 19788, 18649, 7162,
      25798, 2529, 29321, 4461, 24389, 1549, 43823, 16316, 39544, 18338, 41002, 4068, 13325, 40575,
      46848, 29292, 19545, 34849, 26931, 43449, 24499, 49721, 24637, 18843, 42337, 33858, 14956, 11879,
      3803, 3566, 5174, 41650, 39264, 20726, 26827, 25171, 6707, 21035, 462, 18795, 49137, 10969,
      37246, 37242, 6271, 31084, 33148, 10381, 5246, 1429, 11768, 24939, 44852, 20548, 33, 47419,
      33234, 41865, 5233, 23981, 27820, 1550, 1888, 40263, 10217, 40086, 37056, 8670, 5221, 9414,
      39259, 17965, 43183, 15851, 24606, 43106, 39713, 13226, 45243, 44297, 16026, 30082, 2227, 5471,
      48789, 29074, 17497, 13914, 2207, 19621, 13857, 35039, 23214, 9023, 32923, 41281, 47976, 28626,
      35471, 6165, 22879, 13920, 37490, 10048, 48638, 19497, 6454, 6052, 239, 616, 9831, 13452,
      15283, 8362, 36588, 3284, 17192, 27006, 13108, 3638, 32120, 17823, 37064, 45157, 20540, 37591,
      37386, 11141, 29663, 40840, 7278, 30726, 49319, 30944, 35145, 43, 35084, 40921, 27252, 20816,
      27686, 10137, 18798, 30135, 6700, 15983, 40171, 312, 42376, 15459, 36141, 29580, 7876, 33366,
      31430, 11642, 11378, 13517, 40665, 11131, 49878, 26596, 35767, 5278, 14430, 6062, 5694, 43328,
      8910, 6760, 47169, 42626, 16315, 39741, 2117, 15355, 39987, 38475, 4968, 831, 33184, 14180,
      43877, 8574, 7986, 35611, 25928, 1456, 15587, 19783, 23968, 31905, 35934, 47547, 22569, 27732,
      49444, 574, 38393, 26688, 37043, 16871, 7001, 30374, 14006, 5219, 42454, 29444, 30491, 30275,
      18010, 4330, 20438, 10671, 41998, 48382, 47745, 29929, 25077, 30114, 5732, 3988, 34910, 2828,
      5226, 196, 13658, 15603, 28127, 14606, 35815, 26300, 2725, 36300, 20759, 22096, 8748, 34325,
      34830, 6857, 44018, 25644, 43113, 1781, 31477, 34027, 2264, 9143, 23496, 42644, 16889, 3530,
      24126, 17237, 18828, 28838, 15518, 2971, 44581, 27282, 16659, 24990, 16172, 31950, 827, 2448,
      25458, 48146, 37844, 29761, 23421, 25725, 12153, 22053, 44135, 22089, 26652, 43350, 38380, 17998,
      30349, 16330, 31006, 42860, 46691, 29306, 40741, 14653, 14646, 19863, 11570, 21055, 41767, 7706,
      29925, 30687, 4776, 43234, 7174, 21335, 26316, 33323, 47738, 24743, 34877, 15318, 844, 35020,
      29820, 9880, 25375, 36236, 9291, 41477, 31572, 40476, 20417, 12163, 33585, 10081, 37854, 26587,
      40140, 43376, 3245, 28249, 21768, 10669, 33668, 23794, 10405, 8114, 42334, 11470, 959, 618,
      31900, 4308, 33202, 20084, 30685, 4293, 19461, 24176, 35345, 34265, 14701, 49859, 15119, 30089,
      45908, 19608, 12536, 19902, 46113, 36024, 28449, 31527, 35857, 29543, 3337, 39075, 23681, 21502,
      4771, 40689, 6399, 40521, 48123, 19001, 16922, 40645, 19120, 8892, 40243, 754, 9072, 9407,
      48865, 48653, 34833, 48522, 12711, 42579, 30192, 24018, 17089, 28143, 17345, 42064, 48397, 49361,
      27535, 21091, 7369, 40614, 23966, 42045, 44622, 15312, 7809, 8295, 39045, 20003, 2254, 3403,
      23276, 44664, 43374, 554, 28407, 48263, 35864, 43383, 14278, 37690, 48819, 18266, 33442, 10428,
      17777, 7759, 29303, 6870, 37197, 5041, 23845, 40825, 5882, 8735, 12354, 5173, 44603, 37908,
      49575, 45645, 36518, 45377, 22046, 19972, 39239, 17686, 1732, 12917, 32295, 12474, 13337, 14295,
      34955, 35856, 23780, 48687, 16492, 38443, 10414, 13024, 48399, 15176, 12101, 46946, 20959, 29787,
      24615, 9149, 986, 13993, 22986, 34601, 793, 41920, 41728, 46887, 49669, 13345, 21030, 8021,
      4921, 29170, 21541, 38633, 12160, 35579, 39826, 15224, 991, 23978, 27343, 9698, 2129, 35012,
      5535, 30149, 45820, 22384, 26271, 10091, 25632, 1889, 30863, 40054, 20993, 25203, 5637, 11484,
      2233, 5018, 20117, 37814, 8013, 48825, 32677, 38025, 5667, 11256, 28238, 43926, 17168, 13816,
      27555, 2974, 23720, 26187, 1337, 33330, 49307, 45544, 24334, 12250, 27896, 11942, 44694, 38840,
      39843, 36148, 25621, 6594, 1596, 4810, 7475, 31814, 38351, 44908, 46134, 1717, 17896, 4021,
      951, 1446, 15917, 12441, 30327, 4227, 4306, 38676, 2180, 27084, 28041, 17964, 7249, 7250,
      20442, 48630, 8398, 4955, 29577, 34372, 24208, 22430, 48705, 31929, 23455, 779, 16510, 49496,
      17455, 29966, 10653, 38017, 47618, 45200, 33977, 49807, 41248, 8475, 23376, 16849, 47986, 47250,
      38116, 23992, 48677, 31117, 10173, 48783, 35803, 7793, 38127, 977, 31277, 39316, 43222, 39308,
      27479, 16495, 12525, 48802, 42901, 30319, 29211, 48300, 35605, 2440, 10475, 22965, 35241, 13314,
      30551, 28320, 22349, 30556, 9742, 9591, 15506, 33849, 13619, 20129, 17054, 34031, 34539, 39902,
      39468, 49062, 39928, 23287, 14966, 24580, 47737, 10678, 33859, 19031, 3761, 11451, 134, 22377,
      2363, 241, 27442, 29733, 41467, 32736, 47936, 34943, 4783, 49483, 44099, 44023, 13810, 48616,
      10159, 49772, 14856, 47932, 32760, 6025, 22239, 33778, 24695, 47901, 35981, 37536, 31515, 43492,
      38131, 26544, 28566, 32364, 21528, 48042, 23881, 538, 10668, 4879, 7578, 40981, 29532, 31207,
      9169, 45754, 29667, 31035, 11543, 24576, 31594, 27423, 45766, 41422, 22710, 46922, 30489, 22230,
      30310, 14494, 4399, 47718, 47511, 37015, 25853, 36941, 11658, 42503, 32866, 28785, 44382, 20580,
      2398, 12064, 4380, 14940, 35132, 33475, 13468, 41304, 14000, 37935, 14125, 14216, 22518, 1189,
      18444, 20418, 16332, 927, 44754, 29221, 17313, 49872, 8327, 46490, 37126, 18068, 43830, 33355,
      25903, 14802, 16916, 46625, 34533, 17967, 0, 4196, 34807, 13946, 36539, 15521, 29622, 49161,
      17398, 21254, 29121, 28509, 14500, 34706, 47158, 35738, 28382, 9902, 49028, 27337, 43622, 12315,
      21958, 45258, 28585, 48026, 13841, 11056, 49461, 45327, 34687, 32776, 38424, 47346, 45707, 3997,
      3834, 32768, 48593, 31418, 4528, 27770, 30230, 4092, 408, 18303, 24377, 10253, 42925, 42902,
      18591, 13258, 38184, 8585, 3226, 9059, 47086, 6481, 19756, 17890, 40009, 4768, 39775, 35873,
      8841, 45317, 39705, 24738, 24239, 37923, 31751, 44891, 10135, 48209, 4943, 37355, 10968, 15019,
      34321, 36037, 11059, 20877, 12608, 5641, 35783, 49315, 12385, 11286, 33424, 36281, 28329, 48051,
      44189, 825, 12143, 8600, 21785, 31607, 39956, 8499, 28664, 35617, 40316, 11893, 39187, 2487,
      41398, 35649, 14851, 14121, 39177, 7419, 36416, 48549, 19013, 10874, 40929, 3039, 43281, 22454,
      29128, 14848, 39960, 4890, 20761, 29838, 5640, 6069, 39549, 15774, 5292, 19274, 24494, 43251,
      49930, 30424, 40440, 16830, 11997, 9682, 33428, 918, 8093, 49831, 30785, 27019, 46131, 8260,
      23339, 15247, 21743, 13774, 48095, 17530, 4410, 43311, 46497, 48237, 21968, 17837, 26674, 38798,
      24572, 49907, 41194, 38287, 31991, 5523, 22464, 27187, 32255, 5638, 48562, 30839, 44829, 6742,
      11958, 32951, 25754, 15610, 43969, 26680, 8590, 47149, 10571, 21870, 18224, 38764, 27627, 15665,
      40715, 5179, 344, 6702, 12642, 29846, 45783, 19286, 31438, 9263, 26407, 24115, 17698, 24324,
      31538, 31490, 29985, 47495, 16825, 30074, 19114, 8082, 37555, 29544, 28595, 48470, 27495, 16732,
      34653, 40455, 44668, 44804, 38832, 30529, 21610, 22040, 9844, 1024, 47155, 47752, 18348, 21887,
      31603, 26033, 46237, 2647, 130, 33335, 16989, 20777, 24613, 3605, 35124, 20631, 22344, 30675,
      31573, 29948, 46674, 31392, 18045, 46186, 28969, 32452, 20987, 2955, 1092, 16329, 44612, 45119,
      21270, 40038, 5646, 5085, 33891, 710, 1972, 12558, 42175, 32206, 25047, 33747, 2756, 32208,
      11981, 7309, 16503, 39737, 44746, 21945, 14668, 35304, 8889, 39621, 9320, 17805, 49167, 9702,
      40647, 5863, 36580, 21379, 16974, 24859, 30125, 6670, 12217, 21347, 30302, 49776, 12854, 34073,
      32292, 1588, 12739, 22637, 23918, 2375, 21846, 4046, 29908, 15071, 23841, 41174, 45811, 29459,
      38608, 1837, 19265, 20740, 32297, 26995, 35334, 32281, 20383, 20841, 43299, 31355, 44372, 11571,
      2437, 29335, 10005, 40069, 23892, 4269, 16197, 12340, 9378, 36393, 49463, 21003, 23497, 16027,
      1434, 25424, 36761, 4404, 49327, 14172, 10226, 40574, 46633, 33898, 31977, 29037, 3483, 38851,
      41727, 1318, 36910, 36896, 8377, 13705, 20896, 40301, 36387, 13496, 36214, 9766, 46829, 24777,
      16188, 10764, 24238, 20767, 23661, 47335, 27671, 25840, 42027, 15393, 12845, 12645, 43400, 33845,
      28233, 39498, 48381, 31191, 17403, 35161, 46372, 27059, 8613, 9929, 31796, 46289, 47790, 49382,
      38511, 22672, 31373, 1047, 36379, 31700, 27633, 38177, 7701, 46729, 11418, 43128, 11245, 2709,
      5494, 13752, 49932, 23605, 22362, 37130, 27030, 8290, 45651, 44665, 28868, 15984, 22697, 39981,
      29434, 34826, 36065, 21166, 993, 22108, 326, 12384, 43614, 4918, 21287, 33316, 36721, 39631,
      12988, 45473, 49473, 24625, 11627, 8552, 13927, 32771, 4335, 18846, 35309, 10013, 33956, 21416,
      3124, 3027, 13597, 44447, 15033, 42670, 20029, 27857, 5005, 8886, 46556, 43346, 20153, 38667,
      1321, 17135, 48442, 45326, 20333, 32395, 36438, 12637, 36707, 8166, 16423, 36667, 46242, 39603,
      38999, 21659, 32623, 45003, 13272, 33604, 13600, 14520, 11293, 6779, 41930, 18959, 6723, 29509,
      18670, 2857, 11237, 42038, 31651, 6480, 36732, 49011, 17617, 34022, 7383, 28515, 23951, 20240,
      33824, 15182, 35698, 40429, 3938, 25861, 47107, 11941, 3252, 16391, 48294, 32405, 36493, 25751,
      1510, 7729, 40284, 30862, 12050, 30927, 38208, 15681, 45862, 7335, 10649, 36809, 41049, 25127,
      16275, 6137, 6933, 13023, 4189, 17113, 28696, 3525, 42958, 12760, 24884, 26210, 27736, 38444,
      4880, 15168, 44844, 39317, 42192, 15109, 38094, 40624, 49426, 35734, 41709, 31176, 34748, 24360,
      41276, 28248, 6289, 674, 4339, 20490, 14111, 3826, 2883, 25119, 27069, 8608, 1514, 19454,
      45772, 2222, 7940, 46064, 20139, 27998, 7980, 31505, 23823, 20398, 4058, 5220, 46796, 19376,
      21925, 36105, 11011, 49333, 42480, 6315, 36279, 4045, 8829, 20989, 6039, 18804, 31101, 35706,
      9681, 49103, 10299, 36861, 42883, 41647, 49635, 39348, 44737, 15956, 17812, 23015, 44264, 8986,
      25960, 3004, 21967, 7730, 19358, 8087, 11102, 677, 12098, 33111, 6698, 32014, 48189, 36400,
      33031, 35099, 10397, 34391, 7454, 44573, 8602, 41782, 32242, 1723, 13642, 3589, 44226, 42007,
      33318, 32191, 45617, 46398, 6972, 24201, 2569, 35356, 44960, 26983, 26834, 46855, 48165, 46912,
      3623, 2350, 38093, 7537, 18012, 27134, 11674, 44404, 48781, 22008, 25778, 22500, 20087, 36076,
      6555, 38133, 11854, 35504, 31784, 19388, 38721, 21047, 39918, 732, 29448, 30855, 7849, 14714,
      31597, 11840, 38645, 11988, 44868, 2109, 13196, 42669, 45693, 2054, 1057, 33606, 46065, 32674,
      34648, 3806, 30634, 2075, 43990, 12421, 28676, 32945, 21603, 38483, 39115, 42129, 28551, 4562,
      2683, 39816, 35648, 2281, 43647, 9841, 20983, 18659, 39829, 69, 2195, 19857, 11420, 9851,
      34848, 4003, 28871, 21490, 35391, 6662, 41716, 15230, 15035, 25124, 30042, 44530, 5508, 5511,
      29682, 13728, 44282, 25942, 43697, 242, 11647, 19634, 39085, 18270, 14667, 30, 43506, 10955,
      27858, 34573, 32403, 41635, 12045, 11616, 22599, 20355, 13455, 28848, 18339, 47226, 6911, 27556,
      13825, 47084, 27375, 15738, 44141, 35766, 20985, 3957, 25571, 45807, 11979, 22664, 17666, 10125,
      11770, 8497, 9044, 6550, 16730, 4436, 13089, 20676, 44540, 33850, 35072, 27379, 43380, 9211,
      40702, 2592, 39590, 22160, 39374, 3950, 27348, 49482, 3790, 31903, 43918, 25369, 6874, 20363,
      40638, 2275, 17814, 1882, 39907, 11648, 44954, 8363, 17851, 27508, 3286, 10812, 27380, 7998,
      46909, 48643, 43196, 13240, 43177, 44812, 17149, 25070, 30542, 48521, 19633, 42748, 29776, 48177,
      49950, 19607, 13596, 12727, 29988, 9899, 30278, 1009, 9390, 46515, 45329, 14573, 13461, 27792,
      40889, 22704, 24051, 10017, 19182, 2383, 12737, 21089, 15961, 34174, 48250, 30378, 32751, 40343,
      2266, 45008, 5777, 7323, 19246, 11288, 11968, 49903, 18585, 6048, 9285, 1350, 24620, 27417,
      26441, 49313, 34739, 29973, 49338, 24168, 3474, 2312, 40180, 18332, 34032, 18434, 17051, 31015,
      25780, 36256, 47189, 33935, 40203, 649, 20610, 18503, 45889, 8966, 21757, 24822, 10780, 47831,
      19574, 14190, 8240, 32722, 35867, 35795, 10779, 35040, 46888, 25312, 44590, 41880, 34449, 39975,
      49746, 39982, 19550, 16111, 33196, 35409, 15143, 17963, 12272, 40267, 22929, 764, 9129, 3847,
      28652, 46950, 42567, 39450, 34363, 5873, 43425, 16049, 9948, 49847, 16696, 35810, 20839, 41319,
      37448, 49542, 41780, 32778, 13558, 20624, 8925, 16050, 26151, 22992, 13524, 4443, 26257, 35697,
      47234, 19026, 45255, 35388, 16031, 39492, 11239, 45009, 11878, 165, 11515, 30091, 36543, 32527,
      33820, 40601, 25722, 38022, 5551, 46190, 36275, 12570, 4127, 12471, 41840, 21718, 32546, 46130,
      19453, 42754, 26208, 29262, 45372, 37163, 32072, 16098, 44676, 11786, 7154, 44961, 17656, 40408,
      48049, 48107, 1944, 17201, 30330, 6459, 4445, 18486, 46189, 8116, 13287, 26318, 39792, 11376,
      46784, 17620, 47574, 32909, 38898, 3485, 22708, 10840, 39142, 403, 29630, 31720, 46357, 22563,
      11404, 6813, 39819, 44380, 1347, 41997, 2619, 158, 42501, 9448, 8403, 12399, 29940, 13842,
      12648, 16196, 40897, 49157, 34627, 18053, 44867, 18995, 16613, 30849, 26217, 37694, 19985, 31554,
      27629, 29910, 46555, 49177, 1632, 1176, 30736, 39254, 17, 42978, 8821, 48053, 16311, 11884,
      11343, 22339, 13576, 23628, 8277, 25872, 8641, 36429, 12506, 21678, 7301, 38597, 2602, 14250,
      45414, 23239, 1054, 48019, 40967, 48060, 3067, 47776, 2343, 16764, 47387, 10063, 38713, 38783,
      12508, 18495, 31879, 30010, 17631, 14733, 36506, 23272, 32215, 17417, 9469, 27854, 20798, 23639,
      17294, 43388, 28361, 6468, 41471, 27096, 27726, 2373, 42766, 35314, 32961, 48345, 11393, 16293,
      27941, 41921, 32734, 1065, 30179, 25542, 40656, 47909, 25560, 29310, 376, 36694, 40094, 31771,
      46713, 44348, 9051, 17664, 20235, 34389, 16418, 14083, 21719, 38217, 15199, 16801, 36453, 40972,
      11472, 49773, 38125, 45729, 1298, 41592, 34086, 33265, 35593, 23101, 47973, 26774, 43703, 19592,
      12522, 2126, 39593, 20636, 46243, 20907, 48175, 24092, 42673, 7647, 28352, 35961, 23936, 30189,
      13957, 16976, 34247, 5971, 10121, 5869, 20919, 6620, 26798, 44554, 14771, 48469, 31650, 44749,
      49052, 39701, 12599, 9577, 35997, 13969, 4602, 1593, 3955, 12929, 43005, 44457, 418, 43699,
      44587, 16094, 40479, 48846, 10545, 40529, 1260, 35785, 12949, 11514, 2564, 8868, 15501, 15101,
      26138, 36757, 7118, 47302, 18923, 1383, 31374, 25113, 25819, 38194, 9296, 32697, 12461, 12495,
      22206, 2518, 9015, 48253, 45428, 13954, 14207, 15744, 47685, 31248, 833, 12571, 42497, 9258,
      39625, 8618, 31310, 7183, 45600, 33818, 40933, 20743, 21351, 1991, 14792, 31181, 43378, 9781,
      26775, 942, 4212, 20882, 25295, 10071, 36734, 13274, 16432, 35933, 8824, 5133, 14124, 8139,
      38175, 23294, 49987, 48101, 18536, 24197, 33151, 32133, 8421, 35658, 20509, 3842, 10286, 4372,
      11759, 34300, 41284, 37764, 41296, 37320, 25170, 42066, 11974, 43126, 19904, 25356, 42753, 38271,
      626, 45229, 31088, 48178, 40491, 46184, 37611, 35544, 32514, 33215, 2615, 25441, 35155, 1575,
      3100, 28284, 5182, 1959, 16759, 30521, 4908, 39026, 29700, 33106, 46475, 24177, 17289, 36466,
      23695, 29172, 36856, 30217, 17775, 32796, 45969, 21298, 39840, 35686, 31032, 13148, 952, 19761,
      24169, 27210, 13590, 39999, 19620, 29293, 40950, 13474, 22411, 15946, 43984, 14725, 25204, 18783,
      31649, 5476, 19022, 7618, 20052, 46647, 43917, 44654, 42834, 34, 34987, 25341, 43175, 46054,
      17037, 29942, 34156, 26061, 40233, 47114, 6235, 34006, 4169, 37849, 47777, 25268, 15209, 14310,
      12744, 34400, 49681, 44060, 25001, 36878, 10111, 12025, 3023, 46960, 387, 16808, 23517, 41940,
      5436, 45331, 44328, 36228, 18903, 3735, 46382, 11925, 3584, 23326, 7109, 38928, 378, 18481,
      45965, 18464, 37607, 37464, 25504, 1793, 28636, 2165, 45472, 38631, 48877, 4911, 40853, 35924,
      24877, 37984, 27259, 37461, 1761, 6426, 35616, 14812, 28777, 29690, 4060, 3470, 21266, 18606,
      16133, 8352, 23417, 26121, 40669, 35485, 45068, 28338, 49688, 49964, 34266, 31743, 41578, 17437,
      37215, 19573, 14183, 38508, 45688, 23198, 33258, 45336, 32874, 49886, 23264, 6726, 40599, 17561,
      37205, 12036, 22996, 7569, 46895, 3043, 25413, 46230, 21960, 45347, 24172, 19705, 3296, 42365,
      49294, 4405, 780, 49672, 45081, 17657, 30208, 26763, 16169, 41509, 14173, 8135, 2987, 32935,
      18347, 32719, 22274, 34289, 3186, 34628, 1856, 29611, 28194, 21469, 29243, 47305, 2588, 43389,
      10838, 14214, 44711, 40190, 32428, 12389, 8561, 22772, 48155, 6671, 6601, 14269, 10727, 7571,
      42658, 18152, 21216, 9370, 40423, 9164, 11841, 48027, 23855, 19842, 36517, 41527, 21165, 21660,
      9937, 31874, 39074, 39801, 5157, 21841, 17867, 39860, 46731, 29996, 32034, 13787, 43353, 9188,
      12690, 33101, 46897, 12520, 1061, 17817, 5384, 12066, 5632, 22826, 18921, 16501, 49207, 6532,
      14189, 7696, 28077, 12168, 474, 32421, 697, 44057, 39539, 29821, 5647, 28100, 24224, 14623,
      47165, 1288, 7078, 41343, 1334, 30213, 26712, 46531, 47622, 3128, 16380, 2896, 9000, 19380,
      33404, 38685, 32537, 4341, 23209, 27911, 28547, 9918, 40482, 7123, 34679, 37644, 36729, 8022,
      1086, 14993, 35626, 12649, 20513, 12890, 19484, 13726, 16114, 38286, 29775, 43313, 44037, 19442,
      14470, 37171, 12108, 30034, 45207, 49281, 4292, 42472, 46871, 2449, 39313, 37385, 44773, 39518,
      43800, 34530, 42775, 43037, 32618, 46994, 9640, 7760, 27338, 24924, 38068, 12768, 12534, 19599,
      37903, 712, 21234, 9785, 47857, 36709, 34793, 36150, 6492, 20261, 7469, 29258, 39165, 34412,
      36866, 34908, 37882, 45319, 14313, 25667, 37463, 28035, 42432, 10850, 14913, 13738, 21940, 18177,
      7320, 11899, 36431, 47723, 20909, 38319, 33273, 18197, 17717, 20902, 15273, 34557, 2894, 27968,
      26923, 30618, 34102, 10792, 42585, 26242, 37342, 37748, 39523, 37693, 6528, 17663, 8923, 15949,
      37885, 6558, 1203, 41584, 10371, 43999, 19067, 1204, 6379, 48373, 28904, 27481, 5467, 4322,
      3820, 3614, 20075, 27514, 43268, 28125, 46917, 35646, 26903, 41661, 35080, 9838, 12019, 48758,
      26595, 21654, 22648, 3357, 34778, 19855, 24068, 32566, 15140, 46541, 29647, 21135, 17342, 46826,
      38627, 8170, 8687, 41980, 3660, 28778, 6225, 14453, 2510, 5916, 37462, 25606, 5490, 18245,
      29196, 1343, 31462, 49915, 43802, 45736, 15606, 11919, 42259, 15965, 39033, 6198, 19534, 40711,
      46567, 21851, 29999, 42897, 20668, 21900, 30739, 46299, 37063, 49495, 11783, 9905, 28905, 41896,
      44601, 40066, 20697, 5026, 15869, 8970, 1248, 25867, 36022, 25824, 43397, 27517, 7091, 42319,
      23378, 8049, 39023, 32098, 48091, 24263, 21632, 36574, 20275, 36192, 7948, 31859, 45884, 5371,
      10562, 7775, 10732, 15421, 6388, 43112, 28227, 43522, 39881, 43207, 14921, 16617, 26780, 33711,
      27665, 7602, 11105, 9564, 9576, 8439, 20273, 45355, 44782, 36357, 39903, 8471, 10331, 38135,
      17024, 23028, 31198, 35120, 48756, 22178, 46954, 46818, 12075, 10497, 978, 10542, 34900, 30468,
      3155, 2086, 43785, 16242, 28662, 39798, 3256, 36376, 40800, 9339, 34163, 28722, 13991, 14651,
      21595, 20254, 16969, 16213, 47246, 5559, 22535, 47881, 1500, 12299, 26773, 13270, 25607, 1526,
      32227, 17456, 21631, 39576, 28863, 43769, 11260, 25663, 32173, 5780, 22781, 1758, 43670, 23716,
      4801, 29232, 10946, 11930, 15341, 23676, 35722, 45737, 212, 42388, 8795, 17277, 19042, 17680,
      10362, 5821, 43038, 3481, 43584, 40623, 43096, 21820, 22629, 18418, 20479, 25180, 30423, 15057,
      22605, 29868, 45122, 15652, 46726, 43396, 24764, 3160, 17134, 46507, 9419, 12507, 17825, 33190,
      24152, 13849, 7577, 41912, 12513, 9975, 12484, 24178, 47019, 20041, 40709, 8111, 7698, 4428,
      1433, 20205, 43068, 46387, 3109, 45710, 26184, 10865, 40952, 2879, 2750, 34922, 43435, 47391,
      31726, 20573, 43093, 1904, 11635, 7769, 37474, 19030, 26305, 24909, 13353, 33881, 30376, 17936,
      18834, 13548, 45989, 7326, 8483, 24664, 37938, 23018, 19107, 121, 46787, 16003, 11052, 7215,
      963, 16610, 2847, 1147, 36348, 36946, 22004, 37677, 13384, 6889, 1251, 5281, 36265, 23452,
      28480, 37377, 13209, 48955, 19793, 3480, 41179, 35808, 14680, 43459, 47621, 38082, 42705, 21215,
      19375, 30864, 4411, 27615, 21964, 33321, 40225, 28203, 23990, 8729, 3451, 2628, 38352, 35138,
      37071, 32984, 24806, 24863, 10245, 13143, 35126, 49800, 42488, 41055, 41983, 48407, 16726, 19221,
      42995, 19883, 40535, 3354, 27838, 38212, 9116, 44204, 48413, 14091, 37839, 31911, 31284, 13008,
      16540, 47528, 35134, 11849, 7840, 14454, 14968, 2071, 19241, 19458, 9358, 11488, 19826, 31873,
      35663, 264, 25296, 25956, 26969, 18914, 12654, 8725, 42696, 23462, 14777, 9029, 48941, 34140,
      38632, 27859, 24666, 41895, 4641, 22905, 33358, 9042, 41305, 17779, 28790, 1719, 34558, 40769,
      40392, 10718, 7119, 12527, 4483, 25210, 47397, 30616, 20314, 20747, 12798, 36424, 30975, 38893,
      3662, 8560, 11677, 14447, 19625, 31265, 34934, 40819, 6053, 5890, 6746, 8388, 15129, 23909,
      15069, 762, 10200, 33644, 13831, 45857, 49235, 37718, 21597, 6768, 16504, 4634, 7438, 32212,
      6879, 36036, 10984, 15392, 19979, 12784, 26228, 24823, 38253, 28866, 48558, 44181, 22199, 47631,
      26575, 13938, 6596, 48996, 26585, 12893, 34202, 48331, 25987, 34382, 38073, 6000, 26670, 9508,
      35511, 3965, 12220, 39285, 11257, 21429, 23337, 22561, 29898, 32380, 30130, 18247, 48117, 21763,
      4480, 25986, 6264, 21641, 7594, 42036, 16185, 6814, 6725, 45946, 37967, 16019, 30019, 48527,
      33389, 6003, 34732, 23349, 26537, 27591, 16831, 22570, 36673, 24307, 3406, 43263, 5557, 43873,
      42428, 6597, 12249, 5992, 9238, 4430, 48959, 28998, 11370, 3165, 8105, 22146, 43923, 38398,
      48626, 46033, 47880, 12097, 5824, 4197, 38801, 24280, 4126, 43652, 20053, 18163, 17737, 41119,
      37112, 45196, 29698, 19068, 243, 21366, 34083, 22862, 22489, 12730, 15751, 43723, 24978, 42304,
      703, 38250, 17792, 42967, 42223, 8340, 16337, 26381, 5976, 39761, 1896, 35917, 35799, 16239,
      4254, 40664, 25514, 22667, 23475, 9753, 852, 34149, 11733, 8845, 16778, 43332, 37178, 28749,
      17860, 38702, 7581, 3839, 25742, 27852, 2310, 12327, 11865, 38148, 44218, 37403, 40113, 36714,
      42284, 47479, 4268, 5261, 9997, 31051, 41146, 29668, 33533, 43501, 21407, 49283, 35271, 6604,
      7792, 26915, 42301, 28104, 1296, 28156, 18483, 26388, 24979, 35264, 4667, 39946, 1026, 41613,
      30714, 34384, 6018, 33286, 33029, 5740, 32968, 19548, 43806, 38299, 20260, 48081, 44745, 5336,
      4717, 26059, 33544, 47411, 32842, 44646, 33354, 19847, 23534, 31354, 5858, 46626, 48179, 25078,
      5107, 30842, 21970, 43091, 34436, 8969, 17871, 20019, 20351, 16441, 36410, 13870, 19165, 1564,
      19896, 21744, 26065, 19021, 12276, 25797, 26443, 20722, 24396, 44820, 21261, 41144, 31444, 46792,
      40249, 45625, 34608, 30647, 14756, 34103, 2001, 49479, 41388, 775, 43368, 40186, 29998, 983,
      49159, 1387, 39437, 29390, 14150, 10446, 36209, 7285, 23994, 47490, 37724, 1815, 22255, 139,
      30594, 40324, 48774, 9473, 45193, 14703, 32789, 5915, 36272, 17086, 12277, 24350, 48768, 41242,
      27316, 42605, 13533, 6580, 38689, 26387, 46377, 5686, 44433, 1794, 26359, 5531, 35251, 44178,
      17652, 18149, 31263, 21297, 32727, 8867, 4620, 7643, 455, 12241, 14134, 16296, 35551, 30705,
      47367, 10818, 11976, 12080, 45571, 21484, 3033, 44710, 23127, 1613, 12246, 14649, 46137, 6169,
      119, 42090, 47758, 13198, 44621, 2041, 43401, 35231, 22734, 37442, 28828, 24927, 9525, 44551,
      36213, 42194, 29136, 49246, 42620, 21206, 5705, 41807, 33338, 37416, 47029, 37956, 19247, 40548,
      22649, 8707, 28587, 45821, 1275, 10354, 38835, 29673, 16041, 2215, 30006, 39743, 2009, 17758,
      48441, 31907, 41134, 15885, 23942, 14218, 34805, 8637, 21647, 36274, 5162, 48889, 8832, 18858,
      33303, 16811, 45429, 37920, 15482, 45819, 40865, 15878, 41658, 32106, 41176, 8918, 22964, 45335,
      34422, 49121, 15670, 22818, 35837, 42326, 44938, 4170, 17819, 48951, 21156, 25949, 27889, 11149,
      15968, 31326, 37610, 43253, 22270, 12774, 22670, 10383, 46395, 14592, 871, 3580, 4709, 49762,
      43013, 990, 44888, 27300, 122, 20315, 24202, 28594, 9094, 19034, 3208, 18294, 19119, 2074,
      25652, 23522, 42660, 27178, 40731, 22573, 47126, 24980, 35003, 19100, 12325, 13626, 30952, 21978,
      14722, 40152, 13128, 34480, 11501, 17366, 26697, 36014, 20174, 42119, 35657, 10843, 36315, 21499,
      15122, 47630, 1994, 11895, 18176, 10797, 26088, 26310, 16596, 10650, 7589, 14734, 1662, 12629,
      28929, 17183, 9556, 46840, 36671, 26850, 6996, 23215, 48518, 42184, 4450, 16132, 24699, 8099,
      32005, 7057, 18466, 44221, 31999, 49576, 47433, 22600, 12459, 41015, 45993, 20464, 2390, 1520,
      13985, 27468, 9747, 16985, 15801, 42396, 10603, 18746, 30972, 40626, 45086, 33185, 43302, 45047,
      35360, 34585, 6934, 1871, 37161, 24084, 13839, 21410, 33847, 8814, 29268, 21844, 44501, 36622,
      6252, 36626, 22091, 45919, 11558, 3725, 12378, 34517, 9919, 28726, 47572, 15002, 11858, 40964,
      6148, 12309, 27706, 10854, 16797, 35879, 45152, 2656, 32379, 41900, 6977, 43466, 22657, 18250,
      1311, 23759, 21789, 15706, 7723, 34708, 29408, 21363, 38528, 8019, 2153, 30043, 7842, 4952,
      31547, 21214, 42178, 45711, 17078, 3250, 35467, 18479, 1149, 40435, 37901, 31383, 39367, 42411,
      45164, 47450, 31071, 36838, 38476, 35284, 12478, 1305, 9539, 1981, 41357, 34253, 1029, 6899,
      47687, 14077, 1730, 33915, 47104, 21025, 15061, 12337, 37850, 12073, 29435, 2078, 25111, 10863,
      43612, 38075, 42758, 33096, 37345, 39396, 6219, 4751, 16233, 14058, 33369, 34803, 4463, 3163,
      9802, 23882, 25612, 42250, 14057, 37546, 26239, 12063, 48353, 29704, 46218, 20603, 29145, 49851,
      20071, 1142, 7448, 45035, 48571, 34025, 1918, 10138, 30751, 32547, 45481, 18865, 23630, 33835,
      25807, 13260, 30148, 47996, 17912, 38251, 2168, 32168, 25228, 45609, 48775, 28700, 13559, 47815,
      3682, 6603, 47388, 31998, 9375, 34658, 26036, 30117, 1202, 28519, 8732, 3198, 17608, 33271,
      41529, 41885, 19511, 20579, 28435, 28709, 34504, 22374, 26194, 382, 26817, 14137, 47364, 17940,
      20154, 5623, 35405, 2884, 5532, 8312, 41902, 34876, 23512, 12804, 43766, 27602, 5191, 4680,
      31464, 2653, 39654, 33975, 34216, 2733, 22558, 18200, 36899, 837, 12889, 2752, 23521, 23436,
      46750, 17222, 38786, 28217, 7403, 34042, 10008, 21796, 24997, 3386, 21425, 11166, 2435, 46790,
      33507, 19397, 16359, 34787, 35078, 12880, 35586, 21010, 36375, 40340, 29147, 1513, 32185, 24958,
      6451, 42862, 9779, 13817, 26963, 40540, 5092, 40963, 44058, 26453, 34652, 361, 33799, 28340,
      16294, 16844, 7302, 36240, 45619, 32282, 13063, 32325, 13984, 2346, 4468, 4208, 17683, 5346,
      4636, 20427, 42601, 49029, 36977, 25726, 4472, 38041, 7714, 27625, 47470, 18607, 41654, 44881,
      13827, 46012, 15112, 24889, 16898, 17979, 15427, 17491, 7102, 33562, 40630, 8980, 27287, 33296,
      3954, 5911, 28630, 49232, 10695, 22138, 42545, 30165, 10097, 45381, 31102, 34750, 27487, 12833,
      11395, 44384, 9855, 21001, 10752, 10030, 32065, 49931, 42662, 36868, 42389, 47342, 17281, 22221,
      42266, 38879, 1677, 31141, 92, 35708, 14655, 3915, 49820, 37933, 12042, 39305, 20915, 20267,
      22839, 49947, 33341, 3891, 2252, 13204, 2391, 3781, 24711, 1292, 43315, 5735, 89, 29922,
      8028, 25011, 28751, 32549, 18533, 12660, 36038, 27711, 16190, 43209, 20730, 25623, 18663, 53,
      45246, 48714, 5484, 5910, 38407, 43780, 20851, 47507, 19415, 17381, 27129, 35102, 32712, 310,
      1886, 37000, 13250, 1247, 25243, 17856, 49857, 45866, 33027, 875, 23615, 7623, 11277, 13633,
      12245, 41455, 39773, 28839, 35791, 39342, 3038, 37551, 26313, 42009, 47446, 14508, 18127, 26004,
      14208, 21812, 22126, 3904, 21504, 6005, 38662, 28818, 42105, 4140, 27622, 46965, 23788, 40844,
      187, 8948, 23158, 32240, 4638, 48405, 33117, 48834, 40499, 46663, 7355, 16899, 1712, 11898,
      11181, 17242, 45879, 5897, 24498, 47117, 30415, 32205, 2236, 47444, 16207, 16572, 23159, 2547,
      37054, 32932, 25929, 46629, 15403, 16474, 33394, 30221, 13308, 8285, 34727, 30793, 35379, 17126,
      37365, 21026, 28045, 49657, 45835, 24460, 20576, 9674, 23947, 36883, 33155, 41447, 8944, 18988,
      334, 8408, 41981, 81, 12518, 15924, 7787, 6164, 45040, 29918, 47875, 21721, 40917, 28405,
      6138, 16431, 22896, 39408, 7794, 35064, 4970, 1066, 46405, 32532, 44063, 48462, 29215, 29779,
      22154, 40125, 16036, 34442, 23014, 42717, 8190, 18737, 19737, 43640, 18291, 12908, 15435, 2834,
      5238, 40449, 36925, 13801, 3294, 23715, 49423, 38624, 23784, 14989, 21434, 41071, 34586, 23075,
      26052, 2931, 12776, 36402, 16336, 14154, 45090, 25657, 42067, 25590, 48814, 49941, 21798, 36162,
      42591, 44729, 9827, 32673, 32512, 13804, 24258, 16268, 38589, 44265, 31190, 23329, 22267, 1729,
      24367, 43735, 45921, 47640, 38853, 36229, 43921, 31522, 49869, 35346, 25486, 30557, 47261, 28120,
      4177, 7937, 39091, 3254, 4910, 6593, 41805, 5859, 30655, 39682, 34458, 28053, 11798, 6278,
      36503, 5513, 19791, 25885, 30899, 17250, 8671, 16951, 15390, 30517, 45689, 47, 16325, 48554,
      23680, 18586, 24480, 13064, 35788, 12310, 12983, 29501, 27694, 34350, 38961, 15171, 22840, 37264,
      9876, 17011, 17048, 43420, 5076, 39556, 42167, 10281, 15347, 47205, 36360, 20940, 27763, 25786,
      23085, 1540, 2958, 35070, 49416, 29594, 18786, 3013, 34105, 39203, 12085, 22245, 16917, 25509,
      17928, 21954, 22137, 33683, 23315, 37779, 25889, 23820, 33485, 41202, 26115, 25377, 48852, 45413,
      41043, 8425, 5291, 10323, 10285, 24862, 5357, 24568, 5331, 8731, 48362, 26642, 41313, 27849,
      37620, 26818, 24228, 15018, 46722, 34614, 6187, 17646, 39050, 1366, 45868, 49043, 12320, 45131,
      46328, 18036, 18274, 38804, 980, 25440, 12914, 32324, 22571, 25248, 14607, 21418, 41286, 22587,
      9041, 3058, 9021, 47763, 48988, 33947, 4238, 28577, 23036, 5160, 8612, 32900, 23719, 4066,
      22305, 14228, 9003, 16609, 49037, 14754, 8416, 41223, 14827, 790, 49528, 23771, 36718, 37457,
      46354, 30660, 17639, 23734, 3069, 29261, 31504, 48800, 20302, 16996, 39086, 42321, 27870, 11699,
      49517, 36017, 1897, 19452, 21268, 21477, 43115, 8141, 44672, 11513, 42790, 30181, 5980, 48882,
      38927, 30456, 40106, 5838, 5485, 34347, 6897, 31252, 26230, 40226, 43687, 13648, 23819, 33345,
      5669, 14914, 19025, 39733, 37025, 2876, 14884, 27054, 9082, 26528, 6117, 4085, 6826, 48358,
      31293, 35804, 21570, 26276, 48498, 29198, 31493, 44208, 7954, 22216, 26226, 1931, 8447, 19809,
      23709, 7752, 5986, 25961, 1953, 23432, 44645, 7362, 23352, 12538, 49891, 23026, 42158, 44774,
      33386, 88, 29563, 19155, 21995, 21626, 32522, 18524, 26484, 23687, 34852, 39002, 18465, 13011,
      29015, 38900, 49478, 8840, 16734, 20524, 34322, 37550, 12412, 21822, 32052, 10257, 25620, 21895,
      30786, 23727, 12611, 41451, 49818, 47603, 29446, 43968, 38529, 5066, 13925, 42403, 8033, 4653,
      13316, 19893, 85, 7539, 20784, 34170, 35714, 25481, 45574, 13277, 37730, 21886, 17636, 22877,
      28476, 3091, 43312, 18747, 3941, 15743, 16963, 32473, 30294, 21405, 37761, 28586, 41657, 27585,
      22434, 36911, 38651, 33413, 39848, 3264, 7317, 18083, 16961, 13101, 16836, 19804, 25699, 37231,
      9579, 42734, 38171, 1229, 33134, 8651, 7668, 44258, 3176, 7863, 9774, 48824, 21726, 48778,
      9150, 12162, 37728, 25985, 21422, 22709, 17447, 321, 48218, 7010, 15570, 49743, 28888, 3383,
      10959, 18080, 29740, 36126, 8610, 25503, 9248, 2140, 37119, 25781, 32502, 34851, 7223, 28321,
      19690, 21982, 41392, 37561, 1530, 41437, 2929, 5799, 43060, 11204, 22762, 6754, 23228, 12902,
      3508, 42363, 5358, 21843, 10320, 33347, 9704, 40285, 35746, 24471, 35173, 7834, 44069, 42302,
      13681, 40573, 40341, 20149, 35898, 25907, 38986, 29044, 16168, 11405, 41377, 38504, 30735, 25624,
      4061, 21201, 298, 33925, 12839, 35555, 6281, 28137, 32040, 49051, 2498, 31863, 33574, 19532,
      1338, 293, 46014, 43885, 4072, 16153, 13522, 29012, 30309, 29019, 39244, 17925, 29716, 11626,
      27226, 43518, 44838, 47639, 4916, 10546, 45867, 18123, 18376, 48433, 29350, 42855, 34689, 11567,
      9016, 380, 7713, 12188, 10747, 41770, 28712, 41249, 33692, 12954, 49897, 44916, 11355, 37590,
      26067, 45551, 8186, 42274, 48704, 41233, 26064, 49514, 14826, 45778, 27942, 35591, 47980, 9152,
      6071, 36461, 11462, 49393, 15842, 48899, 26102, 41697, 35806, 34243, 9328, 8355, 47846, 24894,
      35337, 6343, 1610, 21787, 31197, 32520, 31291, 37880, 25265, 41810, 9954, 14594, 48924, 41608,
      8978, 35700, 44675, 27214, 22979, 36396, 37934, 6058, 16435, 40193, 31567, 37593, 47623, 31646,
      44545, 20280, 23629, 22632, 39502, 21382, 5814, 31516, 33577, 7218, 13931, 27196, 37050, 7542,
      14223, 35882, 2926, 12107, 2697, 9382, 29397, 49850, 11198, 30264, 21250, 6384, 27462, 45649,
      40128, 459, 10560, 17623, 7074, 3082, 32013, 12921, 14907, 25670, 27031, 37257, 27255, 16452,
      26259, 5327, 46700, 47125, 13364, 3353, 6327, 35411, 34990, 21505, 47701, 27976, 48443, 17444,
      1385, 9547, 5963, 11367, 43202, 19543, 18700, 22674, 23120, 933, 26964, 28607, 12832, 41749,
      8217, 30296, 38616, 8324, 35836, 3410, 46409, 41498, 113, 6777, 2771, 11784, 10370, 29907,
      7651, 28938, 46627, 3511, 17784, 3119, 22814, 34411, 8237, 11964, 35193, 10697, 2320, 38785,
      36098, 12782, 3122, 44050, 48556, 31090, 12434, 29840, 45790, 40609, 37870, 29286, 28268, 895,
      19762, 43453, 31825, 10090, 1830, 48245, 22471, 7241, 36485, 4728, 47688, 11856, 45735, 22385,
      29349, 26725, 35530, 26109, 13962, 36559, 21231, 39641, 17243, 3921, 30976, 43602, 27104, 13166,
      49274, 36653, 31569, 42706, 27722, 1351, 24577, 39149, 104, 47581, 35521, 19016, 4825, 42872,
      14830, 10730, 35894, 4972, 25435, 24622, 49124, 26750, 33343, 21475, 1459, 18718, 46412, 5083,
      15315, 23809, 8575, 34109, 38321, 18363, 1494, 49736, 44709, 39376, 14796, 4929, 16819, 27908,
      46983, 31152, 34438, 16595, 38324, 5330, 17099, 12068, 28424, 16846, 20357, 30368, 5427, 45976,
      25902, 39068, 2318, 26914, 4984, 43749, 996, 33772, 28381, 41995, 6037, 15252, 4502, 16255,
      19530, 20845, 25724, 35452, 23222, 17484, 18396, 36815, 26573, 3362, 30381, 31242, 19570, 45774,
      47316, 40417, 31459, 9418, 24705, 26024, 16686, 18532, 44072, 22866, 35677, 12071, 17547, 33203,
      48598, 32107, 13630, 9858, 7387, 31717, 29864, 35747, 30883, 24954, 25959, 39836, 3701, 46495,
      8215, 30438, 45776, 31295, 20123, 45875, 15527, 47451, 10031, 49687, 6636, 49689, 12135, 36476,
      24612, 47041, 5309, 1103, 21068, 8555, 16798, 9898, 783, 16343, 45583, 2521, 39514, 45316,
      36515, 45881, 31266, 9778, 2932, 7620, 18695, 19527, 14942, 18042, 10432, 6462, 1255, 41537,
      43215, 34200, 2280, 13754, 21532, 39655, 47536, 30762, 27294, 23080, 39744, 32385, 48071, 27146,
      11684, 31931, 11045, 41700, 43280, 26233, 11598, 9345, 19879, 36624, 27003, 33771, 17228, 49100,
      40900, 29758, 39558, 17647, 30925, 43643, 8622, 1330, 32289, 9512, 30356, 24706, 7545, 45988,
      41542, 751, 42994, 25512, 34065, 33974, 15931, 41915, 15568, 31840, 42352, 21838, 37432, 14918,
      37498, 11775, 5575, 26890, 16136, 34788, 44361, 7931, 7476, 49622, 38653, 19770, 10501, 12600,
      40175, 13021, 43613, 25845, 45462, 46152, 13208, 1660, 29649, 8119, 49090, 29554, 3848, 22596,
      34781, 8985, 4945, 4266, 29593, 18671, 13834, 16936, 6127, 7864, 16367, 3687, 22041, 24692,
      39424, 20178, 24547, 24053, 33886, 31185, 10260, 13492, 3047, 25543, 19697, 26225, 12607, 29906,
      38763, 5016, 2371, 30157, 16221, 30889, 14117, 48701, 9708, 10888, 38794, 12148, 46104, 8067,
      23056, 37511, 48881, 36005, 14917, 49639, 24559, 26954, 127, 24190, 34011, 24267, 32135, 40663,
      40582, 43913, 6657, 10359, 45652, 14879, 40882, 23297, 4349, 43848, 35748, 32785, 29865, 841,
      27650, 46734, 4977, 4565, 40805, 35731, 37871, 25635, 45051, 13144, 19498, 21013, 4406, 10876,
      3456, 26786, 9897, 23278, 23058, 23626, 47784, 49035, 39120, 32178, 11106, 25234, 15011, 20480,
      38408, 17034, 44790, 17605, 22284, 18870, 31560, 6679, 48851, 15308, 28438, 29699, 38815, 43189,
      34193, 30516, 34978, 21202, 19632, 30064, 47601, 20160, 37360, 33999, 2471, 31223, 49154, 7026,
      20821, 30369, 44818, 1455, 37965, 19111, 32086, 30817, 20066, 48312, 10580, 30218, 21696, 17935,
      42637, 8387, 4312, 10714, 19566, 35986, 10080, 8664, 38865, 8688, 21753, 4320, 44599, 40814,
      10551, 17028, 40494, 19655, 1201, 33900, 47907, 2724, 25550, 38168, 2406, 33914, 29652, 5300,
      782, 27077, 11215, 41623, 8898, 17511, 8038, 7346, 22926, 15163, 16792, 26823, 41263, 35085,
      23773, 30845, 32481, 23686, 10882, 4350, 30476, 15243, 24189, 12304, 2492, 42021, 3655, 32941,
      4869, 21132, 28870, 26778, 21840, 46431, 7922, 33103, 22342, 26740, 9653, 16537, 12357, 37916,
      40754, 42347, 29609, 46213, 19244, 28431, 48567, 22278, 20297, 4287, 11965, 44370, 4744, 15415,
      12016, 19764, 23673, 12234, 15638, 46250, 9723, 36921, 47498, 4007, 21617, 23832, 1254, 17439,
      33026, 19910, 33465, 29953, 30673, 26662, 21593, 23220, 43351, 39007, 21385, 33081, 9601, 38293,
      6263, 47152, 40036, 172, 5479, 11815, 36682, 48279, 7875, 46518, 37282, 37479, 26781, 3448,
      27828, 19890, 4625, 23604, 19176, 13340, 40636, 11222, 24677, 33667, 41227, 8014, 32560, 23473,
      31089, 38626, 35296, 9397, 46419, 1615, 33924, 30439, 27831, 18235, 44317, 41907, 27611, 3397,
      6410, 42655, 45239, 27879, 34604, 3694, 49355, 2393, 15375, 29719, 13374, 35127, 18090, 21998,
      9965, 36992, 33403, 894, 2903, 8310, 43329, 10452, 13415, 48069, 9839, 1087, 32609, 15556,
      41013, 11243, 44885, 36747, 34270, 25414, 1215, 5825, 346, 43289, 9396, 4418, 32579, 29633,
      46107, 43185, 33993, 36184, 28049, 12260, 33244, 4937, 26192, 26791, 5810, 10943, 14978, 43297,
      21265, 44324, 45922, 16606, 33015, 36986, 3808, 41668, 18838, 39000, 39205, 24397, 38994, 24907,
      25239, 26384, 41802, 2278, 25410, 33419, 4106, 45530, 19236, 10919, 41640, 39172, 43452, 1060,
      5124, 20406, 46952, 27550, 38541, 6607, 133, 49469, 9559, 33534, 29439, 10062, 14553, 46493,
      27012, 25859, 37278, 5259, 8737, 12119, 44163, 20440, 379, 31339, 5252, 13401, 27100, 6812,
      1937, 27329, 35038, 21090, 5282, 24269, 1676, 7473, 22179, 5689, 40082, 32394, 36430, 46301,
      28674, 26150, 44847, 22855, 43583, 2626, 9550, 27217, 37287, 18492, 10043, 16804, 47046, 5150,
      49970, 29634, 6395, 40219, 47200, 23073, 37003, 18941, 19365, 26742, 29110, 7341, 2405, 35472,
      30367, 43069, 37058, 8211, 31096, 18876, 34221, 40352, 9049, 25836, 49841, 37488, 15559, 10353,
      2414, 2262, 24164, 44359, 31606, 10152, 43456, 28855, 14958, 21916, 21862, 17218, 2540, 48475,
      42949, 32936, 6525, 8544, 11155, 41544, 19876, 30101, 40823, 1568, 18943, 20848, 4936, 43504,
      8513, 48010, 36473, 2967, 49649, 30724, 24200, 42335, 22400, 11644, 26222, 26487, 11191, 15322,
      20770, 1672, 14600, 36960, 2546, 19827, 27327, 40024, 30605, 7825, 23201, 42661, 34672, 27904,
      2536, 3588, 15718, 19419, 18321, 14452, 549, 18358, 23059, 30959, 24235, 19429, 23722, 32475,
      25148, 16824, 25679, 12871, 47761, 13015, 43915, 26882, 4004, 28764, 42127, 31685, 25071, 28737,
      26344, 42650, 23245, 11990, 41149, 21980, 26810, 19688, 29931, 35116, 345, 27797, 35482, 16334,
      14612, 30243, 21738, 46868, 31215, 12383, 30548, 37303, 10312, 9334, 42607, 8830, 25089, 19341,
      14442, 15113, 6147, 41616, 41450, 38656, 40762, 13014, 18579, 3746, 24266, 24303, 7688, 27749,
      35977, 40947, 33907, 29370, 48258, 28608, 1755, 42122, 17321, 2501, 6291, 31861, 24047, 40415,
      47131, 42810, 49415, 45535, 38448, 12821, 46527, 32381, 28860, 18652, 24185, 10861, 12705, 32882,
      43373, 34139, 4376, 19927, 18076, 44861, 22816, 39361, 28720, 20112, 11060, 26628, 30683, 42525,
      37886, 26112, 27039, 24696, 20629, 388, 46553, 49949, 19143, 38471, 46364, 13381, 14156, 137,
      17728, 21523, 47861, 8018, 45635, 14699, 4143, 10581, 6958, 34951, 7293, 8987, 25087, 26435,
      44990, 42602, 15287, 30212, 22503, 40608, 44044, 38989, 36969, 27950, 819, 46, 25577, 35206,
      39679, 31960, 33880, 29157, 25638, 47691, 603, 5393, 31046, 48896, 19048, 49467, 16230, 31574,
      17994, 222, 40480, 49882, 44295, 4989, 25728, 27225, 36894, 397, 15345, 33696, 18513, 36421,
      18605, 43616, 18808, 10622, 32435, 26601, 2639, 46050, 19463, 19712, 2046, 46844, 8667, 8282,
      20253, 45691, 36093, 46955, 24137, 34070, 44935, 12560, 10987, 44086, 29606, 46712, 11788, 12960,
      28497, 16590, 2456, 42555, 28589, 4812, 37190, 29979, 14428, 22506, 14469, 33862, 33841, 20635,
      35652, 24072, 21519, 14265, 25723, 19590, 33618, 14438, 47676, 46008, 15156, 21052, 20716, 4505,
      13514, 7165, 43478, 17989, 9893, 6770, 39626, 16183, 28923, 47619, 40196, 21829, 7186, 41625,
      22186, 31203, 5155, 35347, 4467, 22526, 20274, 17433, 19234, 28126, 31652, 46048, 6562, 26851,
      27994, 38813, 23305, 1152, 36972, 1192, 19160, 14412, 49647, 45394, 33943, 32611, 17982, 3379,
      11696, 24348, 16200, 40271, 42916, 23619, 20170, 37313, 33527, 22932, 12989, 39140, 38843, 45777,
      17980, 45087, 46725, 45120, 43974, 47939, 43235, 24825, 41619, 272, 12138, 813, 35859, 6195,
      7628, 45627, 4084, 32657, 30084, 37299, 18160, 24311, 22193, 43218, 16851, 29552, 38740, 44127,
      5550, 16068, 3341, 31592, 28032, 8903, 29177, 40399, 46709, 28685, 39942, 15637, 10670, 42863,
      19536, 27954, 28166, 3690, 36245, 23917, 27845, 10032, 25438, 19205, 1686, 33563, 9220, 23374,
      29869, 539, 19973, 48172, 2685, 49952, 15929, 537, 12311, 43048, 44471, 1006, 25182, 36178,
      4534, 40026, 15241, 47237, 30055, 23838, 36498, 15912, 48278, 36392, 11791, 5527, 44240, 43961,
      5464, 23072, 32931, 7996, 40109, 28286, 5332, 45254, 12745, 45852, 8809, 23529, 37741, 49994,
      15822, 46598, 9124, 12841, 15826, 30016, 18251, 31713, 15974, 14113, 46129, 38969, 43845, 43467,
      45188, 9499, 30421, 2707, 35168, 47673, 32455, 31038, 44263, 28869, 38618, 1921, 25887, 46388,
      16262, 40122, 13330, 46825, 14490, 46105, 3964, 2855, 6626, 12398, 10198, 15205, 13085, 45966,
      32136, 15220, 1527, 14798, 18387, 23273, 42141, 49566, 39395, 41878, 15488, 13639, 9089, 27428,
      21474, 47765, 30033, 13617, 14943, 6239, 38601, 48180, 42981, 10601, 2764, 19383, 21060, 11448,
      44766, 7574, 23020, 48772, 7742, 49267, 46019, 12885, 47080, 22874, 7993, 28881, 20503, 15342,
      45826, 45288, 33399, 17120, 32903, 27667, 31734, 40926, 43208, 37382, 10124, 10186, 48265, 28472,
      25460, 31915, 14627, 29365, 6504, 21373, 24150, 13332, 37674, 27275, 4220, 2545, 1482, 36319,
      28425, 21585, 28461, 11922, 38807, 43710, 24463, 2950, 7510, 48054, 37343, 38111, 16155, 19367,
      24733, 49343, 27363, 34918, 22782, 49652, 26920, 3014, 8634, 33433, 33877, 17146, 22825, 29384,
      13241, 1280, 26948, 19841, 3819, 16807, 39174, 43081, 18488, 2292, 40273, 16502, 31161, 2973,
      15265, 47349, 13070, 25729, 41725, 27085, 33882, 6045, 30186, 26942, 17668, 12079, 34092, 47223,
      48151, 48163, 28941, 37955, 9363, 49179, 43995, 11469, 36033, 28620, 1838, 17902, 2341, 15865,
      8184, 9350, 33261, 45404, 8873, 30524, 22271, 3313, 19348, 46595, 34563, 44083, 32895, 15490,
      47082, 40782, 3427, 38614, 22983, 7395, 38575, 41208, 39290, 28009, 40822, 30729, 42463, 34130,
      12093, 20005, 13940, 44618, 25969, 33275, 33619, 36103, 11430, 4498, 36595, 6494, 3234, 20984,
      33883, 34023, 20097, 24814, 21208, 44436, 14349, 15519, 4774, 34641, 3874, 18699, 43824, 27333,
      6285, 41182, 8509, 12684, 37608, 7570, 46308, 25581, 35684, 10455, 7889, 42548, 6419, 35425,
      20391, 41417, 8422, 23096, 40474, 37503, 5337, 19815, 47100, 1805, 9177, 44801, 26057, 6249,
      37898, 8591, 12133, 35357, 11234, 36026, 24553, 26793, 12519, 45507, 15877, 23657, 42145, 31797,
      2127, 8051, 39031, 2572, 7934, 18244, 41636, 8151, 47448, 14844, 37166, 43334, 8146, 43638,
      5168, 7178, 4184, 25809, 39822, 12493, 10721, 36460, 34887, 40850, 48718, 32033, 28313, 23187,
      18860, 27174, 30014, 9252, 47183, 42757, 11935, 32862, 24024, 39871, 8432, 355, 14106, 48724,
      45015, 43213, 31930, 41359, 39369, 27661, 27067, 7011, 41643, 21020, 28846, 49573, 8395, 10356,
      19858, 28085, 8979, 20120, 31296, 17442, 10836, 32037, 33813, 9090, 35431, 32387, 32190, 33274,
      7898, 44364, 22935, 6126, 8459, 21897, 26125, 49305, 47803, 14445, 48843, 32366, 12013, 5786,
      16642, 23668, 30017, 18899, 7204, 39046, 45524, 37507, 30830, 39872, 41408, 36104, 14236, 6909,
      17265, 20036, 41887, 38913, 40909, 9154, 7979, 10925, 43026, 40873, 20876, 44387, 37366, 7171,
      575, 7348, 20364, 34385, 24694, 34682, 30770, 15895, 6906, 36353, 9707, 38909, 18900, 10088,
      18003, 35209, 4209, 23967, 49969, 38130, 22325, 39294, 37274, 41775, 12709, 31426, 99, 7859,
      25490, 28017, 25633, 29867, 45753, 3903, 47170, 43402, 33336, 14243, 34936, 38206, 9295, 33025,
      32516, 39866, 6867, 31690, 9193, 5658, 10470, 29017, 3787, 4688, 26304, 30991, 3966, 29138,
      20226, 14654, 45891, 38639, 48806, 13445, 9153, 22715, 18644, 34725, 29967, 19328, 43174, 35034,
      15710, 27198, 49435, 40885, 32952, 49073, 44431, 35416, 42647, 8866, 5477, 46730, 43595, 43236,
      33186, 31669, 17512, 14324, 43454, 29499, 42682, 42327, 18306, 49529, 42934, 48587, 27531, 24955,
      14483, 11339, 41225, 35469, 45390, 2256, 35177, 10710, 14020, 12430, 27577, 36891, 30252, 2948,
      18034, 33759, 25719, 31782, 25400, 32002, 32693, 33107, 35027, 8462, 44679, 7924, 40868, 26907,
      16627, 41525, 49637, 32912, 22479, 7872, 43131, 30076, 10594, 42801, 3989, 43567, 43419, 46302,
      29920, 10887, 29830, 49845, 26947, 13772, 48144, 5416, 19292, 19678, 25392, 47252, 14422, 7495,
      7022, 12221, 7103, 22376, 3496, 15406, 18833, 14882, 34511, 38145, 32493, 17191, 5547, 30774,
      27960, 25177, 32630, 5514, 39656, 1873, 3637, 44696, 28935, 22157, 33809, 28263, 43347, 33248,
      21619, 37409, 5317, 20179, 29133, 18920, 38255, 4716, 23607, 5472, 14615, 41686, 7917, 41497,
      25749, 35339, 10174, 24830, 37133, 42629, 36985, 270, 33664, 23948, 27058, 44656, 21096, 39912,
      24330, 32192, 49041, 21171, 6455, 13402, 1923, 11510, 25870, 10642, 45173, 32685, 33727, 4109,
      14723, 27576, 32637, 8213, 45228, 28008, 36908, 47394, 8292, 30485, 29436, 6436, 43214, 44751,
      4121, 46863, 14647, 7075, 2033, 30717, 685, 4375, 47231, 25206, 4002, 27456, 12361, 24375,
      49934, 19470, 11800, 9517, 7136, 36201, 26422, 6248, 47306, 6744, 7850, 18759, 41431, 4802,
      3517, 44109, 43438, 29026, 29260, 10160, 2361, 19864, 16660, 3478, 17720, 15503, 20402, 28301,
      5659, 2201, 44296, 26077, 10314, 12346, 32153, 20520, 18039, 20859, 269, 49590, 23738, 35227,
      177, 33091, 23410, 26214, 32415, 32057, 35259, 48869, 46570, 21178, 31959, 24749, 20911, 4842,
      31696, 48534, 32638, 14072, 5135, 7768, 38013, 22162, 34712, 32238, 42293, 22169, 22786, 912,
      40791, 10061, 20787, 19582, 32231, 32084, 28162, 15336, 6876, 41064, 12585, 49261, 622, 40654,
      27901, 49245, 49144, 8878, 2287, 45975, 22087, 18470, 9703, 34030, 16175, 8514, 12584, 25448,
      28434, 25054, 40148, 33511, 223, 23755, 41382, 35378, 30277, 7553, 2208, 48739, 21149, 10425,
      31761, 18523, 18217, 12374, 45661, 41219, 14789, 10990, 34302, 49582, 29041, 45444, 15319, 35502,
      6992, 18772, 8532, 5556, 37046, 23842, 48511, 3752, 8094, 28686, 36644, 48162, 2190, 30861,
      48415, 31256, 47969, 46337, 8928, 33063, 15741, 39400, 28762, 22527, 45722, 19946, 18788, 5716,
      30446, 38940, 6578, 9383, 36464, 33267, 49854, 36614, 41517, 17678, 12898, 42779, 43983, 32797,
      31901, 8852, 33476, 48987, 19268, 878, 36765, 44267, 7767, 37625, 49098, 42896, 17114, 39151,
      36750, 10231, 35493, 359, 8136, 35913, 3132, 39003, 40242, 10379, 15947, 28611, 43305, 11455,
      31404, 48065, 31322, 34901, 37856, 27642, 35286, 14652, 27552, 43230, 18776, 43900, 1328, 35624,
      10771, 30057, 40212, 21497, 19189, 6951, 35703, 35068, 2796, 30787, 16536, 13549, 18766, 7196,
      11681, 5706, 36140, 41489, 1356, 42204, 40220, 43445, 20111, 411, 44674, 16387, 25399, 40786,
      34747, 286, 28932, 31858, 4161, 34430, 36013, 23423, 31314, 44731, 41784, 24391, 35211, 26494,
      39794, 27948, 19912, 24654, 33652, 38100, 32198, 39833, 28142, 47423, 48453, 4258, 34925, 49494,
      37204, 35275, 18560, 5844, 6300, 31772, 8096, 31539, 41170, 24428, 12509, 10182, 44933, 4584,
      24025, 42806, 24896, 32053, 10084, 13544, 18438, 37179, 17556, 1261, 19170, 36313, 9085, 30670,
      24358, 213, 21406, 34455, 4174, 6341, 5414, 15097, 34972, 49868, 1117, 31375, 32620, 10696,
      28108, 30054, 10569, 19000, 4525, 24505, 514, 16552, 46618, 2584, 27179, 34957, 2425, 22528,
      9875, 32709, 21011, 30538, 34239, 32105, 14945, 41624, 25240, 5634, 28678, 29314, 46550, 19716,
      45024, 44318, 34180, 40074, 5132, 38114, 40530, 42831, 15622, 19099, 32820, 6422, 8511, 46467,
      47898, 48943, 16699, 45991, 2918, 27465, 15268, 5554, 13159, 22701, 2533, 16401, 6460, 42046,
      37509, 37857, 28705, 9477, 41087, 24923, 45906, 48401, 22397, 12127, 44441, 4590, 13078, 33285,
      10879, 10468, 42745, 22517, 49227, 13405, 11816, 36508, 12799, 16681, 8487, 2497, 16634, 38955,
      8518, 3103, 23961, 12256, 34446, 900, 8813, 34989, 15547, 16394, 18207, 48430, 33632, 21186,
      6292, 29584, 37659, 24744, 14264, 19957, 7885, 1650, 35178, 140, 23598, 30537, 25276, 44502,
      23366, 13743, 37352, 39480, 26757, 18340, 45590, 16548, 21099, 29464, 27113, 45660, 21428, 22712,
      43070, 37037, 20844, 15260, 5588, 13554, 7047, 47659, 36657, 30978, 33463, 13388, 43839, 29803,
      27439, 40427, 15672, 30044, 16505, 4577, 16906, 1148, 19931, 3459, 16837, 15180, 18760, 26729,
      14280, 11318, 22365, 14927, 16104, 22067, 24684, 12116, 10517, 40856, 34226, 42547, 17307, 25982,
      41228, 8138, 2937, 14120, 3559, 3528, 18541, 15988, 28462, 10982, 39128, 20481, 46155, 24431,
      46441, 18859, 45426, 15454, 27504, 6258, 15705, 23858, 520, 45739, 38738, 27827, 31621, 47764,
      18763, 31812, 49132, 30198, 30007, 14353, 45586, 17501, 48690, 33125, 45385, 49438, 4749, 11857,
      2878, 40610, 348, 4847, 3469, 46930, 17590, 3706, 37756, 28319, 16598, 3634, 46116, 29319,
      14420, 1664, 14186, 13836, 37185, 2842, 18507, 43027, 1450, 25698, 34452, 17742, 28090, 2242,
      30686, 35545, 36008, 4628, 4343, 25810, 15137, 19500, 48166, 41462, 5807, 21860, 7137, 10290,
      34146, 24875, 33646, 13693, 20898, 43063, 513, 24732, 1101, 23878, 25834, 29738, 10795, 43853,
      15713, 38236, 18568, 13169, 26174, 22456, 36592, 48412, 36767, 5390, 39935, 47644, 30150, 45230,
      12503, 12535, 40690, 26684, 12596, 42695, 22974, 26960, 4282, 8542, 35888, 24436, 36728, 3984,
      7185, 45997, 31983, 36968, 25327, 14807, 39064, 49900, 401, 43846, 42430, 13638, 37702, 47087,
      12480, 32843, 14149, 19774, 30247, 33169, 9498, 25740, 22798, 38907, 19069, 8710, 24291, 37738,
      41200, 44177, 43203, 28897, 30396, 7871, 18005, 32023, 7828, 36102, 23288, 26009, 19188, 11176,
      8846, 36640, 8025, 25718, 27131, 3144, 30345, 32261, 48998, 12904, 45403, 18884, 3740, 2130,
      49002, 6983, 48876, 27786, 33232, 8771, 17339, 36851, 40458, 46833, 30002, 39413, 37486, 38974,
      42789, 37910, 24420, 40511, 12494, 19398, 34434, 31237, 43193, 40923, 9962, 41893, 43799, 16069,
      39471, 38268, 1836, 14983, 8175, 38470, 5047, 38119, 13593, 30322, 1604, 15676, 12156, 36610,
      19305, 1475, 25951, 1145, 15894, 22035, 10906, 1235, 44453, 4907, 9660, 4545, 5006, 6694,
      18725, 30680, 18202, 35640, 40453, 35049, 21361, 25086, 33013, 37072, 679, 40999, 11177, 47652,
      4848, 31048, 29818, 18305, 20699, 39090, 18851, 21394, 24167, 3268, 40729, 2873, 38166, 10884,
      47646, 25930, 44798, 36512, 3135, 16056, 11490, 101, 26831, 22806, 38625, 19196, 12152, 63,
      30249, 2604, 33810, 9787, 49778, 28770, 13837, 24771, 5224, 22086, 49447, 38668, 36363, 4391,
      21623, 5138, 11754, 27704, 3012, 29153, 7575, 18134, 39027, 41501, 42380, 7107, 27013, 40742,
      23079, 45996, 9302, 30176, 30753, 28130, 46264, 23844, 9333, 23260, 40129, 34309, 33127, 44904,
      39399, 1569, 39429, 1715, 18997, 38062, 40765, 22591, 44632, 13096, 32096, 29219, 572, 39371,
      38841, 31409, 30943, 18267, 11389, 795, 49293, 2157, 5673, 37468, 30305, 33059, 13302, 20535,
      25125, 34358, 5417, 6445, 3417, 41889, 35828, 21479, 31925, 43219, 16486, 17355, 29275, 39370,
      12545, 7051, 28701, 4953, 44428, 49296, 48942, 33500, 39722, 4612, 48018, 34553, 49228, 43407,
      38606, 49089, 46665, 22802, 1220, 9198, 28578, 48369, 39714, 21790, 28784, 6011, 7050, 19509,
      37613, 37907, 2481, 49292, 24039, 31865, 36085, 11507, 142, 1056, 46294, 23737, 17747, 12035,
      3179, 49809, 25505, 26556, 4101, 48167, 44281, 48203, 21433, 25029, 43052, 37526, 45356, 2090,
      15314, 32971, 46808, 18167, 17181, 3901, 23779, 38479, 26302, 44792, 39768, 25166, 29031, 49563,
      613, 26247, 36678, 7534, 35638, 14928, 14406, 46444, 28421, 18525, 17949, 13951, 4363, 23899,
      40955, 22938, 14920, 46886, 45814, 14838, 13376, 20926, 49284, 19767, 41559, 15883, 26840, 22893,
      18819, 14841, 34859, 13202, 14177, 33699, 8579, 22220, 22194, 24902, 718, 10376, 45286, 27533,
      13968, 36938, 27111, 11533, 36722, 12343, 28648, 22000, 23479, 32030, 6712, 14775, 36706, 14377,
      44653, 25856, 4398, 4659, 32545, 5934, 5507, 31228, 7823, 42561, 24964, 35175, 1598, 29035,
      33752, 27953, 8779, 2657, 30260, 17909, 37446, 18516, 26664, 10042, 15841, 32589, 10087, 11743,
      48115, 37576, 13640, 8751, 4051, 33973, 18190, 10716, 9109, 25626, 9870, 15579, 42577, 19951,
      1890, 41047, 39947, 20801, 17845, 41278, 34946, 22130, 28641, 45715, 18181, 18602, 19301, 40547,
      42539, 37323, 25545, 8332, 42251, 2444, 16229, 4794, 11717, 18774, 13028, 29025, 34483, 47967,
      21697, 39466, 42162, 2319, 20152, 37815, 49004, 42692, 13525, 18742, 705, 30986, 36652, 41028,
      12408, 7484, 31972, 35359, 39024, 22904, 15862, 20899, 17000, 12795, 20988, 13574, 43745, 18356,
      1523, 33564, 7757, 22461, 16118, 3778, 15289, 1547, 43018, 41029, 18334, 28187, 43490, 3246,
      43122, 23801, 18009, 48559, 48625, 30452, 13320, 45998, 26053, 7603, 2798, 36999, 32855, 27334,
      46018, 6124, 16818, 880, 20336, 20745, 44385, 13532, 49939, 47332, 8856, 16872, 48199, 33732,
      38425, 2805, 8356, 17021, 22577, 5425, 31620, 8008, 8453, 10579, 39237, 21890, 15967, 33774,
      17859, 24724, 30443, 1612, 28392, 18985, 1706, 47568, 41595, 44249, 28623, 11714, 30236, 46335,
      9970, 33225, 31149, 33602, 23850, 22541, 35475, 17766, 12284, 11602, 35582, 7221, 26706, 29270,
      8604, 24610, 18628, 20166, 18357, 41787, 39541, 32032, 12962, 24516, 20197, 25220, 48744, 28492,
      13564, 36936, 33074, 39598, 28063, 26860, 8000, 22594, 26377, 19372, 10493, 42887, 49696, 46440,
      31542, 6883, 18789, 8371, 18139, 36712, 44940, 14641, 576, 37235, 2924, 46929, 27116, 28692,
      2411, 31380, 34935, 49116, 44743, 25576, 2947, 22261, 5601, 29331, 44325, 35066, 47860, 5161,
      27242, 24871, 11040, 11289, 28418, 33738, 5599, 18918, 44531, 45907, 14275, 42427, 3183, 43206,
      28215, 12438, 4164, 22531, 40238, 17944, 10535, 32831, 45422, 29726, 4200, 15992, 25288, 47850,
      11068, 8228, 10274, 25361, 41484, 42231, 47455, 4796, 3757, 8815, 12029, 38612, 47321, 47184,
      8742, 7420, 33152, 44194, 18025, 31151, 5781, 21276, 43158, 34814, 26566, 4762, 47365, 22944,
      34274, 8283, 35401, 31080, 18571, 37206, 47663, 33213, 19786, 27787, 17828, 12844, 13771, 43156,
      33739, 2070, 40201, 15783, 22575, 23217, 43080, 11609, 30460, 11387, 22543, 18441, 9274, 1691,
      7921, 9534, 38891, 1693, 28471, 995, 43458, 14912, 39686, 34398, 47529, 12369, 11013, 32102,
      36627, 9573, 18559, 49165, 22548, 45918, 37469, 24458, 17217, 33135, 21465, 23203, 5584, 13680,
      22845, 32597, 6831, 21237, 20494, 17892, 9816, 30174, 20188, 23309, 20228, 49890, 45805, 31424,
      14930, 3398, 23256, 27137, 31156, 34556, 12972, 4080, 21016, 16858, 33567, 16186, 7007, 629,
      38345, 14344, 38005, 290, 49999, 21764, 28040, 4211, 19806, 21517, 1173, 27389, 36016, 28303,
      10334, 27361, 8189, 31745, 17088, 43239, 24897, 11779, 28829, 17119, 41412, 48631, 41367, 49737,
      38956, 3678, 3897, 44941, 39189, 29526, 28596, 26945, 24919, 9222, 31694, 4444, 37793, 48052,
      39617, 26285, 40253, 32410, 40428, 24523, 4778, 30568, 31473, 9423, 22112, 11175, 31888, 2677,
      22790, 23025, 38557, 25335, 21915, 23805, 12308, 3745, 34838, 41365, 31435, 18609, 24828, 45434,
      21722, 14108, 14221, 9009, 8227, 20935, 23319, 46810, 30759, 26921, 49588, 25355, 6606, 22714,
      21877, 14040, 39800, 33806, 45072, 31614, 14634, 45074, 40361, 40958, 39418, 17025, 49919, 25796,
      45899, 4713, 3387, 38033, 8157, 27903, 31104, 33934, 29876, 37951, 43688, 18751, 47665, 15777,
      13792, 44598, 18515, 32775, 29549, 33631, 39614, 42336, 8757, 13896, 2538, 2605, 14839, 46666,
      36950, 14197, 6223, 19003, 47119, 30495, 47732, 28052, 14133, 30850, 45563, 7199, 36237, 44448,
      43507, 16534, 36888, 45174, 25971, 41651, 43097, 42643, 36864, 11585, 5379, 21501, 39020, 43426,
      9365, 41720, 20772, 6489, 36125, 41642, 28335, 1471, 31382, 15092, 36804, 4673, 12280, 485,
      7791, 12740, 32973, 11736, 6068, 3977, 20680, 478, 1266, 42117, 13185, 19406, 42010, 14787,
      6241, 42144, 30656, 8010, 29857, 3949, 32662, 44067, 18282, 44741, 35838, 21319, 23414, 28222,
      27560, 1259, 45780, 25141, 30370, 32829, 4344, 23323, 26477, 18887, 22950, 1804, 1844, 10980,
      47047, 19467, 47017, 23579, 38966, 26632, 38768, 26530, 24663, 9995, 7913, 26952, 6332, 14929,
      8589, 48709, 7412, 41391, 39618, 25508, 5671, 34856, 37723, 30366, 28651, 451, 483, 11931,
      20856, 16278, 20994, 34301, 39660, 41492, 23754, 36562, 487, 26687, 39318, 39209, 38678, 31936,
      45265, 30400, 5444, 1042, 43101, 49679, 36782, 6619, 44166, 14093, 19335, 31790, 14613, 24342,
      47038, 24132, 47813, 19594, 17574, 43546, 21272, 47993, 563, 42155, 20250, 23543, 37998, 25415,
      33229, 3166, 29683, 48965, 15395, 10623, 11414, 13724, 16735, 13974, 9489, 44670, 27972, 17984,
      36063, 35761, 48061, 6713, 14890, 30756, 3475, 46721, 6280, 5953, 28089, 6101, 20163, 13164,
      11973, 44644, 31806, 1380, 47533, 18665, 43422, 6087, 48390, 31637, 11792, 29691, 43415, 48958,
      36794, 44400, 37807, 41037, 27010, 10039, 21533, 40043, 22975, 2394, 21716, 40169, 607, 5420,
      20353, 44903, 10898, 46876, 39877, 17060, 30196, 47396, 4195, 20639, 29578, 29569, 10809, 33506,
      42911, 29326, 7429, 12106, 34880, 35938, 11358, 45289, 47410, 14869, 13583, 49524, 45158, 34260,
      34897, 19958, 12014, 32645, 48395, 17139, 10726, 22690, 46505, 25031, 4718, 7700, 36040, 1309,
      7912, 2397, 14783, 3050, 8715, 40331, 37234, 506, 42792, 10788, 2136, 46572, 42183, 19905,
      36241, 9098, 39431, 24581, 4755, 43561, 11379, 4365, 20136, 15576, 44016, 49460, 31264, 27342,
      10513, 34554, 42853, 15300, 10509, 21198, 41069, 24713, 6627, 17213, 3710, 16902, 40587, 14742,
      38446, 22272, 29730, 44097, 31893, 44650, 23063, 34219, 40400, 34135, 8281, 41696, 30323, 21693,
      38586, 39609, 12978, 36377, 18468, 24321, 1399, 38477, 6616, 40409, 9075, 6709, 9307, 33022,
      43683, 7060, 2430, 15348, 13756, 30571, 39167, 44826, 44616, 44968, 45541, 37513, 13113, 41466,
      4440, 37502, 33695, 26159, 17975, 42314, 28198, 10201, 18578, 24246, 47251, 12694, 23313, 16884,
      39022, 47872, 38339, 29298, 38312, 22370, 21525, 7819, 39985, 26229, 33007, 22803, 38753, 3266,
      33020, 16827, 22864, 35325, 8505, 18966, 46908, 47686, 47000, 43154, 37572, 49565, 47144, 27427,
      48102, 37373, 38860, 26438, 48903, 44797, 39096, 26480, 2018, 49074, 7042, 35683, 9362, 44451,
      19917, 16410, 13088, 8233, 32960, 14583, 45150, 30093, 27422, 11229, 33278, 16784, 11718, 9900,
      12244, 13815, 9513, 13736, 41490, 21633, 16716, 26448, 44392, 35376, 38120, 33344, 9642, 43718,
      19102, 13953, 15370, 25004, 24947, 15902, 24541, 27999, 37397, 13961, 3498, 24839, 22621, 17292,
      38630, 17440, 15788, 41411, 32417, 6377, 17236, 4490, 29562, 3978, 26203, 32454, 9938, 34804,
      10786, 28168, 35849, 43603, 21985, 24590, 35237, 7113, 9809, 25925, 37831, 30056, 49238, 29407,
      48009, 11216, 3911, 2803, 42819, 20838, 28782, 29151, 14659, 34797, 45613, 18904, 39642, 45411,
      41943, 47747, 2120, 34669, 35528, 4024, 43701, 42452, 12762, 45025, 13916, 38686, 6286, 39823,
      34021, 20819, 49729, 13354, 4871, 17431, 26813, 26814, 17847, 21085, 18973, 41189, 7690, 20871,
      20068, 31003, 13594, 49234, 39295, 18712, 47090, 2173, 19993, 19411, 46003, 22382, 6257, 10070,
      46072, 37867, 11793, 44111, 37896, 18873, 9250, 12022, 32772, 2819, 33532, 4105, 18262, 45677,
      29199, 14876, 13735, 13390, 48972, 23884, 1302, 49717, 4964, 16736, 6637, 14360, 39820, 40749,
      18531, 46157, 2006, 8603, 29884, 32029, 43849, 33497, 35280, 46306, 48344, 26893, 36362, 2447,
      19687, 5871, 39604, 12113, 3995, 1198, 3473, 7695, 9138, 16894, 583, 26007, 4808, 28409,
      34760, 17660, 31988, 47680, 30058, 32143, 15491, 49456, 17414, 24751, 49992, 25016, 872, 46374,
      42462, 39042, 35390, 11263, 13741, 26741, 19137, 6453, 9644, 6208, 38149, 3213, 29018, 49397,
      36215, 4993, 5736, 45423, 37649, 34067, 40224, 41230, 24953, 20647, 48207, 36623, 36651, 49273,
      40777, 30560, 10429, 43542, 1874, 20894, 14416, 8653, 38984, 7644, 36371, 36849, 36819, 650,
      32437, 39708, 27298, 7740, 48661, 12562, 43663, 38858, 38252, 26021, 25990, 36166, 28550, 33681,
      41432, 14480, 45878, 7000, 13589, 39788, 17055, 22644, 27993, 30643, 257, 25696, 3045, 11994,
      22590, 38167, 45197, 38517, 33689, 22630, 1939, 4236, 30626, 23336, 45602, 2468, 29108, 38039,
      6531, 49916, 2184, 4223, 41545, 43881, 47786, 14315, 25999, 17067, 46746, 31864, 19407, 46290,
      7472, 26075, 15476, 38521, 38317, 5094, 31292, 13915, 15986, 45958, 14307, 31729, 10631, 3620,
      12706, 42899, 24702, 24571, 33474, 41934, 43944, 18636, 32301, 522, 37165, 19628, 19640, 43095,
      9946, 26713, 23577, 43634, 23789, 24652, 32171, 13199, 10305, 47036, 49365, 41374, 48139, 9139,
      49185, 16815, 43989, 47468, 4037, 14099, 9775, 45904, 21093, 30347, 31948, 35213, 41407, 17195,
      28358, 16362, 22438, 28171, 47657, 16602, 13244, 48444, 18084, 37986, 1011, 3026, 34167, 48268,
      19082, 38816, 35348, 49685, 42623, 13763, 16067, 4065, 4991, 39716, 28847, 28033, 41793, 12095,
      37364, 33237, 20242, 17340, 9626, 22247, 3157, 11295, 49846, 43537, 11132, 30667, 44708, 48229,
      15126, 20515, 46926, 24739, 1834, 33878, 34526, 20386, 14132, 11828, 32354, 7271, 30458, 6438,
      35741, 22565, 40691, 28252, 15117, 23748, 16908, 24301, 11473, 38833, 46200, 30778, 34871, 36391,
      23875, 3509, 23370, 41142, 22498, 18401, 24872, 5096, 24477, 14666, 30152, 12785, 26861, 19794,
      37088, 35463, 6672, 28332, 8197, 44572, 32064, 33794, 49316, 1290, 49231, 2688, 45163, 28422,
      45698, 25214, 24138, 11291, 36909, 25516, 36441, 46686, 46371, 26877, 30488, 29060, 9853, 44256,
      4186, 7046, 19098, 45742, 8174, 4345, 15468, 18373, 28157, 28285, 42061, 9379, 14176, 22833,
      25129, 13634, 35392, 6775, 3518, 44424, 32038, 40407, 42132, 40234, 20414, 25075, 27034, 48917,
      46498, 46934, 4547, 3677, 33381, 46208, 39638, 16010, 41818, 37758, 14075, 29792, 3463, 11326,
      27492, 17655, 14853, 12549, 34950, 13173, 34291, 37980, 27248, 8121, 19108, 18654, 45804, 47595,
      13430, 1123, 41368, 2904, 13086, 42028, 37753, 31081, 6260, 33325, 23249, 28528, 11325, 4888,
      10203, 29817, 25610, 36620, 14386, 34209, 8516, 33255, 10322, 40861, 10661, 3864, 29786, 48194,
      24199, 9210, 8127, 3079, 27352, 48097, 25558, 49650, 11506, 42457, 11581, 45117, 24971, 40667,
      10722, 35381, 44010, 6830, 12281, 5334, 39297, 43555, 11928, 37829, 37675, 8534, 2214, 32718,
      46933, 39557, 48466, 21375, 19606, 10705, 2249, 29248, 38780, 42701, 6836, 8185, 27309, 701,
      10914, 23937, 15755, 35239, 36553, 11629, 13823, 31187, 49552, 11693, 22718, 16833, 28813, 6534,
      14531, 28479, 9504, 4978, 100, 36802, 47022, 28619, 43876, 6151, 5403, 11199, 7726, 41554,
      19132, 3440, 19638, 11316, 49206, 49256, 34377, 804, 43272, 30715, 49904, 19992, 4624, 27416,
      44740, 36590, 11679, 18634, 38387, 38226, 34741, 1966, 5621, 39207, 11727, 27203, 44821, 17428,
      34496, 10868, 36783, 40463, 32686, 3062, 23356, 18043, 34942, 33195, 6673, 13387, 1322, 17947,
      789, 32448, 44159, 3187, 30199, 31535, 16461, 41102, 12228, 27458, 14171, 4294, 3865, 21559,
      2061, 47596, 26833, 1964, 5402, 30466, 29591, 4446, 16664, 9156, 20341, 15875, 26223, 35446,
      1690, 26590, 8862, 27403, 32431, 10235, 44955, 47505, 2641, 46884, 11631, 49033, 2063, 16550,
      16384, 31028, 9071, 22980, 46903, 26779, 9973, 38338, 34677, 8999, 40735, 12837, 12405, 7505,
      17953, 16637, 14805, 24973, 30858, 49120, 12255, 156, 44342, 10443, 13935, 14383, 35424, 41138,
      48047, 30159, 40215, 23983, 36554, 7929, 2478, 6639, 6064, 43003, 39315, 1393, 18611, 2959,
      10154, 23114, 39235, 28043, 47742, 24508, 21828, 41130, 49600, 43471, 8887, 26496, 32039, 4961,
      37617, 14046, 29941, 25383, 31895, 21620, 10266, 31855, 4902, 41857, 14053, 3355, 29201, 10767,
      1625, 34892, 49265, 36816, 25021, 23318, 31938, 35553, 12034, 14730, 28510, 42508, 38200, 12456,
      37872, 47706, 12548, 27755, 28581, 46551, 34183, 31507, 49806, 41464, 5429, 21765, 23689, 42991,
      46369, 30073, 6842, 35608, 18723, 38846, 21340, 34133, 9676, 32758, 6815, 14903, 3015, 44893,
      10155, 21278, 43682, 31033, 2241, 39217, 47399, 15326, 34671, 47941, 22234, 36252, 32253, 33459,
      14151, 43181, 4596, 1038, 4206, 25299, 34091, 36689, 46045, 18078, 3562, 24629, 27171, 4999,
      10149, 27783, 28983, 6795, 39615, 45455, 46219, 38050, 47985, 14867, 16787, 38839, 14675, 47383,
      4736, 34061, 14660, 30695, 43398, 21914, 17505, 34605, 9185, 34056, 20952, 15009, 34362, 40903,
      19777, 41504, 38716, 46800, 29357, 23829, 39274, 11787, 46430, 7013, 34661, 39687, 43850, 40883,
      38661, 34673, 4618, 15001, 8011, 26281, 905, 30397, 46063, 19161, 37708, 44358, 41610, 45606,
      20797, 4167, 40949, 36504, 45614, 36906, 25501, 7997, 34043, 3322, 26609, 27816, 43252, 44174,
      45393, 3741, 30402, 34481, 26070, 32944, 247, 11188, 25330, 5422, 10004, 25690, 32865, 42436,
      41342, 27099, 44003, 28177, 9081, 26721, 39738, 1716, 47132, 7430, 26965, 31173, 9181, 45974,
      49465, 36477, 8885, 10023, 30530, 11112, 38428, 38552, 28373, 32682, 36926, 25655, 27714, 49628,
      22155, 26864, 37653, 24156, 42678, 49268, 6557, 7068, 30754, 3172, 34668, 11361, 31425, 11271,
      10112, 2479, 3769, 42507, 7486, 8911, 45344, 49018, 5979, 23162, 44462, 30672, 26659, 4706,
      21491, 34242, 28629, 12657, 17538, 33884, 28068, 14970, 32700, 35770, 39551, 35845, 47023, 49394,
      40250, 10856, 28862, 48271, 29028, 318, 38132, 13952, 26873, 13348, 8072, 28318, 2508, 24388,
      5496, 46223, 46846, 39, 45883, 44576, 1371, 15564, 36822, 24635, 288, 26591, 3492, 10185,
      17405, 47634, 832, 38560, 20232, 21370, 43890, 20394, 28972, 25048, 34250, 31325, 42621, 39796,
      46407, 44461, 41723, 49328, 16975, 28568, 26034, 21884, 4484, 35971, 19616, 22939, 47085, 47465,
      47228, 21664, 36317, 5699, 15337, 41072, 20533, 17296, 4840, 23348, 7129, 26466, 17460, 34795,
      20100, 40300, 34367, 46849, 1035, 40349, 8, 24098, 30050, 39414, 40632, 8762, 29770, 941,
      34997, 15661, 13692, 43330, 35800, 39337, 43677, 37101, 48669, 3522, 9799, 42769, 45723, 7261,
      10288, 21440, 5044, 13369, 4742, 40099, 23269, 17035, 7992, 13950, 17931, 24186, 715, 15575,
      5383, 8553, 6790, 9607, 20040, 48749, 17315, 18898, 14544, 49111, 40204, 40620, 21928, 25132,
      33188, 8255, 32915, 19651, 10038, 45283, 16236, 40527, 34049, 9393, 35723, 13319, 22122, 21938,
      26560, 15920, 9251, 39645, 40189, 32287, 31077, 7467, 49300, 27652, 1857, 8323, 13766, 18879,
      34637, 19862, 36117, 20459, 12749, 4987, 45971, 7520, 39417, 46416, 14672, 1420, 43591, 29924,
      22524, 42774, 30757, 19519, 18505, 46655, 5431, 32055, 3319, 37948, 37391, 25637, 48796, 24989,
      19695, 36516, 40023, 46872, 27899, 44689, 35389, 25136, 47353, 22404, 32578, 40852, 36548, 49109,
      26043, 4424, 15560, 16583, 4560, 29161, 32501, 8236, 1352, 17822, 26136, 46834, 37695, 30590,
      20769, 25033, 15238, 25687, 12105, 28934, 43973, 34476, 15609, 30688, 2218, 23683, 8805, 25720,
      4228, 37459, 1945, 33906, 568, 25384, 47672, 17741, 42490, 30613, 39225, 40724, 26048, 44910,
      17798, 48727, 12166, 17056, 40255, 38480, 8992, 32461, 27057, 8336, 4022, 31364, 42072, 21530,
      38750, 1050, 37406, 26482, 24010, 14684, 16942, 24145, 14813, 17614, 37283, 13555, 22830, 19448,
      544, 16443, 42198, 1887, 36406, 10010, 32422, 34356, 28209, 32241, 49795, 41150, 9502, 30744,
      36563, 9655, 13135, 2477, 36967, 49302, 8338, 26198, 4821, 39123, 9080, 13930, 35146, 37140,
      35711, 19801, 48839, 33780, 4115, 6051, 40515, 17367, 12142, 49700, 32186, 34971, 34126, 18050,
      48762, 8086, 26369, 21000, 13710, 12206, 26959, 32074, 25096, 46282, 29302, 38720, 7255, 820,
      40500, 46349, 48008, 32990, 10408, 27483, 5210, 45970, 17751, 29438, 27875, 25267, 42442, 12077,
      27620, 45179, 13158, 22166, 9507, 46919, 30126, 47286, 25320, 16587, 19297, 39842, 5251, 23739,
      44627, 40991, 19172, 17539, 5720, 49504, 10373, 31612, 23113, 10328, 25539, 4113, 24857, 41355,
      48323, 46942, 8218, 45235, 28736, 284, 5093, 36695, 30463, 48077, 39378, 35114, 46716, 40783,
      5917, 19318, 16046, 31530, 22900, 28116, 21571, 29184, 30240, 23433, 19425, 13789, 22732, 6498,
      28181, 28002, 10645, 48592, 27513, 32081, 25422, 17042, 32519, 656, 25067, 36692, 27231, 33666,
      20563, 7085, 3413, 5456, 13482, 46528, 33876, 38953, 32641, 3532, 25153, 12195, 15306, 33076,
      43387, 14810, 49978, 32893, 29626, 34649, 30648, 12553, 803, 13485, 2784, 44410, 44479, 26892,
      29107, 23431, 230, 202, 43413, 16096, 2334, 13607, 17873, 36642, 24452, 45307, 38887, 22767,
      9214, 27164, 9558, 40322, 7417, 43261, 18749, 33483, 46610, 37026, 45034, 44901, 15475, 14752,
      24444, 38692, 39152, 43564, 20640, 34331, 29380, 19024, 14897, 15461, 32306, 22585, 367, 32239,
      42592, 45354, 13020, 48508, 8319, 7554, 11623, 12754, 18186, 29522, 35558, 42910, 35288, 456,
      42270, 28271, 40265, 39582, 46500, 18189, 16210, 26195, 31724, 33796, 16414, 34295, 2137, 13137,
      8306, 3162, 33958, 23677, 15834, 13339, 28345, 18085, 17389, 2700, 27212, 39428, 49190, 42611,
      9112, 3695, 49884, 33693, 4171, 4687, 26416, 12590, 18770, 299, 29555, 7587, 18355, 31580,
      7124, 30603, 47506, 29440, 1840, 20162, 10602, 25897, 26232, 1718, 24921, 36791, 10739, 964,
      45213, 13913, 22129, 17869, 31626, 7839, 47501, 30940, 1581, 41673, 36872, 10953, 40481, 2566,
      33819, 22586, 14272, 20303, 31605, 2183, 10319, 46812, 36428, 9570, 49291, 47179, 32487, 47613,
      26079, 23530, 8029, 42325, 36422, 46358, 35018, 21487, 45031, 39998, 6635, 42320, 15770, 27826,
      42177, 41968, 47243, 44105, 7488, 13875, 753, 21997, 10833, 10205, 21306, 43517, 26552, 34058,
      45352, 4125, 2788, 21451, 41053, 41820, 39751, 48892, 3371, 40452, 39478, 31356, 23268, 18204,
      26153, 15351, 36711, 39271, 34956, 21929, 47031, 34238, 43577, 25211, 18855, 14415, 43639, 9646,
      33239, 23363, 3544, 39589, 3347, 28294, 11388, 1714, 29994, 42482, 35635, 9933, 26414, 44145,
      40979, 49356, 42255, 2583, 36151, 12951, 37107, 18113, 23300, 2957, 3971, 24438, 2559, 38543,
      6180, 20826, 25062, 39726, 38755, 2684, 30406, 31617, 4935, 26157, 47291, 12410, 38371, 27149,
      13218, 45337, 32068, 9456, 26731, 47351, 42813, 27320, 12764, 9509, 39240, 38749, 48336, 5284,
      14638, 42594, 47820, 33552, 48696, 3334, 2060, 26912, 7457, 23662, 15276, 15528, 43232, 2171,
      40444, 46380, 40055, 37788, 26606, 30964, 42515, 12891, 5521, 16317, 27683, 38732, 28337, 5973,
      22623, 28727, 45547, 42878, 42722, 14702, 34988, 22887, 25450, 23962, 25944, 28427, 30583, 23975,
      49589, 30046, 46288, 17125, 21310, 16487, 8650, 35273, 46140, 35584, 24725, 32139, 6745, 13271,
      7558, 41326, 18963, 39592, 32036, 26238, 33372, 12268, 17607, 37589, 24781, 1642, 26857, 3686,
      291, 31412, 2085, 46390, 29296, 43605, 11747, 32612, 47515, 36119, 32361, 32644, 30065, 1765,
      45059, 29096, 48660, 26577, 36837, 20687, 13292, 22711, 27362, 29229, 49112, 22262, 689, 36904,
      49787, 19401, 25002, 5894, 40276, 36101, 24759, 20488, 7926, 48770, 49410, 41338, 46654, 2797,
      12236, 23609, 21466, 31956, 44239, 33581, 23277, 32346, 4885, 1216, 18933, 11773, 46594, 37210,
      23724, 5605, 2089, 4739, 4286, 22584, 35809, 16088, 47504, 47267, 46984, 37176, 12139, 30139,
      4438, 7202, 39319, 46093, 21086, 1827, 5453, 21878, 29000, 18408, 28504, 1870, 49439, 41237,
      47811, 34286, 19960, 48474, 14317, 11524, 12209, 41617, 24328, 5927, 37950, 45149, 26904, 188,
      14893, 38577, 31399, 45817, 16554, 12273, 34055, 28575, 30585, 33375, 27406, 12232, 48867, 43359,
      34153, 20846, 19126, 25391, 31847, 35939, 5648, 9514, 48240, 30004, 14257, 36294, 12583, 42889,
      14696, 17365, 30664, 19039, 40405, 28637, 26031, 44684, 45915, 38432, 9053, 20362, 13215, 31484,
      41378, 24840, 714, 31519, 31167, 23582, 45597, 9811, 23124, 26696, 41152, 12530, 26949, 33058,
      27986, 38060, 18970, 34670, 27162, 5164, 2221, 6538, 48633, 32159, 21769, 45761, 32571, 40694,
      48831, 2687, 8704, 13592, 36867, 2178, 48693, 20476, 17083, 37735, 31393, 48880, 35121, 21936,
      12825, 31534, 18952, 13404, 17526, 29597, 11891, 43770, 2976, 12672, 49123, 19417, 27418, 14843,
      49149, 5589, 45961, 47705, 6755, 6632, 10933, 12842, 22653, 16326, 32814, 21012, 11147, 30533,
      7106, 9173, 37722, 44839, 39950, 30711, 34245, 3101, 38146, 21901, 19146, 16009, 26795, 4807,
      48319, 34487, 32868, 124, 21075, 33445, 2704, 8759, 25531, 33926, 45332, 14535, 11391, 7962,
      25126, 47161, 1705, 9434, 49264, 46798, 30713, 47458, 5678, 17854, 13812, 33327, 7322, 6999,
      24844, 43908, 9212, 15693, 18026, 14127, 47102, 15413, 43788, 47324, 49007, 29359, 22405, 47024,
      22844, 18308, 10325, 37560, 42945, 21105, 24372, 25101, 40944, 25554, 35370, 42510, 36099, 27958,
      28240, 42410, 44203, 14251, 8485, 6120, 7459, 14003, 2485, 18290, 14833, 25306, 16683, 21783,
      9904, 47903, 42562, 31121, 4509, 39771, 22846, 45108, 3668, 10971, 24019, 33940, 13790, 6947,
      5985, 8865, 13960, 24653, 24439, 41588, 6517, 7930, 23995, 45844, 28994, 19866, 33965, 14525,
      45972, 8696, 13981, 48512, 7556, 752, 26130, 15818, 35789, 46210, 10572, 47719, 11740, 9926,
      48573, 28051, 9805, 44663, 7286, 612, 34074, 15856, 41792, 39320, 7098, 27888, 12850, 46512,
      41022, 5406, 49466, 23448, 20379, 20042, 16318, 49470, 17305, 3552, 10228, 33167, 48906, 14864,
      9818, 43176, 12806, 13355, 37979, 37717, 28606, 9542, 43693, 13333, 25578, 7662, 7138, 9406,
      1586, 46949, 3711, 10462, 19776, 14822, 32480, 49432, 4397, 38743, 5106, 22546, 7517, 5952,
      19668, 48043, 3884, 19078, 32648, 3658, 9813, 24922, 46612, 41803, 39793, 42283, 31363, 21117,
      24701, 21791, 9249, 30650, 28986, 30474, 13730, 47729, 28062, 27283, 2991, 36186, 44303, 32386,
      35792, 41564, 14465, 24421, 17977, 21853, 45093, 24943, 16303, 38855, 43727, 45675, 47096, 1947,
      15933, 46990, 10018, 48219, 23810, 32774, 47800, 2293, 13887, 24158, 35563, 35625, 17670, 48035,
      17410, 14247, 12860, 22475, 28719, 35301, 21098, 2535, 19501, 33589, 44526, 46187, 41127, 31281,
      35, 18114, 13133, 19564, 41370, 19865, 38830, 30475, 49150, 47209, 34255, 9614, 18717, 37068,
      3152, 26599, 13899, 33502, 36339, 349, 48317, 29387, 5731, 24895, 33147, 8063, 5461, 26554,
      2038, 4323, 31671, 43888, 23836, 35769, 45089, 7790, 39861, 19553, 41942, 46568, 5968, 43756,
      41438, 2870, 7748, 25487, 42174, 22416, 40013, 10605, 16141, 35957, 14262, 12756, 502, 24011,
      47792, 3505, 23083, 22744, 24774, 23342, 31319, 35726, 30304, 25732, 32557, 26368, 22235, 35550,
      28655, 22619, 31050, 11794, 33121, 10291, 37936, 48342, 15546, 18979, 44499, 45923, 42143, 44865,
      47564, 22622, 31799, 48113, 41259, 14004, 30998, 16597, 24110, 46314, 48001, 208, 30123, 6886,
      38982, 31078, 27303, 11276, 48200, 10330, 49714, 8232, 1747, 4147, 28518, 44808, 2703, 25445,
      16471, 27756, 9272, 35341, 5437, 6115, 27645, 43046, 45305, 14338, 47724, 34994, 1666, 36848,
      3993, 28733, 12772, 21077, 10117, 19654, 44155, 34666, 13499, 3888, 15543, 12129, 27447, 221,
      48659, 33054, 26095, 37592, 24007, 6586, 11983, 45133, 42794, 48419, 33811, 42016, 13090, 42509,
      12992, 17877, 26264, 30108, 38526, 46921, 22121, 32887, 6162, 12778, 4075, 27692, 14112, 26858,
      43256, 33684, 24302, 30170, 30738, 43033, 34256, 43352, 25886, 2250, 38378, 33786, 3139, 9789,
      42532, 32937, 7907, 41719, 1628, 9939, 42024, 20086, 45476, 3523, 23612, 611, 37582, 13122,
      8030, 8143, 14107, 39415, 35832, 22285, 41268, 1265, 8137, 11829, 23613, 28420, 38007, 2316,
      34115, 44183, 20780, 18059, 19351, 33133, 33555, 35152, 40869, 3329, 28339, 9593, 49215, 12332,
      14698, 26405, 3794, 13667, 33165, 46519, 26989, 23898, 35598, 12490, 16888, 47654, 5025, 16643,
      25916, 21896, 39988, 39444, 31251, 2815, 49148, 40315, 31657, 5800, 41906, 32870, 34230, 42209,
      42423, 45221, 38414, 31124, 27047, 29322, 24710, 45628, 4554, 24745, 38322, 23062, 45435, 40578,
      965, 22183, 12669, 40487, 42720, 42609, 49222, 30244, 36892, 43654, 4187, 26133, 39093, 25589,
      36121, 34774, 12008, 10415, 47145, 6488, 36979, 27432, 9151, 40539, 32770, 14464, 30732, 1592,
      14950, 40543, 13425, 33622, 25477, 10643, 6986, 30417, 37454, 21648, 44414, 12723, 32445, 41894,
      6290, 7518, 31436, 9355, 17559, 7391, 27978, 31872, 34418, 5880, 11557, 8351, 31697, 32483,
      5405, 38334, 24448, 24961, 5727, 25756, 42458, 9944, 9019, 34432, 4163, 40531, 23539, 5118,
      2170, 47356, 20335, 20578, 7071, 6035, 17943, 21426, 22682, 38223, 23632, 28025, 15685, 8941,
      29155, 16809, 26253, 40807, 4224, 45666, 31474, 36865, 12463, 34970, 44259, 7316, 11508, 12032,
      27553, 43118, 39781, 32552, 4388, 33118, 29791, 12131, 24479, 16349, 35821, 18484, 29614, 34369,
      35254, 421, 49967, 3595, 2694, 12238, 2905, 34491, 11502, 29051, 29576, 937, 18345, 39501,
      23152, 21079, 9030, 44098, 23774, 29643, 5578, 36785, 37301, 49188, 27634, 21668, 14375, 13184,
      32396, 2045, 43432, 37698, 23746, 12293, 38238, 19525, 49083, 5804, 17382, 8364, 45499, 24601,
      22055, 38537, 42659, 4501, 11883, 26658, 16684, 15740, 21943, 1946, 21482, 47778, 19279, 42938,
      31917, 34827, 40898, 27284, 34101, 42739, 4670, 29080, 12826, 37897, 37124, 27448, 34261, 38199,
      40244, 42451, 2424, 2131, 37115, 33721, 33047, 47608, 26513, 35184, 10711, 13808, 15212, 29564,
      7012, 38089, 42478, 26266, 39484, 14155, 43678, 14808, 26397, 31878, 40102, 503, 21483, 19579,
      17371, 7559, 47888, 7988, 39078, 49962, 13361, 27809, 15201, 32315, 36259, 8405, 47754, 48491,
      35881, 37584, 24641, 48969, 8300, 18949, 5338, 6386, 2099, 34944, 22519, 15272, 2706, 25175,
      11866, 40035, 27741, 24048, 43943, 10525, 49224, 34583, 5982, 13567, 46147, 37731, 45717, 40062,
      20970, 21036, 2082, 5708, 11842, 35226, 15425, 32104, 19124, 30299, 15616, 20371, 29200, 43249,
      19565, 15530, 546, 37358, 45438, 43270, 27455, 25952, 37439, 46376, 34644, 3844, 28959, 1020,
      23060, 8769, 27026, 23081, 10094, 41246, 11027, 15175, 48911, 43487, 3365, 26682, 14556, 7774,
      48028, 2455, 8390, 24409, 13764, 19208, 907, 13977, 14268, 43022, 40966, 36456, 27274, 28978,
      28384, 42464, 3080, 10298, 26679, 22314, 13622, 42121, 24721, 2609, 6145, 6214, 16328, 8540,
      26191, 45146, 39161, 41016, 40443, 10300, 31034, 15746, 26045, 8342, 6811, 40286, 31563, 11311,
      23516, 25065, 1654, 45432, 43260, 12700, 7985, 33482, 39251, 22170, 34001, 35088, 44290, 27496,
      3099, 48722, 20720, 9322, 13157, 34123, 42288, 36698, 31329, 36990, 38964, 3816, 25390, 12445,
      19153, 48386, 23601, 1790, 25492, 26922, 27150, 31596, 37073, 27544, 40144, 22236, 5468, 48736,
      44835, 14436, 21989, 37603, 23426, 19907, 44620, 547, 40755, 46324, 33970, 26146, 13874, 3468,
      32962, 13194, 35869, 44921, 38568, 29585, 4793, 32109, 315, 29325, 32904, 20006, 9115, 1915,
      45770, 450, 45427, 5760, 20244, 16847, 38439, 27936, 26450, 47935, 38912, 6362, 31678, 12811,
      19237, 36907, 44403, 19471, 34745, 37471, 41292, 10309, 1237, 19197, 26668, 33864, 40767, 10606,
      26603, 19320, 20263, 18567, 43691, 26676, 25526, 5196, 6547, 15014, 39306, 13891, 26881, 44323,
      8900, 33546, 556, 20380, 7508, 33812, 38456, 17259, 19468, 20377, 30532, 21808, 33888, 47560,
      48961, 37667, 7582, 44786, 47443, 30741, 22084, 40508, 8079, 27493, 5778, 31421, 18497, 41684,
      41418, 40032, 6440, 39329, 13512, 21388, 47849, 32742, 12099, 11365, 39441, 15533, 19749, 9629,
      11495, 43692, 33163, 43867, 20264, 7110, 46644, 5440, 33017, 46027, 25858, 10784, 24807, 49535,
      3345, 18564, 20883, 42795, 2769, 31163, 48568, 11227, 39785, 25750, 39555, 12011, 8360, 8629,
      40517, 18407, 13416, 39049, 39476, 14778, 46811, 38161, 2309, 46879, 11537, 42935, 8914, 46924,
      30645, 26584, 18928, 49039, 4182, 23826, 26163, 16551, 2193, 18195, 36239, 13115, 43982, 1059,
      43860, 31370, 49017, 36173, 3612, 40756, 27900, 1368, 40985, 42631, 22324, 37160, 7968, 12655,
      19144, 40420, 19887, 16631, 24271, 11428, 2367, 1940, 36452, 13427, 24928, 16834, 8679, 25527,
      1374, 21875, 46708, 38400, 11870, 12155, 47874, 4720, 1872, 2732, 28951, 45310, 46080, 13344,
      23043, 1063, 11282, 40834, 23234, 24275, 31119, 32524, 21756, 31450, 7552, 39118, 25258, 26981,
      31240, 42900, 42876, 6228, 4087, 23293, 15281, 45102, 48215, 36222, 29822, 35483, 29962, 27221,
      15772, 15879, 38859, 12738, 11685, 2428, 8935, 43651, 40810, 26394, 46923, 22045, 24585, 29720,
      47123, 44647, 11125, 47053, 41036, 48477, 42898, 761, 22717, 47928, 23627, 11833, 39595, 46386,
      31779, 41117, 44508, 15068, 47992, 9091, 4198, 4479, 38118, 33633, 37859, 48639, 42737, 17147,
      13987, 12603, 21645, 27708, 49384, 2005, 30895, 15316, 24998, 9563, 36107, 41429, 32998, 32773,
      17490, 38298, 41597, 32819, 4026, 12568, 42914, 12554, 6325, 21459, 720, 21894, 6393, 20708,
      29651, 16477, 39296, 29053, 23106, 12797, 5805, 5194, 28717, 17470, 22857, 39095, 22604, 26874,
      8583, 44253, 46248, 23163, 36091, 32160, 2332, 19070, 29183, 35035, 3423, 14284, 27593, 25748,
      33918, 45569, 18529, 15049, 15050, 1546, 4834, 40895, 33968, 9578, 29078, 33284, 44092, 37662,
      44206, 21144, 21733, 43306, 6878, 3608, 46637, 46613, 9874, 40358, 47647, 35855, 12567, 44270,
      44445, 14370, 29284, 11503, 15462, 21910, 43609, 48314, 8674, 45412, 26186, 37852, 26474, 44967,
      13257, 15451, 24318, 601, 29271, 2968, 8214, 49832, 28023, 35180, 7072, 2859, 20451, 1916,
      16793, 16257, 20596, 35990, 3827, 19734, 28654, 24520, 30200, 46277, 23523, 30253, 6508, 15569,
      7681, 23808, 16090, 31160, 48853, 23536, 29547, 34853, 30079, 2790, 19139, 6309, 28259, 34770,
      617, 39125, 24002, 15684, 16605, 19831, 19374, 31083, 25546, 44683, 47153, 40727, 40637, 21865,
      32707, 25225, 19836, 32180, 37053, 19505, 38087, 26363, 18206, 47823, 5474, 10096, 7888, 42840,
      2152, 21710, 30068, 20311, 45448, 45077, 15987, 32257, 38051, 46938, 33224, 43725, 5268, 27319,
      31677, 32654, 43998, 6741, 32603, 42444, 16640, 40497, 37553, 19637, 40357, 24698, 2721, 36058,
      26650, 3421, 49759, 22066, 5449, 32905, 27489, 27136, 12444, 44971, 36088, 2862, 30295, 1649,
      23910, 7502, 48510, 9530, 41964, 13531, 31604, 7318, 13225, 26906, 28257, 39824, 24773, 29524,
      27537, 14954, 8048, 36333, 10078, 36830, 31747, 32753, 327, 16615, 7332, 14052, 30184, 41132,
      17865, 28218, 1186, 25178, 31642, 15147, 16856, 47913, 10920, 48656, 5372, 8267, 8196, 8681,
      22050, 9300, 7228, 12060, 46042, 2209, 48836, 25106, 45633, 33379, 25324, 41032, 11030, 32341,
      5937, 6323, 46991, 17645, 36006, 7405, 2359, 9791, 40789, 16860, 10950, 46106, 11769, 43840,
      20432, 19639, 7536, 40730, 41935, 259, 10911, 34044, 14346, 11079, 29403, 29795, 45219, 47611,
      16769, 12269, 721, 22812, 3537, 3147, 38842, 36380, 34500, 27943, 27324, 37506, 44480, 16719,
      26068, 10122, 38311, 2701, 6681, 44493, 47750, 49617, 37715, 29343, 3361, 24934, 12624, 16931,
      45596, 46164, 31830, 16354, 14550, 8081, 22627, 31180, 33464, 37329, 35112, 15325, 40000, 21443,
      42059, 10811, 49607, 4588, 41926, 18286, 27931, 43747, 4941, 3671, 49881, 43667, 4221, 11765,
      39653, 34099, 31184, 34907, 32883, 4685, 28170, 47940, 6505, 33079, 44051, 47817, 47730, 14510,
      21161, 45953, 23009, 10932, 18403, 41558, 34281, 41703, 30414, 17699, 39527, 43075, 26288, 30377,
      41487, 18336, 18835, 14378, 23143, 8373, 4690, 30115, 43907, 19248, 38516, 13434, 45208, 47540,
      46392, 13688, 20997, 31453, 38473, 49048, 10640, 39943, 9971, 18734, 14185, 30060, 5512, 5156,
      41641, 49214, 40867, 5214, 25695, 39944, 33124, 48710, 48586, 4623, 18697, 20387, 10507, 26796,
      7404, 6625, 14819, 11194, 19400, 15148, 18837, 25310, 40536, 18234, 30592, 42146, 26404, 22406,
      35073, 18893, 16324, 48108, 26801, 4843, 6575, 23547, 41478, 3472, 29280, 46979, 28574, 32059,
      21467, 49661, 22352, 6634, 22509, 21169, 13211, 37640, 3967, 17619, 41916, 14517, 17799, 40675,
      28296, 22934, 27232, 31850, 473, 24130, 22176, 24750, 29807, 48805, 34374, 1580, 7676, 18720,
      45430, 28367, 91, 21990, 32100, 830, 42908, 38035, 32028, 34941, 11323, 10479, 38272, 14041,
      30470, 40245, 11544, 44761, 10275, 20675, 10701, 49254, 13725, 16578, 44834, 11022, 33378, 8838,
      33659, 22453, 47965, 15872, 2516, 19837, 32594, 25630, 25332, 5254, 22793, 46521, 46035, 10471,
      42988, 23511, 14512, 32070, 47787, 3302, 34290, 13465, 31916, 18131, 34425, 42160, 41811, 5848,
      23887, 5339, 13223, 12540, 39057, 30661, 36882, 2751, 40672, 29819, 14062, 25297, 36383, 28292,
      31561, 2122, 11522, 37316, 2986, 1349, 3553, 38710, 12922, 49139, 13460, 31777, 18927, 13903,
      9651, 44467, 33353, 44992, 36471, 31377, 49836, 47480, 3274, 15288, 41444, 37151, 20148, 25975,
      4814, 29027, 40781, 33331, 7157, 6503, 43532, 44190, 265, 4433, 45934, 21355, 16131, 37940,
      16805, 22413, 15640, 36797, 3301, 47522, 26351, 12998, 13722, 15197, 38852, 5202, 43655, 3233,
      39488, 44688, 48641, 24868, 10021, 47833, 4909, 36733, 49922, 5505, 39180, 29927, 1809, 13967,
      47862, 35876, 34545, 44871, 39546, 48083, 15836, 36949, 26046, 24374, 44947, 18411, 22635, 12911,
      24586, 12326, 24325, 40942, 30827, 36916, 5353, 7756, 40200, 35516, 18223, 25641, 8794, 15309,
      28882, 37890, 254, 592, 969, 46025, 21336, 41251, 25447, 21786, 33795, 14220, 28533, 49547,
      16086, 28776, 1355, 42491, 26412, 29333, 24593, 38186, 8216, 15266, 9142, 7353, 10341, 29834,
      44583, 18404, 18447, 31366, 39799, 6688, 22788, 33280, 33093, 42671, 5163, 43188, 30894, 40127,
      1493, 32601, 30764, 38421, 39924, 18220, 47576, 23229, 32845, 6356, 40147, 24529, 33856, 40033,
      12366, 10461, 42248, 43558, 44477, 9993, 461, 19089, 14987, 38790, 41586, 10867, 33860, 392,
      24707, 42936, 14947, 29664, 7304, 10102, 9730, 2734, 32704, 47154, 18930, 41285, 16909, 1028,
      27510, 43134, 32491, 10387, 16245, 47921, 31400, 18580, 14105, 9482, 39674, 1228, 49069, 23617,
      16517, 49959, 38128, 18820, 47948, 19040, 41494, 41054, 40559, 16592, 8588, 24341, 23135, 31946,
      18796, 1083, 47598, 10180, 23592, 12302, 6944, 42294, 36513, 41093, 23320, 32444, 6845, 2288,
      1595, 34138, 32860, 14979, 42013, 35287, 43752, 23642, 40726, 47580, 29785, 9033, 39727, 12462,
      15430, 19745, 34686, 25681, 9773, 34611, 7437, 33373, 16866, 14476, 7914, 8964, 25585, 14964,
      15091, 32035, 5391, 30968, 14637, 24225, 28660, 28741, 40588, 42817, 42875, 22158, 11959, 9657,
      40484, 17830, 11654, 18616, 13165, 39693, 7097, 35636, 26747, 47167, 49713, 28188, 37795, 26311,
      15973, 27748, 15874, 40884, 33408, 38123, 3207, 18703, 6353, 35994, 39648, 21543, 46226, 19720,
      19125, 27530, 31945, 10056, 28571, 27917, 46662, 15808, 18780, 7731, 10957, 7604, 18241, 36219,
      3399, 9912, 5834, 23148, 12111, 12973, 4607, 40394, 45822, 21948, 33781, 19598, 28061, 13038,
      8148, 49468, 11431, 43832, 36811, 12499, 17480, 43160, 13052, 6520, 45073, 3181, 39358, 2143,
      35603, 36367, 4281, 41306, 35374, 42015, 6227, 46047, 3894, 37079, 3616, 36111, 19925, 26717,
      1743, 49113, 12735, 15441, 42208, 25591, 4950, 25896, 47620, 49548, 2039, 18128, 13239, 10519,
      25746, 21629, 32585, 44879, 43267, 34630, 26373, 13530, 3501, 42050, 44366, 16272, 19526, 5217,
      12164, 6763, 37378, 48760, 27351, 6582, 49609, 224, 35602, 26937, 21521, 43563, 21065, 10641,
      16291, 49045, 21293, 11452, 46783, 25014, 46517, 24171, 168, 43858, 28306, 37393, 35330, 25775,
      30630, 4696, 38778, 11453, 42073, 19518, 25257, 18007, 35443, 22943, 47005, 15866, 36971, 34729,
      6091, 31975, 41839, 38126, 9575, 43304, 37135, 7344, 49332, 7636, 21819, 40044, 47481, 15745,
      37239, 23066, 45863, 25035, 10194, 31029, 26307, 1665, 33410, 4371, 29933, 33411, 13684, 37309,
      42608, 33156, 48110, 759, 48537, 43992, 17585, 33018, 4284, 34842, 34868, 33041, 22817, 19046,
      12675, 47440, 1978, 36136, 42398, 955, 11456, 18721, 227, 44005, 42596, 32943, 29014, 24361,
      4317, 18912, 2420, 42268, 29615, 27486, 12368, 48821, 34303, 4452, 33503, 31336, 39812, 1075,
      17188, 16099, 26879, 40146, 38540, 25973, 5312, 32457, 33658, 11051, 15432, 47407, 9028, 26161,
      40467, 836, 16037, 23138, 19757, 4734, 37750, 29230, 10212, 29885, 29460, 25195, 45069, 42063,
      19300, 49521, 27971, 31643, 17495, 33094, 48084, 34656, 21472, 24631, 10624, 42322, 38273, 17383,
      38329, 30191, 8638, 26996, 234, 32749, 43864, 3721, 38497, 49694, 1394, 4715, 27165, 46939,
      43551, 5120, 10555, 25094, 43978, 41765, 43238, 43226, 6602, 34817, 30919, 7445, 15778, 9309,
      27168, 23003, 41618, 34685, 635, 20428, 27119, 37017, 21437, 35716, 6495, 23891, 45612, 25246,
      48128, 25540, 39797, 529, 32197, 27485, 26971, 18317, 42019, 33954, 24838, 28771, 22355, 43822,
      48124, 28995, 26525, 43155, 40858, 44133, 45937, 10168, 47966, 11909, 29854, 29173, 24873, 21432,
      33300, 6918, 38188, 27419, 41350, 36254, 36625, 6785, 42955, 49239, 24679, 36505, 21338, 42228,
      9749, 28613, 18406, 42118, 828, 44537, 49357, 42895, 42147, 38726, 4542, 7153, 16586, 26207,
      5593, 6919, 44048, 18818, 11956, 28097, 23775, 23169, 18214, 6335, 21005, 44784, 6357, 22521,
      11006, 18934, 35266, 40649, 42343, 14331, 7716, 19750, 40391, 41009, 35234, 20233, 34843, 21485,
      34520, 24144, 48820, 19057, 38423, 46312, 26358, 34527, 40951, 23538, 48327, 12394, 48202, 23295,
      13351, 1119, 41076, 8164, 36793, 27141, 35445, 21821, 17001, 43277, 6157, 23175, 22849, 6685,
      2030, 34904, 34045, 45886, 13366, 29972, 9881, 43004, 23907, 32288, 2225, 32164, 22006, 34777,
      18422, 3590, 19147, 37336, 25262, 25261, 38281, 3328, 49243, 36857, 7299, 2324, 24740, 37851,
      42195, 47812, 4043, 24812, 46370, 27049, 9329, 16862, 34597, 5043, 44383, 32187, 19845, 25308,
      27194, 15161, 21572, 39122, 48600, 35015, 2047, 1495, 35441, 43514, 14450, 17329, 13813, 8839,
      970, 20642, 45709, 49050, 23950, 19765, 41726, 27592, 8773, 42961, 39724, 48628, 19941, 23167,
      9201, 7826, 35682, 8242, 43957, 21836, 4015, 7500, 20934, 4278, 27753, 18784, 16710, 22628,
      34284, 40699, 38548, 18277, 44780, 30021, 30743, 38922, 44625, 46630, 21129, 27558, 49541, 4313,
      20678, 32251, 5870, 23179, 33730, 36675, 41474, 40017, 4698, 11137, 21138, 44009, 275, 35465,
      40414, 22549, 15133, 26518, 13309, 27806, 36143, 12698, 32087, 11599, 45111, 42076, 22843, 22759,
      49046, 36264, 2661, 23076, 2748, 19449, 34252, 24213, 7669, 33951, 49298, 24292, 17390, 10232,
      33219, 9668, 11454, 12367, 34683, 46501, 21002, 16518, 28944, 11169, 3351, 435, 40939, 22661,
      36255, 17148, 30701, 11074, 2594, 3422, 11518, 47772, 41957, 8797, 37279, 16700, 38992, 146,
      43451, 26282, 10495, 22737, 11114, 43042, 13481, 25043, 30872, 33838, 49210, 27864, 42081, 5359,
      48352, 32513, 25147, 8614, 39485, 17386, 42959, 49323, 7799, 45457, 7824, 33032, 3868, 4649,
      48699, 27177, 9544, 2737, 3111, 11862, 35599, 48938, 7952, 5970, 14994, 34715, 17956, 30528,
      40795, 76, 6628, 44140, 35011, 14147, 10687, 35976, 31525, 3005, 10543, 9276, 2345, 6088,
      10269, 16271, 33119, 15803, 46278, 35320, 10658, 988, 15179, 36324, 47034, 18428, 41549, 6717,
      14816, 37716, 28653, 46816, 15084, 36097, 45728, 9005, 9727, 16060, 9226, 41446, 2270, 696,
      46677, 23753, 23087, 21931, 11896, 25789, 47897, 17835, 37798, 39814, 39977, 40640, 39312, 5516,
      46327, 33969, 9176, 34564, 32216, 15208, 9691, 21805, 6173, 16287, 9991, 2667, 33309, 36715,
      16565, 49170, 26464, 25196, 22482, 15391, 44319, 42382, 13742, 23226, 43604, 47720, 15428, 35890,
      22888, 45038, 17797, 13127, 41573, 6417, 46657, 20016, 7854, 4684, 46582, 24413, 21643, 29472,
      37041, 20007, 32665, 28928, 27014, 16564, 30765, 30737, 44287, 27682, 34005, 48533, 45290, 24289,
      44714, 44707, 13781, 16853, 36755, 43482, 18550, 48370, 1027, 33501, 39815, 44062, 23886, 36002,
      253, 15270, 1795, 36602, 40847, 333, 39965, 45561, 31073, 43865, 45526, 7092, 27143, 6174,
      37594, 39195, 21899, 12349, 49730, 38882, 22326, 7167, 29479, 36540, 37683, 1967, 20118, 16521,
      20523, 4447, 12443, 3860, 44758, 8115, 18210, 31635, 35672, 16624, 21486, 14433, 16300, 357,
      46006, 1297, 45939, 10804, 33571, 24097, 43771, 8827, 25935, 36249, 6153, 29891, 14413, 36419,
      48574, 9485, 14070, 37062, 34784, 17626, 49152, 38634, 42937, 48365, 44273, 27548, 26114, 46339,
      39552, 46345, 11285, 4059, 30591, 7739, 20203, 44138, 30792, 43103, 8806, 15502, 8958, 29,
      37258, 42640, 34337, 27064, 11554, 1825, 6032, 35695, 41193, 24459, 11860, 37691, 44875, 20729,
      13550, 47303, 19028, 11496, 1869, 33199, 33200, 32302, 1782, 24434, 17344, 984, 45137, 34343,
      29675, 45549, 24589, 23107, 17301, 16838, 9892, 4122, 7585, 17876, 47627, 10218, 35830, 32723,
      32643, 49895, 30039, 8158, 18773, 12579, 25800, 3554, 38711, 2981, 37799, 13783, 22074, 15362,
      45977, 38621, 13959, 17643, 30627, 3408, 7798, 13910, 38583, 7882, 22773, 15498, 49362, 11622,
      39521, 34161, 11117, 21578, 20441, 19807, 20575, 26042, 41206, 2906, 32234, 24727, 32978, 6844,
      48494, 34595, 2068, 37587, 27046, 31220, 17813, 30547, 25432, 32336, 34612, 10924, 13706, 32179,
      22428, 9755, 20020, 37060, 47929, 12592, 41866, 7150, 9450, 48822, 42492, 35987, 10773, 18462,
      1611, 40282, 34468, 15099, 30789, 18301, 1345, 13627, 21103, 44568, 45198, 43497, 31974, 49358,
      33846, 24715, 24766, 28262, 46944, 48883, 49555, 23224, 7807, 40561, 16306, 26082, 32541, 43246,
      18638, 42353, 42449, 30967, 9574, 29567, 34598, 41472, 154, 19513, 11610, 39971, 12094, 31064,
      30069, 6817, 48588, 34562, 34867, 20070, 8005, 47174, 4510, 36134, 49955, 26866, 1037, 34048,
      24193, 17752, 19760, 41011, 34599, 4153, 7408, 43150, 48849, 34874, 8400, 14301, 36965, 18989,
      6669, 10574, 2587, 38723, 3140, 12719, 15723, 11892, 9209, 25794, 4225, 16520, 11310, 33916,
      43480, 22728, 43343, 35466, 2021, 33417, 32816, 34403, 12259, 14542, 19289, 8835, 2702, 11315,
      17673, 49117, 24455, 18735, 5524, 22507, 12167, 43151, 1751, 35589, 28823, 34323, 38288, 37478,
      16333, 16802, 33288, 31904, 39347, 12626, 14640, 9832, 35125, 41120, 46690, 36054, 10684, 44705,
      22202, 39311, 48871, 7426, 12128, 38063, 40936, 19848, 1891, 2634, 28895, 18801, 6261, 5032,
      16273, 38048, 19494, 16639, 34903, 11750, 8348, 33963, 14015, 24649, 1943, 22972, 50000, 8803,
      46754, 11851, 16187, 48506, 39455, 31553, 43074, 11356, 35661, 11333, 16685, 8173, 24827, 17553,
      25194, 40492, 25926, 30326, 14358, 8834, 48496, 36628, 11491, 4275, 30308, 6761, 48509, 49309,
      33992, 14630, 44778, 15753, 10664, 26050, 30913, 39127, 39388, 35154, 40320, 10673, 35107, 24320,
      34198, 1713, 25676, 33423, 30503, 6950, 26197, 35216, 17092, 29420, 36826, 31001, 39150, 43300,
      49023, 1256, 19390, 25231, 28159, 4708, 1767, 12054, 44815, 22094, 40145, 43465, 27130, 27511,
      6122, 19653, 24293, 29313, 34423, 43570, 1036, 39490, 45424, 28729, 7089, 2550, 5365, 43576,
      27836, 40912, 49790, 22273, 11057, 17425, 33517, 15758, 35225, 31287, 20220, 22582, 44280, 38092,
      41908, 16092, 683, 33707, 7763, 1787, 49250, 23189, 33247, 46988, 34772, 18456, 48093, 28119,
      4100, 20572, 2782, 44929, 25084, 23193, 32967, 28298, 26865, 39158, 27466, 44924, 21855, 30938,
      4210, 5957, 7363, 19430, 24082, 26321, 42892, 21858, 22941, 24483, 20001, 5099, 28134, 14895,
      14, 38124, 17767, 32515, 3297, 35215, 31978, 28723, 1641, 31868, 45763, 43695, 29329, 27637,
      49645, 24088, 47946, 5184, 12863, 7381, 9822, 34225, 47599, 15736, 11253, 27589, 22023, 19106,
      25007, 29054, 24937, 7663, 44434, 19135, 25005, 11726, 25482, 1683, 6250, 46560, 10556, 28436,
      8316, 8643, 1606, 7923, 28093, 31766, 22851, 9670, 1405, 12193, 6287, 48169, 14949, 40784,
      13855, 5903, 7546, 12491, 26704, 35928, 47544, 29209, 17791, 23157, 31853, 39088, 16513, 9857,
      826, 48601, 41518, 3991, 11946, 23095, 26349, 45554, 24313, 6993, 48094, 170, 30617, 46799,
      9443, 5480, 47002, 23427, 43606, 42448, 32652, 41901, 49125, 3348, 29169, 26919, 49506, 2910,
      38530, 48691, 8144, 48968, 49516, 49186, 14891, 11701, 8376, 6714, 39745, 25076, 36605, 30037,
      29162, 602, 5998, 7477, 3, 23505, 18368, 18016, 38101, 25379, 18419, 47463, 15164, 39732,
      42931, 26094, 9757, 3393, 5176, 48514, 466, 32592, 24419, 28046, 47474, 30553, 13784, 15144,
      5301, 16813, 49554, 4338, 8523, 47806, 11766, 11820, 44824, 7198, 29010, 11955, 906, 8345,
      33908, 13868, 26703, 36658, 20857, 37537, 41495, 29904, 35410, 35637, 38718, 36350, 49641, 7590,
      19914, 11611, 25420, 43496, 32587, 22680, 24378, 38441, 17999, 12437, 27644, 11589, 31829, 25974,
      37530, 12409, 47354, 47392, 28622, 48257, 21687, 48985, 9762, 38775, 29142, 31691, 4692, 34175,
      36489, 34966, 948, 33406, 2014, 37224, 46856, 29474, 24227, 15565, 32841, 1249, 31951, 43109,
      30865, 4052, 34462, 2598, 39813, 46830, 27730, 32412, 13229, 7224, 32228, 47805, 20077, 38515,
      28031, 13720, 49889, 7208, 19077, 23721, 2349, 6880, 17701, 25583, 7583, 17468, 24205, 4610,
      41553, 22442, 49842, 11505, 31297, 28336, 33448, 13243, 25994, 35344, 49401, 30546, 18069, 38156,
      23050, 3784, 27760, 391, 23145, 40773, 2766, 40293, 13190, 13220, 34933, 8922, 45712, 35816,
      13551, 2909, 4904, 31219, 7428, 39695, 11608, 20521, 26493, 16915, 31103, 25979, 33671, 33008,
      11512, 33733, 27582, 9980, 6485, 32367, 20198, 29826, 22098, 45757, 17734, 16310, 35847, 39102,
      6121, 14578, 43274, 14601, 24821, 41665, 41733, 8676, 47999, 46139, 44081, 25978, 44846, 17421,
      48082, 46945, 35004, 23500, 18187, 30800, 21891, 23082, 37035, 25172, 1879, 2614, 49320, 2297,
      32861, 41963, 2151, 9863, 4558, 41685, 45295, 2206, 23726, 10001, 39663, 8309, 26592, 22827,
      27895, 45808, 46491, 47412, 22163, 3550, 46135, 5123, 18604, 16045, 34576, 35048, 46667, 29635,
      4881, 8847, 44759, 21773, 48131, 49633, 16706, 47626, 28545, 28423, 39612, 32278, 16990, 35519,
      34371, 9849, 26278, 31249, 4374, 14202, 46966, 13498, 36846, 46591, 13359, 42802, 29385, 20828,
      29843, 17957, 10034, 25707, 48811, 23941, 35420, 14770, 16757, 10690, 12086, 45935, 18162, 5817,
      48668, 11869, 23750, 31788, 13830, 18459, 7550, 47671, 33967, 42541, 22347, 29588, 45703, 9610,
      3533, 3837, 24603, 32351, 33164, 32260, 27186, 3613, 115, 45275, 36702, 7795, 42982, 31270,
      19524, 9315, 4031, 43288, 54, 13441, 35937, 49708, 21983, 17938, 30662, 24763, 46865, 47532,
      10188, 37646, 37700, 41192, 16472, 16585, 14931, 25254, 44205, 11940, 3070, 4862, 21589, 17467,
      28603, 40061, 24233, 9161, 26618, 21708, 45201, 33961, 25352, 3185, 33777, 7172, 43244, 38410,
      44980, 33488, 8874, 11004, 2912, 46999, 20781, 14152, 31523, 35277, 2197, 46114, 48221, 11248,
      26456, 1797, 10366, 18974, 19368, 39258, 30567, 25123, 11290, 14118, 23552, 34338, 19812, 945,
      30246, 8972, 14602, 34992, 10937, 44966, 23839, 3352, 31502, 9872, 45027, 17941, 38501, 14055,
      9202, 11566, 2698, 37995, 14395, 36276, 13820, 13845, 35512, 5293, 22101, 37826, 38904, 7734,
      10851, 44047, 11924, 34696, 34508, 26295, 32575, 3963, 30947, 48861, 46703, 7125, 39206, 11305,
      49009, 13829, 17882, 29470, 15688, 24490, 13770, 7691, 38981, 11073, 44874, 24041, 10935, 23098,
      15172, 7053, 10923, 46074, 41656, 47210, 15756, 37182, 41825, 12840, 25524, 45300, 43580, 35203,
      30536, 24356, 38694, 1340, 23997, 14560, 43117, 15794, 43599, 15955, 16340, 22688, 25139, 23586,
      15669, 40753, 13537, 25802, 17760, 13044, 5290, 29234, 26449, 35000, 12976, 46624, 13341, 20592,
      12731, 35978, 22885, 20734, 44055, 12614, 48383, 32714, 24925, 49472, 17739, 5072, 30946, 25365,
      688, 5761, 25152, 47146, 19913, 33735, 26227, 14705, 40116, 42404, 38277, 17981, 48963, 40206,
      30584, 45626, 10958, 26944, 2026, 17911, 41046, 22143, 28265, 10191, 27279, 33609, 18878, 8616,
      8580, 8299, 15843, 43084, 47012, 8890, 30821, 12436, 40668, 25597, 46401, 10806, 1861, 14102,
      37524, 21185, 47590, 19779, 45508, 3450, 37932, 37402, 2930, 32392, 23672, 40138, 24404, 24020,
      12381, 34505, 4464, 31442, 48356, 14911, 3739, 41035, 25144, 25700, 48283, 29771, 13030, 13103,
      42278, 9717, 22562, 39459, 18731, 3624, 10902, 166, 27411, 33206, 9585, 19677, 2226, 2534,
      6369, 3336, 8298, 26479, 16938, 14368, 37272, 5663, 22252, 9099, 45576, 38793, 32042, 36385,
      47780, 11809, 40011, 28507, 28019, 8778, 1955, 28096, 44600, 29101, 48232, 47669, 2727, 6913,
      17253, 49833, 45431, 20948, 31764, 48085, 3182, 18535, 16093, 2412, 20941, 10199, 19722, 27850,
      14212, 27001, 43759, 3173, 25100, 26648, 3807, 20791, 11041, 34780, 40680, 15833, 15012, 25191,
      33911, 43266, 49984, 35252, 27170, 24149, 40374, 22118, 16400, 5022, 27891, 8863, 606, 14870,
      37170, 20658, 32451, 11080, 45471, 24231, 8743, 38963, 856, 1926, 14581, 31944, 26000, 8785,
      19152, 27817, 23188, 38107, 9402, 17017, 30906, 44, 2812, 43627, 43264, 23566, 40433, 30371,
      11861, 40826, 14628, 20484, 39284, 4604, 5816, 19729, 42989, 13170, 15492, 36154, 39818, 6435,
      47106, 47796, 19742, 31641, 31468, 24776, 14405, 44118, 38576, 2051, 1025, 30118, 3073, 9467,
      19481, 31990, 39970, 6881, 41826, 7884, 43243, 535, 49973, 18648, 17616, 10053, 8823, 3796,
      10244, 3926, 34294, 5597, 1573, 12339, 7343, 24195, 14142, 38466, 17899, 32851, 28542, 14570,
      49817, 28167, 10296, 42323, 27176, 13805, 27635, 46706, 22450, 9257, 11047, 36959, 40003, 16760,
      8819, 49493, 31882, 33468, 37742, 49874, 17151, 13948, 5050, 40326, 37733, 9216, 21460, 49629,
      12402, 44722, 22659, 44565, 31775, 4954, 43883, 26748, 49013, 47592, 13193, 39869, 33319, 27906,
      21108, 45109, 19507, 36578, 28650, 42762, 39013, 1739, 44216, 30507, 43488, 8203, 22088, 10256,
      22457, 16611, 23151, 36001, 32859, 37347, 26440, 32078, 3429, 5248, 44878, 46971, 42433, 5884,
      45110, 25305, 16697, 13978, 30231, 25793, 19210, 9800, 42805, 33842, 7513, 42657, 32377, 23391,
      3059, 17475, 49591, 44459, 6711, 3433, 4044, 40334, 13572, 42538, 26154, 18926, 12291, 34703,
      31674, 2897, 33549, 14225, 7784, 41000, 8917, 12810, 13599, 23160, 23304, 33764, 39106, 27429,
      28849, 974, 14905, 22210, 15455, 42473, 31970, 36798, 620, 31762, 3597, 9952, 21321, 38944,
      5418, 45175, 33592, 38028, 31546, 24983, 39958, 48525, 16022, 47196, 43489, 22617, 2028, 12544,
      45484, 232, 43571, 41220, 31595, 23735, 3763, 11007, 47896, 17477, 40557, 7280, 15416, 30576,
      45185, 43470, 21912, 15446, 2512, 4852, 5996, 20467, 40986, 33983, 15571, 23640, 48649, 24887,
      35675, 33052, 31049, 24630, 45362, 15139, 36198, 11655, 6706, 4570, 35818, 40685, 13677, 7197,
      17918, 29067, 47386, 49484, 18416, 12406, 9639, 7453, 35926, 27435, 102, 17282, 28765, 13885,
      1722, 17178, 31002, 18360, 35537, 35952, 41704, 28957, 45304, 48841, 25646, 20009, 40790, 24116,
      8581, 45824, 43381, 9700, 32066, 21694, 38117, 39479, 10272, 16004, 1210, 28909, 13707, 33250,
      1443, 19988, 38664, 920, 805, 48410, 12159, 34532, 37451, 13483, 40384, 40470, 46574, 28297,
      24475, 23922, 42277, 31672, 49618, 18629, 21857, 1153, 21944, 31590, 1084, 19889, 35597, 3097,
      23785, 44776, 25120, 44227, 16219, 45277, 4489, 32702, 40371, 4476, 49136, 3072, 43941, 7527,
      18944, 46082, 29662, 1880, 35364, 12729, 34811, 32339, 2998, 10899, 8714, 16058, 45187, 18426,
      20110, 13447, 4966, 47033, 42069, 12636, 40851, 11058, 6945, 19686, 32204, 4465, 40913, 5905,
      3974, 49242, 34792, 4385, 25904, 37288, 44819, 20591, 25894, 1775, 34378, 40993, 47075, 21892,
      11375, 23170, 49212, 3877, 5493, 19121, 10193, 22232, 28293, 8503, 40997, 57, 49485, 12319,
      19009, 36611, 26110, 29934, 37348, 35956, 17744, 36637, 13884, 43593, 11615, 40235, 38053, 41687,
      33162, 9913, 15448, 13357, 42595, 22240, 40687, 19955, 16073, 38946, 39018, 3649, 17268, 10270,
      23652, 42917, 35729, 16926, 9014, 12610, 26339, 4226, 1862, 4836, 1272, 3906, 34093, 2562,
      2838, 735, 37144, 22953, 17885, 23133, 9713, 11604, 32170, 9608, 36248, 84, 5013, 43909,
      20158, 45962, 11646, 8607, 31020, 32958, 48016, 2736, 49160, 47263, 10128, 36720, 13343, 39856,
      149, 23667, 9380, 38779, 24903, 13860, 553, 36647, 28267, 30867, 35128, 40839, 48239, 48409,
      49487, 21717, 30597, 47313, 35217, 40018, 37680, 20694, 15787, 356, 4587, 36841, 44397, 32659,
      43455, 47434, 44963, 44604, 47359, 9688, 18651, 2267, 34141, 18499, 20161, 3879, 26933, 39938,
      1745, 32680, 23451, 41519, 6964, 19851, 46319, 41083, 40899, 48427, 4973, 26828, 33750, 43534,
      20645, 27365, 47914, 4549, 47187, 49858, 35093, 7977, 12770, 30942, 39742, 8207, 37411, 45021,
      18802, 40230, 2488, 11603, 22196, 22120, 17489, 28573, 35142, 5064, 19088, 45460, 36200, 19817,
      29021, 45599, 42163, 48005, 218, 32982, 14902, 1314, 37390, 24984, 2655, 49060, 49988, 20508,
      12862, 33364, 22487, 4451, 35043, 46462, 5412, 40707, 48591, 31818, 17763, 5180, 46742, 23430,
      25110, 35384, 36246, 37540, 38209, 40368, 28323, 43392, 42450, 4099, 25649, 47089, 7131, 20032,
      21318, 6609, 27823, 7728, 7004, 4767, 25852, 5945, 5587, 43473, 18823, 675, 38611, 36123,
      5019, 43416, 24136, 21367, 48730, 34399, 23134, 39957, 45896, 34570, 38389, 4334, 42703, 21933,
      28370, 34013, 15396, 26908, 15904, 9453, 30267, 29763, 8673, 25436, 8460, 27664, 17677, 668,
      13939, 39340, 30343, 15227, 40046, 46793, 10130, 26320, 25427, 24284, 812, 24040, 32044, 17843,
      37077, 26953, 29936, 14681, 2101, 45523, 27709, 11403, 9421, 44550, 23237, 48617, 32706, 41312,
      9439, 5737, 24836, 32621, 40503, 11579, 6251, 4069, 5635, 19795, 11888, 7983, 44822, 3369,
      42474, 8649, 29676, 37627, 41970, 35501, 11724, 32090, 5320, 8441, 22226, 45167, 24387, 44762,
      17783, 11880, 11366, 11649, 49659, 26701, 23756, 28857, 41541, 42948, 3008, 30317, 5866, 48201,
      30155, 24314, 41677, 31517, 46207, 38573, 28973, 49534, 33460, 24467, 17074, 39632, 36564, 39192,
      6864, 42646, 36433, 49019, 46463, 20004, 8678, 44274, 32229, 19264, 10227, 40792, 42196, 15301,
      45978, 41186, 23971, 35212, 24117, 12707, 19578, 22251, 35666, 15925, 42221, 33388, 22945, 18328,
      36225, 16623, 2002, 8937, 46049, 28256, 44011, 21557, 44913, 15573, 38655, 8843, 48769, 24655,
      36216, 14636, 14097, 15860, 16203, 31754, 14426, 22421, 13848, 13711, 13502, 14347, 21771, 47052,
      17085, 41079, 41756, 6405, 10133, 35044, 22345, 14992, 9500, 27795, 15716, 46425, 32195, 29937,
      22017, 28945, 13191, 46609, 21084, 34199, 8056, 31712, 35487, 34879, 16641, 44733, 32617, 16464,
      46295, 42349, 335, 17399, 31475, 41740, 5768, 40457, 9567, 15642, 29324, 14790, 38613, 43132,
      38771, 22991, 31962, 21807, 45572, 4245, 12102, 15279, 28281, 14466, 1224, 5143, 7709, 638,
      36853, 21088, 12633, 10318, 43560, 31733, 7733, 23699, 27263, 37762, 26221, 24075, 5130, 26509,
      19974, 35407, 45582, 33990, 28954, 20368, 7447, 37787, 36604, 3381, 29603, 28239, 46513, 28210,
      23306, 16547, 37721, 6104, 10659, 19906, 40613, 27922, 31082, 12679, 29627, 46245, 6799, 32554,
      2480, 27863, 10830, 32508, 38615, 10515, 37230, 40619, 13982, 8973, 13838, 1639, 11374, 10083,
      29129, 35696, 29828, 11614, 13228, 14081, 38883, 35752, 12849, 22316, 7509, 38484, 41097, 35097,
      43588, 33995, 33157, 45058, 19661, 2465, 16777, 31768, 44214, 44496, 13613, 42216, 38364, 34040,
      28755, 49620, 20550, 8808, 45419, 5566, 22381, 7608, 31494, 20888, 24946, 1437, 43275, 42354,
      19754, 18081, 42254, 40705, 531, 10768, 49122, 40306, 32730, 22231, 33608, 44803, 34717, 38024,
      9812, 11054, 38154, 43098, 30120, 16263, 7034, 5802, 33775, 36010, 20741, 29556, 49196, 3217,
      16949, 175, 41831, 45849, 41663, 31108, 19314, 38995, 41614, 744, 40688, 48486, 44006, 41238,
      22801, 7703, 20271, 35940, 36314, 2570, 46251, 11845, 2519, 37221, 5058, 43794, 23032, 1957,
      47904, 44635, 24104, 12023, 7095, 15426, 15674, 38486, 26799, 1574, 32997, 9541, 29477, 42247,
      21455, 22511, 3223, 37002, 8457, 21313, 33843, 15512, 1927, 36326, 23334, 24584, 4488, 11088,
      31526, 26165, 44345, 8058, 10483, 1842, 38320, 5690, 30824, 38280, 1601, 18511, 29859, 24659,
      24179, 32518, 37942, 24337, 48305, 44614, 25090, 22720, 3244, 22327, 42709, 29944, 18283, 44788,
      49138, 33427, 26056, 3962, 21741, 849, 11818, 29981, 10022, 33987, 38355, 16516, 14144, 24418,
      1304, 3019, 36426, 14546, 29788, 1233, 11992, 36660, 43962, 32754, 24112, 33930, 31576, 49630,
      45392, 424, 31841, 16879, 13083, 28095, 30612, 4118, 27648, 809, 24274, 28517, 47843, 38772,
      15067, 45990, 19725, 11252, 33573, 38717, 40168, 1208, 11203, 23867, 41858, 42242, 41351, 49827,
      44899, 46911, 25977, 17098, 24332, 49753, 39326, 14244, 29542, 37672, 35327, 1929, 33401, 36812,
      14392, 43124, 22729, 49191, 41927, 11780, 25946, 49431, 27051, 18992, 24401, 5701, 25564, 2216,
      25073, 11320, 31060, 22966, 31267, 41823, 16314, 4568, 28844, 40651, 41173, 18359, 6599, 1847,
      881, 15615, 6063, 2188, 40367, 21481, 35760, 48765, 17330, 2781, 38229, 35306, 42526, 48685,
      18561, 2560, 16216, 44703, 28394, 9551, 530, 27265, 43868, 5612, 23022, 40021, 43324, 18146,
      44100, 9978, 18390, 47384, 12432, 11363, 39568, 2401, 44669, 20064, 9635, 30298, 10549, 18764,
      7256, 17124, 46743, 30777, 5928, 1833, 4753, 11482, 13691, 29646, 27547, 4872, 49570, 46697,
      1472, 40700, 19617, 36472, 11746, 41589, 6692, 19943, 36739, 46070, 25247, 43104, 47539, 47683,
      8662, 18840, 5314, 25347, 11657, 43761, 10459, 44008, 5560, 25773, 31794, 18420, 12769, 8069,
      5819, 13188, 37241, 12331, 11446, 5136, 8746, 41535, 9147, 21568, 1440, 28110, 13714, 9696,
      29068, 1206, 40878, 12473, 45324, 45581, 38016, 16127, 31232, 47781, 16648, 11932, 9600, 48160,
      12827, 27347, 12333, 27245, 43273, 13479, 42940, 27925, 42848, 27910, 23103, 14724, 33390, 12271,
      10197, 15807, 35765, 39854, 41748, 49544, 31067, 14187, 16070, 49561, 32485, 16469, 40007, 31272,
      34097, 14910, 24689, 16795, 45248, 4240, 5090, 25197, 30718, 6466, 40558, 8936, 39425, 31204,
      29457, 48787, 1315, 12718, 19672, 9223, 38266, 10352, 8074, 42976, 34122, 15598, 41493, 36361,
      43276, 37269, 28599, 41283, 23368, 13578, 14909, 1046, 17968, 23435, 26001, 39766, 15964, 32357,
      14941, 41007, 3138, 41239, 41853, 38451, 28496, 22110, 20286, 1772, 29772, 33674, 14590, 23420,
      35265, 36522, 1287, 3948, 29852, 2621, 13291, 24627, 24536, 14814, 42750, 28428, 22984, 23682,
      41630, 36583, 29914, 12017, 38303, 48259, 17544, 2238, 34181, 49593, 28609, 1205, 4664, 46198,
      39073, 24497, 40496, 46265, 31396, 27147, 42057, 25914, 47142, 37006, 33731, 29422, 34066, 49164,
      45890, 17246, 25131, 24101, 15737, 37359, 40501, 40679, 12964, 20854, 9999, 31581, 36277, 3825,
      4958, 29993, 2777, 24719, 39401, 48815, 9144, 46222, 36070, 14582, 8896, 46254, 10011, 43708,
      7683, 21500, 33131, 15070, 41101, 47078, 41105, 30854, 3054, 11686, 6917, 40712, 885, 22713,
      6288, 18599, 6409, 14007, 35562, 5274, 14529, 24403, 35721, 32517, 29020, 35377, 35008, 48293,
      5758, 12847, 19948, 24147, 12965, 45049, 749, 21965, 2355, 3437, 12344, 23631, 20407, 39647,
      12059, 47916, 8912, 17991, 47355, 3976, 12620, 42286, 12517, 6210, 13616, 32809, 16881, 23459,
      9347, 43010, 10667, 24634, 39517, 6027, 3699, 35566, 8652, 19997, 1329, 34860, 14034, 45060,
      18543, 21553, 47197, 39292, 5125, 1571, 35662, 39184, 15698, 29143, 27655, 19549, 41639, 39048,
      29503, 28544, 40982, 24038, 18458, 28325, 39955, 37639, 49559, 24718, 35188, 48495, 34143, 41883,
      30384, 34015, 20809, 46694, 11850, 8449, 14624, 34819, 15542, 2202, 3477, 37186, 24671, 8265,
      27546, 15628, 25843, 36862, 12049, 201, 21044, 40323, 695, 13776, 43793, 1428, 16868, 47073,
      8551, 3733, 41298, 32166, 28250, 41290, 14213, 13002, 36156, 29839, 31344, 10719, 17691, 15264,
      35355, 36810, 6019, 9891, 44591, 18417, 39623, 2450, 37757, 1504, 3768, 39533, 28788, 6990,
      43477, 41226, 21218, 11804, 22119, 32340, 36886, 32717, 32992, 18757, 11758, 4129, 17872, 11021,
      43775, 3527, 36568, 766, 31735, 17187, 49849, 37472, 31136, 24910, 15213, 37802, 38246, 6294,
      10870, 44557, 48854, 23589, 325, 29879, 14687, 23191, 7595, 3689, 33292, 33554, 17445, 36189,
      28864, 34619, 33823, 37990, 11186, 41, 5831, 22214, 24678, 10158, 44125, 5108, 19597, 41260,
      47998, 6595, 42969, 26274, 8229, 20249, 34676, 27830, 19307, 11612, 45314, 41931, 29144, 19343,
      45854, 23688, 25317, 46671, 27581, 44378, 21320, 40568, 9760, 30318, 26576, 11233, 23230, 49974,
      18929, 19112, 42836, 14328, 16485, 37600, 11995, 47538, 22768, 16913, 36459, 8414, 10019, 49171,
      19209, 14371, 40871, 37456, 11675, 22296, 49429, 18327, 10573, 2720, 31045, 10162, 5955, 12912,
      18563, 11728, 35958, 31731, 16189, 43996, 31780, 43399, 43531, 19612, 27855, 33588, 32639, 24623,
      44626, 31052, 36831, 37514, 31682, 6084, 15763, 35965, 11716, 39629, 6952, 49792, 17251, 18831,
      43659, 34893, 9690, 29358, 27246, 37917, 20804, 19117, 44534, 2844, 47567, 13043, 36139, 36475,
      48974, 44546, 35949, 49668, 34454, 11540, 11520, 48186, 24392, 42032, 19903, 829, 28564, 7808,
      20925, 18364, 21037, 185, 21280, 49906, 5546, 19562, 26076, 23390, 24737, 21561, 22676, 24008,
      28598, 22755, 4574, 43317, 14491, 48934, 14533, 39712, 3960, 33049, 29621, 31019, 35717, 35372,
      20962, 24083, 20905, 11621, 37725, 49927, 13141, 28429, 12189, 10392, 37142, 12056, 26686, 44115,
      393, 22148, 42096, 47294, 49880, 38554, 27182, 867, 24834, 11144, 433, 44120, 47668, 27866,
      16737, 14689, 8365, 40956, 604, 14048, 43722, 2774, 37949, 5029, 37020, 42869, 31397, 25706,
      9680, 21337, 47930, 3571, 8452, 24638, 23054, 19918, 18208, 47900, 9989, 36233, 40085, 43600,
      32303, 18500, 17423, 28526, 46589, 30163, 38434, 6185, 29154, 18041, 45744, 21715, 25831, 36662,
      3859, 15412, 3958, 20319, 10282, 24866, 30147, 39242, 540, 33773, 1749, 25165, 36194, 45673,
      7483, 44575, 26135, 10841, 42445, 6664, 13134, 48540, 10301, 37302, 38581, 17171, 41272, 2313,
      22307, 32558, 16265, 975, 23359, 30752, 14900, 12953, 44185, 22410, 5119, 7818, 18140, 40311,
      18008, 34738, 15346, 4948, 41068, 2632, 360, 30539, 29916, 36915, 19228, 20126, 49574, 8550,
      15793, 31305, 20415, 38349, 17525, 43294, 42379, 39561, 7039, 17111, 9373, 33679, 47804, 3896,
      28028, 5909, 15626, 20381, 123, 17789, 41737, 44863, 16770, 31441, 27008, 21094, 43165, 14460,
      10494, 11855, 46255, 6096, 1768, 32344, 10219, 37929, 38284, 47070, 1452, 47457, 43572, 27871,
      21283, 9942, 40650, 9092, 45833, 48164, 11961, 2806, 2681, 12927, 23358, 48833, 34342, 27102,
      39849, 3314, 23717, 35966, 16945, 12882, 10563, 20978, 8396, 49757, 28588, 40459, 20497, 23084,
      46583, 26447, 9292, 15773, 135, 6077, 24222, 12652, 28789, 11996, 5856, 24336, 2944, 29837,
      22446, 27944, 35753, 5465, 32119, 10224, 27470, 22696, 15941, 46449, 37254, 35028, 12433, 26622,
      3237, 26635, 23492, 48516, 45099, 31031, 34981, 17711, 36546, 47963, 13712, 14574, 16747, 49943,
      18913, 15105, 24522, 23565, 23033, 14410, 26847, 44491, 40831, 17461, 31309, 46078, 12018, 32169,
      22241, 12685, 6061, 11399, 21344, 49405, 11423, 31666, 45945, 18534, 49863, 35687, 28521, 45680,
      33494, 37673, 11486, 5887, 17917, 1517, 10297, 11971, 14538, 7177, 2380, 1236, 35394, 33429,
      34475, 28105, 35653, 45924, 8796, 28725, 571, 5404, 7765, 48088, 9133, 47074, 23362, 13217,
      25461, 23973, 38455, 24453, 41165, 42496, 36779, 31582, 22977, 49510, 31934, 3724, 26134, 25,
      41958, 42751, 22828, 21734, 18382, 24218, 1365, 23807, 16582, 47933, 3204, 41500, 32863, 41816,
      4442, 14094, 45014, 35444, 34762, 29465, 32144, 15237, 13346, 19350, 14391, 2065, 48894, 13678,
      25489, 1858, 5061, 49780, 18243, 16893, 21331, 26461, 4975, 17875, 7639, 17415, 13437, 35930,
      49162, 29224, 32655, 2792, 44475, 10897, 5207, 35045, 11299, 29030, 19081, 12726, 26093, 23375,
      4651, 14047, 25908, 37843, 15131, 16579, 29126, 6624, 42732, 30214, 34809, 15817, 7712, 37928,
      34360, 1017, 855, 41300, 15963, 42578, 9412, 5719, 17286, 33938, 6501, 8192, 8633, 15104,
      16897, 23743, 40332, 17986, 15759, 37512, 41904, 48089, 26887, 37075, 29346, 19885, 26930, 22036,
      8443, 23282, 19299, 43077, 33308, 10614, 21930, 3718, 5888, 42894, 33019, 41744, 48490, 10114,
      4412, 45299, 24848, 44468, 24886, 41224, 30703, 44657, 34646, 35899, 11184, 8455, 25701, 49945,
      15584, 18022, 17481, 28867, 13018, 40438, 37319, 39566, 26436, 2794, 22537, 29471, 28355, 38604,
      29737, 44209, 21184, 7719, 18867, 22481, 43675, 12897, 29120, 41386, 34993, 49176, 3821, 17448,
      21152, 12822, 33317, 7088, 29210, 9239, 41713, 32224, 49237, 40362, 12667, 40053, 49448, 31924,
      27762, 36312, 37435, 39671, 31109, 35014, 4309, 37489, 19290, 38139, 27551, 25677, 2646, 12202,
      32079, 20835, 26979, 37963, 24591, 34100, 6421, 25499, 20990, 14103, 40451, 4661, 13513, 31446,
      30153, 12578, 19674, 15604, 21157, 49764, 23136, 41771, 38545, 18791, 20098, 31172, 47230, 41217,
      12359, 3846, 22679, 13540, 35118, 9631, 16712, 20555, 37473, 26080, 15299, 19402, 41317, 47162,
      25269, 27668, 37669, 32731, 3261, 12526, 29848, 34794, 37127, 40842, 32803, 37093, 47697, 40493,
      3867, 28377, 27261, 20543, 6023, 42004, 40554, 32763, 15040, 11091, 40717, 48581, 43948, 13472,
      24804, 1602, 15062, 19717, 44061, 45823, 36297, 7591, 29659, 7506, 21262, 19319, 48424, 24203,
      40192, 37483, 32802, 22987, 9213, 31079, 31229, 29534, 42516, 22638, 8727, 15749, 14932, 1535,
      49076, 21524, 27715, 39066, 6307, 13803, 14028, 26297, 3652, 18813, 22724, 48007, 48557, 3647,
      34873, 39940, 3215, 16622, 6255, 47955, 10815, 42022, 9526, 26098, 48997, 21147, 32511, 5714,
      26420, 49001, 28003, 7313, 29341, 44242, 41851, 45560, 28237, 16525, 31056, 27288, 47866, 4053,
      43371, 48182, 43523, 20957, 25181, 48340, 47188, 5101, 28604, 46853, 44416, 13901, 16903, 30086,
      5924, 41023, 8430, 245, 29911, 5483, 5324, 37527, 2364, 4307, 47340, 42723, 8800, 11731,
      29590, 31742, 37090, 39331, 27982, 13145, 30035, 18797, 13811, 37012, 5277, 24549, 707, 16047,
      27681, 23585, 14527, 39776, 1578, 28672, 27235, 20181, 2524, 59, 11067, 1419, 10597, 16151,
      7260, 36645, 10769, 16321, 42219, 21903, 925, 1362, 29023, 40891, 46118, 43140, 19980, 16717,
      39010, 42420, 20147, 27234, 44767, 33003, 19270, 26843, 28505, 18254, 46296, 3575, 17550, 22920,
      28163, 22275, 25844, 33153, 48385, 30457, 2144, 2167, 17803, 49458, 32989, 34034, 45126, 15058,
      15354, 46995, 45006, 27929, 39681, 21200, 16327, 30422, 46383, 44911, 20498, 2205, 32110, 43200,
      31298, 49092, 25323, 30434, 16017, 29705, 10076, 42743, 45070, 45346, 22805, 11943, 13520, 12766,
      25947, 48058, 33208, 16973, 28516, 44474, 23044, 17589, 29042, 6677, 1479, 12328, 31338, 561,
      32268, 1522, 39805, 26346, 33630, 6446, 30138, 44887, 4290, 26340, 14351, 28524, 32189, 45365,
      22660, 28015, 12550, 22579, 19311, 33587, 26446, 23223, 34569, 4591, 13761, 43831, 14530, 49598,
      24926, 16970, 40416, 6621, 915, 972, 19427, 37324, 30969, 118, 10548, 12801, 22881, 20656,
      976, 49603, 6728, 39983, 17753, 2423, 4407, 1689, 3411, 3133, 1187, 16944, 39252, 26127,
      19083, 1144, 19803, 13635, 36202, 16383, 25137, 47493, 48711, 47773, 12587, 36031, 41156, 23655,
      49972, 46252, 37914, 39146, 39210, 22797, 46086, 4723, 15063, 9231, 26709, 41836, 39596, 47974,
      11526, 28553, 29152, 15692, 48329, 9361, 15855, 25402, 11200, 15218, 3717, 31811, 17528, 46111,
      33084, 21014, 20751, 1158, 26824, 20778, 33603, 39183, 43292, 39772, 13853, 9494, 32739, 48729,
      6331, 29004, 8456, 24122, 26488, 10948, 20266, 47447, 3920, 33246, 15820, 29525, 1867, 3872,
      46992, 11298, 21191, 15383, 30312, 3680, 31137, 15730, 46761, 32701, 20556, 11651, 23987, 8506,
      17424, 42123, 44519, 36799, 18936, 15405, 29400, 26605, 49838, 5318, 27966, 43792, 34967, 16013,
      2660, 32570, 36570, 4205, 41372, 25452, 44184, 19439, 27469, 33068, 21414, 35214, 15844, 12565,
      44687, 24794, 38509, 16509, 30983, 3728, 47287, 2966, 12132, 39526, 14809, 32928, 40089, 30333,
      14975, 14661, 24515, 32054, 29114, 743, 42715, 16439, 33105, 11400, 16434, 13031, 807, 39767,
      30702, 22290, 11702, 39802, 6516, 33409, 15495, 7290, 11307, 16515, 8041, 21780, 13071, 5868,
      32949, 25776, 44279, 7021, 20325, 20753, 15478, 95, 6279, 9796, 37351, 12934, 29478, 33920,
      7617, 44126, 49455, 16756, 21663, 16161, 1268, 34345, 5725, 17346, 36286, 3094, 42893, 12952,
      32689, 48748, 8988, 44734, 19940, 23192, 25871, 47675, 35077, 43662, 25647, 15900, 23742, 11012,
      30454, 6103, 41822, 32864, 35679, 49075, 31437, 14332, 41596, 16215, 46423, 26825, 49653, 39015,
      4874, 32669, 8828, 8810, 19005, 8645, 27842, 28971, 27033, 35668, 15891, 1085, 42232, 38354,
      38538, 44017, 33514, 30280, 14477, 3582, 43019, 33426, 25337, 15687, 3295, 46782, 20785, 10502,
      34740, 2403, 15548, 22093, 42179, 7300, 9070, 8126, 46509, 5835, 21830, 18493, 17170, 9069,
      4786, 46445, 19329, 27575, 410, 49079, 12091, 22933, 33145, 14230, 17606, 41332, 18573, 41362,
      14679, 46269, 2816, 24425, 13049, 16074, 40041, 34237, 41356, 24960, 32498, 11443, 24257, 46029,
      20793, 37143, 39831, 26481, 4585, 48678, 448, 22268, 48394, 14587, 39386, 45249, 8977, 4417,
      25118, 14418, 8965, 48900, 25423, 21408, 46986, 4041, 37153, 12741, 18038, 49272, 30227, 23266,
      39245, 26248, 40969, 25771, 19191, 39354, 10558, 19923, 23594, 10511, 12621, 19436, 34271, 12715,
      47010, 16319, 44937, 14024, 45686, 19215, 35673, 22916, 29342, 48517, 36544, 16217, 35526, 4516,
      44307, 18631, 10101, 11913, 22741, 1135, 42495, 34477, 34945, 41410, 33955, 47091, 33217, 24717,
      22875, 4714, 43658, 39510, 13846, 10790, 44609, 12415, 48335, 9909, 8788, 19084, 26455, 48185,
      9934, 47269, 43220, 39228, 24552, 31268, 27124, 40029, 7482, 22392, 11752, 49971, 15776, 16129,
      14066, 47865, 38263, 27678, 8092, 8251, 6306, 1948, 30332, 19133, 47726, 5447, 6028, 42905,
      35900, 2458, 48878, 24044, 33334, 47173, 37147, 36172, 40350, 21601, 22474, 45492, 42419, 2415,
      9463, 49346, 32432, 8861, 1733, 23830, 38228, 35885, 43690, 40995, 32142, 49134, 10206, 21064,
      17103, 4536, 9043, 18656, 18530, 17565, 13719, 6236, 14656, 47798, 43938, 28115, 1543, 39984,
      610, 7946, 5723, 6518, 4553, 5351, 33685, 38926, 643, 43863, 2161, 3205, 44257, 49883,
      28649, 5389, 20703, 7858, 25059, 5333, 29812, 13553, 8294, 31631, 43751, 49683, 24533, 13132,
      2321, 6545, 36243, 33852, 5088, 23007, 28478, 24967, 6270, 44079, 12543, 42373, 16110, 30629,
      10691, 36131, 21179, 37104, 42617, 34277, 46941, 29272, 20327, 29160, 40881, 46821, 11659, 8401,
      16097, 22749, 39262, 16744, 41877, 35242, 19294, 39047, 32794, 33144, 2199, 39602, 45641, 22789,
      21462, 7087, 22013, 15221, 4139, 11697, 13449, 10505, 12747, 48380, 7944, 49369, 40959, 40512,
      28383, 42258, 46805, 37200, 46285, 39247, 37547, 1069, 23011, 23140, 17906, 41842, 44196, 25221,
      42689, 42372, 42890, 18566, 41366, 13102, 30180, 13740, 43700, 41708, 12836, 13183, 4172, 16008,
      21921, 47236, 44223, 41965, 34132, 19134, 27021, 19759, 43319, 11142, 24916, 34339, 34846, 25226,
      11018, 18165, 17499, 22028, 34479, 9148, 33462, 31093, 40370, 20660, 38481, 15829, 8235, 22282,
      38569, 32798, 14965, 22165, 42793, 19059, 48569, 39528, 40393, 5442, 33095, 1760, 40693, 37881,
      23233, 26291, 15473, 37747, 14888, 22501, 11274, 19944, 11630, 44365, 23440, 45030, 1159, 11782,
      47459, 45556, 49663, 12295, 26356, 26392, 6622, 49965, 8064, 33499, 18836, 32950, 28689, 4038,
      4863, 49624, 4719, 7471, 18915, 46231, 26002, 20889, 3032, 46802, 41532, 41461, 18, 5473,
      26087, 35793, 43956, 2235, 30509, 22100, 2599, 29220, 36745, 31000, 45593, 14136, 24682, 21540,
      19298, 7702, 47039, 40131, 24287, 38180, 41463, 25439, 41759, 11406, 41178, 48374, 16385, 44164,
      6444, 7329, 25346, 22073, 1477, 44388, 35992, 37642, 26018, 10834, 20408, 973, 38602, 10621,
      7018, 39286, 11822, 35834, 36108, 30852, 18132, 31549, 42477, 30929, 32619, 23069, 22854, 44521,
      36646, 34776, 48451, 30526, 14204, 22609, 43460, 37021, 42126, 41534, 65, 27220, 2315, 26078,
      12078, 49119, 6170, 7877, 43592, 45704, 24752, 31, 24462, 4013, 41008, 14694, 25271, 36551,
      13785, 17231, 22850, 37597, 7093, 17404, 16553, 1533, 44443, 28094, 16867, 34041, 8626, 15857,
      17091, 2712, 20721, 43899, 39810, 38363, 46900, 29418, 8945, 19560, 15645, 17613, 30066, 40766,
      44389, 44752, 577, 29295, 42023, 26188, 35915, 6667, 42461, 4914, 13372, 7899, 3947, 39883,
      46590, 49282, 34497, 20653, 7529, 39717, 18958, 7661, 1624, 39639, 27782, 30450, 31613, 44513,
      37618, 10540, 28520, 42800, 27698, 31311, 3540, 25366, 9756, 8691, 17960, 8075, 28414, 39844,
      8527, 237, 33590, 34702, 43440, 46397, 16593, 47256, 34233, 32436, 49532, 42522, 46469, 14593,
      12752, 41108, 2112, 16080, 28491, 23740, 20035, 4390, 48067, 45545, 27596, 14887, 3479, 18539,
      7458, 42414, 32226, 14227, 10438, 42181, 45933, 19999, 2003, 45384, 27431, 41303, 10242, 12072,
      13213, 9136, 32073, 48121, 46043, 12264, 40308, 46981, 38728, 39728, 1156, 37535, 9895, 33235,
      6192, 41126, 2248, 8740, 29587, 5562, 21258, 42328, 22593, 15852, 16415, 47201, 22429, 26277,
      11876, 47964, 18538, 8287, 29604, 17341, 21151, 7670, 22452, 4731, 20702, 994, 46168, 35291,
      45294, 4600, 17454, 45383, 3817, 37568, 44082, 22127, 16816, 7658, 31432, 41550, 24402, 26169,
      23674, 11092, 41982, 26379, 31025, 38584, 49462, 26871, 46980, 31058, 31927, 48689, 48076, 29870,
      29766, 22545, 30030, 14991, 17379, 19772, 3310, 47416, 43217, 22961, 46890, 21513, 12375, 23267,
      8160, 26551, 44494, 20474, 28975, 11830, 14739, 22383, 5709, 47919, 1241, 36567, 24691, 37569,
      31805, 46727, 23373, 2565, 18882, 34639, 35655, 12920, 5502, 8182, 5995, 47779, 26097, 29530,
      27641, 9182, 34134, 38527, 32489, 33104, 1199, 12944, 47890, 9437, 40165, 45784, 1692, 36403,
      49368, 1709, 14451, 3708, 40114, 20247, 37232, 18265, 41291, 25187, 43529, 4435, 45982, 43073,
      48457, 14823, 28639, 23005, 43212, 36573, 17992, 39366, 34823, 39865, 33610, 6345, 9013, 19399,
      15658, 34224, 3151, 2988, 19724, 20974, 2689, 45608, 45470, 38159, 16952, 32509, 114, 36146,
      23860, 9529, 15409, 18864, 23618, 13892, 22592, 35140, 7023, 32183, 48725, 29581, 30464, 21913,
      11606, 30886, 40960, 2997, 37645, 18018, 35324, 25579, 45892, 12870, 9356, 14800, 31054, 24061,
      15098, 599, 15969, 40098, 20055, 40068, 552, 48755, 43734, 5234, 34208, 31939, 13264, 42114,
      11193, 15095, 32472, 45138, 32045, 42782, 25997, 26486, 12531, 9888, 6144, 838, 39786, 40382,
      27020, 16533, 5243, 13432, 32359, 415, 42467, 10418, 15948, 23258, 39482, 26602, 32877, 6486,
      2162, 16687, 13872, 8611, 11385, 8330, 8431, 31062, 7655, 39119, 1432, 26604, 10615, 32553,
      33057, 34999, 37962, 26099, 20299, 29607, 6510, 43979, 8907, 37108, 4572, 11160, 5177, 27262,
      10466, 9977, 1963, 41747, 42201, 5446, 17469, 6674, 39324, 31545, 11459, 29382, 21703, 29602,
      19784, 8955, 27397, 4271, 41598, 17038, 29955, 48488, 1702, 33792, 18229, 15399, 38464, 38825,
      13219, 8703, 25513, 9554, 39640, 9454, 42694, 48068, 2212, 24730, 17694, 8104, 2964, 44418,
      28663, 10469, 27541, 47629, 14448, 4089, 40567, 9922, 45159, 24248, 45900, 14010, 31693, 43434,
      10294, 34272, 16506, 7675, 16444, 37719, 43787, 2556, 5962, 24, 2451, 26322, 26626, 41060,
      43878, 22378, 27758, 43826, 49278, 9131, 20200, 13162, 40763, 13110, 6141, 10040, 19852, 47988,
      8882, 1389, 13818, 29251, 18545, 7307, 20301, 33600, 40721, 47275, 38936, 38189, 42303, 46998,
      16222, 12174, 39730, 300, 45631, 17133, 32134, 45506, 25888, 41061, 17762, 21290, 24546, 6781,
      17578, 11811, 18713, 39845, 18096, 22246, 14906, 6751, 22064, 28947, 46470, 29091, 44728, 41536,
      3490, 35451, 3078, 48281, 36064, 3209, 27933, 17637, 28199, 7466, 18947, 30003, 35470, 17592,
      25862, 439, 20276, 30173, 37803, 10316, 30351, 32550, 21977, 6891, 28914, 42135, 35615, 12190,
      16803, 6774, 44882, 68, 13175, 687, 31012, 24457, 41403, 49457, 16192, 42730, 45130, 15440,
      30353, 7312, 19186, 17057, 27924, 4279, 18803, 20030, 10864, 15378, 11582, 49811, 6497, 34098,
      34977, 22994, 1096, 1982, 14089, 13187, 4310, 45495, 29753, 31871, 46258, 35423, 7966, 12215,
      11624, 37596, 16857, 6798, 9140, 15786, 37895, 43887, 13821, 21285, 10826, 14760, 28634, 28260,
      38895, 28037, 17361, 4803, 27781, 40289, 36541, 44742, 47195, 34376, 23119, 4701, 45231, 8149,
      25437, 38233, 49902, 46997, 48325, 27536, 11853, 18637, 36764, 34166, 31997, 34506, 17283, 48897,
      10148, 41379, 7376, 8280, 3801, 37837, 34730, 49662, 27670, 49491, 5614, 34190, 28196, 40403,
      18031, 45985, 25898, 31776, 10049, 16677, 31804, 33450, 47731, 17225, 37238, 36457, 16722, 17557,
      22544, 33705, 35826, 6423, 19875, 15508, 36582, 39351, 7547, 44566, 20749, 3730, 46311, 24969,
      3458, 23281, 13060, 43414, 48548, 12227, 39750, 46400, 46764, 26571, 47015, 45518, 46597, 15244,
      23425, 48580, 5896, 3520, 47984, 25996, 42881, 49741, 9906, 40984, 42342, 46815, 29039, 28774,
      28721, 1488, 14423, 35575, 18011, 11140, 28512, 18429, 49163, 20332, 31299, 24140, 41324, 43859,
      8187, 4779, 44152, 31321, 30941, 13010, 16302, 27607, 11287, 16960, 41955, 25629, 3667, 25233,
      41465, 46873, 44032, 32114, 35594, 19379, 1646, 1744, 43204, 17879, 40072, 35456, 2177, 12222,
      1835, 19636, 17063, 48238, 24245, 22976, 48171, 35951, 21864, 44176, 32462, 35786, 46561, 33950,
      44706, 2438, 34288, 35639, 26236, 6203, 817, 17785, 19061, 23174, 23089, 11063, 32987, 2392,
      32531, 48174, 13037, 14468, 4373, 14078, 36974, 32, 5728, 48048, 8100, 3576, 42312, 39028,
      18877, 42651, 31254, 40012, 43958, 7717, 19180, 20995, 6030, 43138, 33770, 72, 9594, 1461,
      32219, 49829, 41645, 19369, 34692, 13408, 10340, 20257, 11369, 1325, 48392, 45189, 41211, 18632,
      4453, 33720, 25839, 35583, 27321, 47949, 8361, 13138, 31608, 2500, 45139, 2793, 25760, 38221,
      40813, 31261, 30320, 46459, 40280, 12137, 19004, 8089, 16283, 5797, 28402, 38745, 35727, 10372,
      43310, 18021, 12717, 46669, 1821, 21017, 35960, 21150, 8774, 22026, 38752, 37159, 47129, 24558,
      3497, 19752, 19109, 8956, 28288, 22505, 9326, 33677, 41340, 27793, 21986, 33034, 10104, 6220,
      21470, 26710, 757, 7806, 14797, 42113, 10105, 15655, 9622, 18993, 45533, 6338, 47942, 6905,
      45226, 11071, 32011, 42034, 10249, 42300, 24153, 28401, 48452, 15939, 27839, 27330, 12670, 3572,
      41390, 48400, 40592, 36898, 39175, 33929, 13570, 37325, 10620, 29056, 27341, 4487, 9262, 43862,
      35742, 13446, 21464, 28502, 42235, 32478, 30559, 711, 30511, 17108, 38122, 30706, 1865, 9310,
      11774, 6733, 19818, 47122, 20960, 4462, 44538, 38531, 921, 47991, 4328, 35260, 5059, 49520,
      7073, 44964, 34720, 42627, 41845, 580, 9924, 11354, 30469, 38970, 27022, 9923, 14793, 10144,
      46215, 22027, 13235, 42639, 23641, 31384, 25875, 44720, 32202, 32022, 14967, 35005, 3672, 26196,
      20776, 40504, 4882, 24616, 637, 12704, 29404, 20606, 30132, 8736, 16955, 20122, 45136, 44408,
      1258, 47466, 16240, 22899, 18374, 48152, 5063, 25158, 27276, 49276, 8465, 41161, 40827, 5900,
      11776, 7562, 46363, 26202, 40886, 47655, 49571, 42341, 2040, 26767, 3171, 48983, 25407, 45301,
      31783, 42827, 33228, 41275, 13992, 25381, 37562, 26534, 34606, 37542, 5846, 31353, 44987, 40962,
      10910, 15643, 9835, 38435, 34287, 3887, 1460, 5087, 41262, 32505, 6652, 43216, 44704, 14753,
      46896, 21141, 29423, 1694, 14959, 49128, 26836, 17332, 25213, 6544, 33802, 4005, 46739, 49279,
      34602, 2675, 7935, 15094, 16556, 45036, 7770, 18621, 34244, 41731, 37426, 22951, 43450, 21759,
      7832, 4353, 4930, 8423, 5721, 18811, 47398, 38821, 26839, 41905, 15921, 27322, 49359, 29099,
      14312, 17966, 5009, 11967, 33128, 45741, 12170, 24790, 14850, 24992, 5839, 45916, 46649, 48642,
      22552, 6490, 15293, 2416, 33277, 43951, 35023, 27725, 26835, 21961, 18696, 4517, 20752, 23531,
      42697, 44134, 36530, 18436, 21511, 45210, 1438, 24219, 46931, 15915, 15090, 36594, 39276, 25813,
      8103, 30335, 21226, 41148, 40924, 39006, 23603, 38095, 22124, 21866, 4094, 33048, 43550, 23168,
      16588, 26766, 28775, 38235, 47959, 26298, 44421, 3531, 49808, 17465, 17913, 41745, 15580, 30604,
      35322, 9462, 35916, 47035, 35438, 5111, 5340, 24254, 18116, 14762, 6930, 36817, 7139, 6973,
      30241, 36685, 14503, 48100, 39910, 24416, 32296, 12794, 20278, 24788, 29816, 33960, 1354, 14038,
      49203, 4934, 8046, 34316, 17842, 43498, 27247, 9684, 26023, 12345, 13508, 11135, 47334, 48032,
      15110, 1567, 24305, 36318, 37969, 15586, 31179, 43259, 11266, 7288, 16983, 23506, 24991, 31192,
      27930, 5999, 15766, 39554, 11712, 7216, 31789, 49796, 42152, 9659, 25302, 5792, 47081, 2301,
      12643, 27574, 27035, 47702, 9442, 42665, 49057, 16763, 36374, 36217, 20334, 27199, 34616, 18779,
      32399, 4124, 46579, 22536, 22435, 20893, 9119, 21294, 44809, 8428, 15026, 14985, 17923, 14619,
      26809, 47712, 20766, 16783, 27240, 48411, 30290, 23439, 47222, 13378, 49803, 2503, 24443, 11817,
      45502, 9770, 25967, 35872, 12252, 44315, 11038, 29433, 25992, 14461, 41245, 17870, 12542, 42339,
      13679, 43545, 26468, 28642, 33994, 14785, 45399, 9869, 7541, 9203, 21755, 34813, 36688, 20891,
      31246, 23663, 2422, 9537, 49371, 467, 1688, 14059, 47185, 35261, 3312, 32838, 44310, 46695,
      49816, 19428, 11352, 42440, 27120, 13856, 7782, 8623, 27053, 29233, 1169, 693, 16791, 24809,
      14309, 27106, 38774, 34835, 38849, 10674, 31955, 46221, 39467, 35945, 16076, 28465, 46623, 22298,
      31808, 47317, 4354, 25321, 16561, 8195, 15344, 34756, 14316, 49887, 10187, 41944, 413, 295,
      20199, 5828, 31774, 49202, 30569, 16119, 39359, 46253, 43050, 27112, 3892, 2134, 26272, 5244,
      39888, 46466, 35728, 36337, 13106, 8576, 28859, 5885, 38896, 12382, 43809, 22769, 42, 5376,
      11493, 19954, 24033, 38105, 8289, 4049, 36479, 16223, 25371, 46351, 46112, 45153, 36482, 5811,
      33260, 47108, 20742, 41522, 32889, 15840, 36944, 420, 38372, 35269, 7958, 46476, 2474, 1217,
      20887, 28317, 49801, 20526, 20682, 10947, 47299, 40838, 35570, 9197, 2640, 16546, 26301, 43443,
      42238, 8764, 38348, 87, 27768, 37110, 11565, 22141, 14253, 18319, 30884, 10654, 37992, 27437,
      15060, 30819, 25443, 31157, 18732, 38004, 16628, 10015, 38071, 32313, 43586, 27601, 41577, 28817,
      2483, 2938, 37801, 25223, 40710, 47864, 48624, 36983, 10760, 27244, 10909, 32627, 17710, 19693,
      42150, 22799, 8349, 14951, 37249, 12872, 42519, 27478, 8654, 36335, 31361, 23102, 41548, 48217,
      7621, 31274, 40019, 49813, 14811, 45020, 4074, 36577, 37847, 43316, 46227, 5918, 4356, 27312,
      381, 33801, 34589, 46046, 48208, 34733, 2381, 47163, 15918, 15677, 1648, 36760, 41428, 41197,
      48827, 11417, 38979, 16494, 5743, 35069, 45382, 34213, 32121, 6678, 6097, 44119, 40550, 5305,
      25433, 40217, 5617, 11152, 26445, 19202, 35368, 24966, 13510, 31239, 17916, 31177, 27881, 12396,
      6448, 9734, 24030, 49655, 21305, 1979, 11255, 13155, 11848, 33374, 49253, 10847, 16411, 16855,
      15437, 35573, 17409, 445, 3323, 38988, 19667, 6959, 26693, 17230, 33060, 27780, 30300, 5849,
      2922, 35403, 17603, 12247, 4527, 32276, 27394, 12552, 27979, 41058, 13079, 39672, 29639, 33830,
      26022, 21941, 46587, 999, 41724, 39715, 8444, 30641, 23354, 44124, 10895, 22970, 41066, 30996,
      38316, 23694, 6846, 37615, 24400, 20069, 49082, 14727, 25575, 27264, 39463, 41098, 131, 31202,
      43342, 23557, 2728, 15552, 17238, 13195, 26570, 37339, 22184, 33221, 9729, 48757, 14161, 9710,
      36827, 44250, 35998, 19266, 24359, 29946, 23371, 8826, 10939, 34390, 17970, 29466, 39176, 28395,
      18506, 24511, 30608, 5830, 32586, 6507, 16500, 46673, 46993, 35223, 22217, 9883, 32964, 31835,
      42710, 25645, 2066, 1071, 7076, 23731, 30493, 39926, 43920, 41442, 21624, 43660, 9958, 23828,
      21614, 20881, 19844, 38085, 3878, 24617, 29784, 38295, 16249, 17507, 13768, 2223, 35382, 31282,
      79, 47863, 41922, 10777, 26408, 4626, 49660, 38026, 16083, 3372, 28707, 11985, 26597, 31275,
      422, 23611, 20762, 34251, 44088, 6303, 33304, 20328, 26807, 36612, 44588, 1151, 1556, 33676,
      22097, 33791, 43552, 9278, 19377, 15076, 44553, 4166, 26578, 47393, 16786, 34984, 42168, 29355,
      15535, 39688, 23117, 27973, 21458, 34164, 9297, 39972, 44093, 16024, 28668, 24265, 5272, 43199,
      34802, 12939, 30945, 28688, 10862, 40556, 3405, 13181, 25412, 13042, 46228, 32608, 47429, 15007,
      11914, 24182, 7749, 34863, 41129, 16543, 2470, 7163, 43547, 7014, 8951, 4743, 7101, 13509,
      26104, 17705, 10961, 43308, 37751, 9325, 25493, 37635, 39493, 12876, 40628, 24295, 20105, 40339,
      12523, 25972, 13809, 4154, 17219, 3898, 19521, 10052, 26315, 41273, 24232, 16708, 44026, 47555,
      22836, 34038, 4192, 49720, 46002, 891, 26802, 9515, 11301, 20577, 17216, 33661, 13603, 16771,
      25614, 1358, 5131, 46309, 41699, 42688, 28140, 45433, 21078, 20830, 449, 5364, 18857, 4539,
      44268, 19472, 42921, 49047, 20329, 37184, 47546, 3376, 9636, 14234, 31941, 2753, 28950, 49349,
      26897, 11134, 19897, 1910, 19631, 15077, 19823, 12028, 1663, 24369, 46446, 14297, 11377, 33473,
      7735, 24198, 39806, 28792, 3742, 44634, 12084, 44977, 6092, 21661, 39153, 29135, 21552, 3090,
      20709, 47260, 2506, 17604, 18089, 15196, 21815, 15436, 25052, 40269, 45828, 20967, 47951, 45075,
      34968, 11304, 13562, 10025, 47003, 37106, 1112, 16937, 5112, 46261, 10486, 9352, 2945, 9458,
      48074, 11328, 30211, 48543, 40181, 40028, 14548, 41352, 27868, 18369, 49769, 13423, 39411, 29269,
      42702, 9368, 2872, 35745, 37720, 21814, 45726, 45695, 6349, 38845, 44957, 18815, 16130, 25319,
      21554, 36100, 25367, 37665, 49786, 33393, 39412, 20115, 19332, 4441, 19064, 13300, 19450, 46752,
      47995, 6729, 35947, 44919, 20270, 49774, 36988, 29485, 2699, 22300, 5458, 14082, 32993, 8301,
      22791, 17886, 10321, 45529, 19178, 5983, 27015, 14726, 31578, 7413, 16143, 32879, 27260, 15285,
      39925, 5380, 21863, 29997, 19410, 33867, 14923, 18225, 3484, 11408, 33438, 3415, 45898, 35914,
      169, 3034, 23560, 34478, 31681, 29481, 40314, 42873, 44132, 35311, 38045, 37737, 11447, 27410,
      18839, 21192, 11145, 48420, 29851, 47571, 25358, 8709, 28913, 45333, 35095, 9483, 32047, 22568,
      7048, 25688, 9754, 14937, 20236, 46927, 49551, 42170, 5171, 11008, 30885, 18032, 41021, 7874,
      19074, 17651, 792, 25664, 39038, 6827, 27071, 24357, 1933, 27277, 17584, 3669, 1333, 1244,
      31236, 1776, 41050, 4629, 24893, 25293, 26667, 29858, 23684, 36043, 33149, 7319, 38222, 48307,
      9868, 38038, 477, 13457, 9819, 42360, 16057, 28014, 49670, 23999, 3824, 8198, 8039, 21615,
      26638, 45266, 47918, 46814, 30085, 41177, 3569, 36338, 9950, 22699, 11075, 43296, 888, 7649,
      35973, 7551, 46028, 28896, 47477, 31300, 12417, 3143, 35844, 3325, 6283, 40335, 21655, 18065,
      15667, 36650, 33326, 45029, 44753, 31558, 1854, 23693, 49765, 45733, 46641, 36825, 4333, 12930,
      4601, 12813, 45901, 45463, 18630, 11945, 33311, 31792, 48276, 37444, 49695, 10819, 37783, 16919,
      10607, 12455, 7084, 26472, 823, 17580, 47464, 17328, 25397, 37922, 38795, 22065, 13487, 30029,
      16782, 17661, 32089, 13003, 34089, 605, 48338, 9217, 3870, 17635, 6577, 34459, 34388, 1264,
      29559, 3024, 36481, 20615, 32795, 42226, 25733, 4366, 3476, 6376, 14999, 24355, 18201, 35207,
      14248, 6932, 28963, 41232, 44463, 45789, 48456, 37835, 41561, 48672, 19010, 19322, 25063, 34603,
      34537, 19629, 46460, 42554, 48602, 25041, 17536, 38760, 36381, 47424, 20287, 28936, 26547, 18518,
      20739, 38395, 40209, 7622, 45850, 13448, 19952, 41599, 23461, 45386, 16512, 12873, 31286, 40799,
      16289, 43072, 12282, 5717, 38617, 16081, 2669, 30566, 20113, 27977, 47767, 46508, 4838, 45441,
      6125, 27256, 32020, 19691, 20748, 32259, 26804, 5151, 47552, 41151, 16775, 44030, 38683, 16202,
      35090, 41480, 47051, 42260, 34124, 19571, 44449, 3487, 6732, 47679, 38666, 4073, 32407, 41082,
      24832, 28704, 6242, 45042, 5833, 28984, 37689, 41057, 22437, 37670, 12775, 2846, 31856, 3331,
      40593, 9605, 2783, 5615, 49364, 24085, 48029, 21760, 29692, 25602, 49712, 37554, 48118, 8598,
      38605, 26190, 20614, 7019, 43105, 15839, 45864, 15340, 6452, 32818, 31758, 1579, 23653, 19352,
      32632, 14795, 36771, 15544, 43394, 25061, 17788, 40684, 20917, 19514, 48884, 45932, 40980, 18075,
      29814, 28223, 49345, 41409, 41406, 658, 45798, 24619, 40281, 35587, 43287, 20396, 28558, 36238,
      19050, 20114, 23010, 49951, 42649, 31369, 40052, 41892, 14569, 5943, 22310, 41897, 6094, 40859,
      41387, 18212, 15380, 32974, 35067, 21883, 46172, 31217, 44712, 38027, 4081, 36633, 43197, 49648,
      49537, 8464, 41562, 10952, 22555, 25038, 44377, 30023, 42249, 35522, 41659, 41074, 21803, 39363,
      36205, 17504, 24450, 11796, 30684, 24852, 14962, 34222, 19575, 40611, 37368, 9050, 39573, 1222,
      5902, 36398, 11230, 8766, 2154, 49976, 7259, 18682, 27744, 35692, 37357, 45980, 27444, 37256,
      16496, 13383, 21551, 30162, 34320, 5691, 26108, 26290, 12442, 27409, 205, 46510, 24642, 9983,
      44285, 3538, 958, 46442, 15923, 16689, 31445, 47822, 43758, 5518, 45532, 6800, 25622, 36340,
      16762, 13317, 45773, 23758, 8109, 45973, 2339, 29372, 12401, 37501, 9332, 46085, 28794, 14364,
      48838, 8117, 31415, 20429, 43882, 45245, 8167, 32600, 12089, 8066, 45010, 26240, 24437, 1476,
      47136, 11628, 13105, 15162, 33897, 50, 19984, 49961, 29379, 38112, 27028, 20782, 23797, 31449,
      43935, 8916, 21142, 40232, 27381, 8689, 33854, 46059, 20501, 21788, 9218, 26694, 10977, 43011,
      25099, 18258, 12631, 46447, 25823, 9012, 4260, 5027, 40723, 20193, 14620, 15993, 37982, 37943,
      9360, 39330, 41695, 29024, 13646, 9157, 1223, 3625, 3360, 40202, 15365, 35190, 43986, 17314,
      23636, 23031, 16910, 11201, 16146, 14305, 982, 5023, 24930, 39333, 24507, 4752, 49471, 41040,
      25282, 26040, 19947, 44116, 31676, 21849, 15231, 21242, 414, 24133, 4671, 46962, 48059, 16433,
      14242, 42871, 28925, 46502, 44407, 23055, 36987, 9586, 8411, 33337, 14919, 2860, 23485, 40183,
      12321, 38680, 48989, 28274, 11643, 49497, 9338, 19920, 45263, 26245, 7660, 48391, 18991, 14498,
      5948, 49933, 44465, 9543, 10349, 38382, 30083, 44187, 30847, 41859, 22135, 43728, 33712, 42778,
      1989, 35681, 21653, 13212, 48888, 2439, 20461, 31170, 19763, 777, 27358, 8172, 30808, 31410,
      11409, 3934, 45449, 18423, 18744, 10731, 26521, 34116, 32063, 48864, 8657, 31665, 5015, 17684,
      23053, 8799, 20359, 41629, 42987, 33193, 42667, 2452, 7398, 11479, 4318, 3364, 27946, 36677,
      48450, 24159, 40876, 29767, 33490, 9445, 29476, 35623, 32256, 19605, 15907, 16361, 38972, 3061,
      6123, 46032, 9623, 34357, 11251, 21415, 36195, 28155, 23896, 31317, 17927, 45124, 13442, 43970,
      21269, 31885, 12176, 47593, 31719, 37033, 24067, 21506, 6015, 21106, 6647, 36401, 40291, 28645,
      27729, 17401, 30609, 6590, 28830, 21170, 10140, 9602, 12919, 3975, 33887, 38701, 23733, 46636,
      9179, 30856, 40389, 36705, 9780, 16025, 1178, 48438, 28766, 35430, 36905, 26352, 42465, 5837,
      17829, 7108, 42622, 33053, 24371, 40159, 49935, 24500, 17852, 38368, 29778, 48099, 46141, 3048,
      700, 41172, 29810, 26439, 31478, 2067, 44549, 16012, 48794, 17676, 22277, 5919, 17540, 47377,
      39138, 4691, 3283, 23550, 2919, 45259, 17068, 43594, 11084, 22735, 34909, 39846, 27702, 21021,
      17388, 23139, 8954, 22354, 5230, 44053, 20405, 30723, 10934, 30804, 22863, 23412, 39069, 44401,
      46496, 42375, 9495, 7593, 18866, 25532, 7082, 1373, 37070, 33194, 19435, 45705, 339, 42885,
      29429, 46280, 29473, 33491, 8833, 10978, 38270, 27549, 129, 24977, 33301, 5350, 49244, 4789,
      32398, 3194, 31016, 26243, 17169, 44248, 14396, 36262, 13149, 34003, 41506, 29394, 25600, 16665,
      2502, 22869, 32750, 9820, 33922, 9457, 33443, 19, 38037, 35805, 23729, 1643, 16277, 42844,
      19987, 15990, 2827, 24942, 16128, 32158, 18640, 13068, 30486, 31107, 7115, 27525, 48579, 42527,
      3800, 6900, 44330, 24343, 7894, 31739, 11273, 44066, 24890, 1983, 49339, 10348, 25656, 8849,
      48674, 33519, 10273, 36555, 40274, 29515, 37433, 12835, 22539, 36496, 23108, 39283, 8594, 11844,
      42269, 22842, 12864, 31862, 47213, 32815, 14718, 37337, 15784, 26520, 29488, 19673, 49223, 22343,
      14767, 21139, 6499, 42781, 8752, 21207, 30657, 2446, 49643, 35295, 48751, 48532, 43510, 33556,
      49225, 28357, 11123, 17597, 19929, 7160, 18883, 8098, 10108, 25348, 15636, 37539, 32743, 12606,
      7127, 17422, 24315, 1735, 35784, 18939, 46632, 14952, 7389, 48141, 43173, 40605, 47496, 13368,
      26720, 45217, 45400, 33736, 8548, 40918, 17338, 18079, 45731, 43028, 17978, 28832, 44149, 28695,
      10872, 46225, 17426, 34953, 46159, 34718, 1783, 32830, 38629, 45161, 36280, 31795, 5462, 5852,
      16308, 3665, 48946, 35514, 34394, 2271, 28949, 15873, 40892, 38622, 8967, 47524, 24657, 37168,
      37541, 14012, 49990, 23908, 26141, 34461, 29190, 12393, 3449, 5892, 39270, 43499, 47713, 21587,
      16225, 7141, 20910, 17934, 33181, 31066, 25028, 15691, 14862, 41309, 12777, 45690, 7796, 45768,
      20681, 26090, 36327, 41222, 21705, 36603, 17907, 35534, 46313, 45830, 43740, 44860, 49810, 2118,
      19981, 14071, 1130, 39124, 17800, 22233, 17945, 5397, 11719, 5441, 32046, 31040, 11723, 24668,
      27571, 22003, 47871, 5620, 31952, 37651, 15064, 1238, 6659, 6109, 40134, 36106, 15583, 41655,
      41155, 25534, 49530, 49905, 12416, 36680, 6967, 35455, 37047, 41622, 12303, 16457, 15303, 8001,
      22032, 6076, 39731, 27949, 21325, 38570, 9560, 32628, 6243, 15324, 42296, 27992, 10960, 34466,
      5616, 30011, 30078, 42290, 13495, 24512, 37362, 2749, 6105, 27185, 24119, 2802, 48440, 43372,
      42707, 14878, 21107, 25906, 21471, 36933, 17654, 1104, 35299, 21236, 26267, 31748, 26204, 38502,
      15015, 24298, 34327, 37557, 33700, 10404, 36769, 49885, 14333, 34974, 41936, 30284, 15600, 43528,
      23216, 46788, 25784, 32406, 37162, 25666, 19504, 38777, 2674, 36149, 21383, 45378, 27190, 42718,
      14834, 34577, 2636, 58, 33241, 38971, 32311, 40395, 46864, 15333, 39668, 21747, 12559, 9740,
      40590, 47788, 1293, 21873, 16373, 31241, 39496, 35160, 5166, 22721, 14030, 43713, 43844, 33050,
      25333, 39512, 15494, 25157, 5279, 44884, 40802, 33087, 49488, 5250, 17044, 18001, 16011, 7017,
      14980, 26504, 11330, 27803, 32573, 1002, 13349, 26234, 30273, 47307, 41318, 10145, 9917, 42851,
      35614, 14323, 44309, 38620, 9047, 45699, 4682, 11386, 5933, 2953, 37370, 30025, 23340, 47212,
      26886, 16285, 8291, 28213, 30848, 21053, 23843, 27041, 37813, 23118, 26418, 8129, 653, 39599,
      35091, 21009, 16148, 36758, 24798, 3545, 14096, 17097, 43772, 41207, 10473, 22516, 2821, 18405,
      14088, 27188, 2164, 5280, 18940, 38915, 28183, 28029, 19728, 39494, 36753, 32103, 17137, 2163,
      47181, 1250, 10918, 8818, 40338, 4983, 32977, 16139, 28330, 21872, 48792, 40489, 3656, 1561,
      22293, 41698, 31130, 5091, 42211, 48487, 6966, 39853, 26761, 25277, 48092, 21314, 36351, 37549,
      13385, 16632, 38436, 3999, 36330, 29610, 37985, 49379, 43262, 13601, 2589, 34662, 6298, 13227,
      47018, 42017, 4721, 16066, 458, 12767, 2555, 29442, 43680, 49568, 11089, 21950, 4389, 15489,
      2553, 32150, 20223, 10120, 32490, 9864, 44312, 3857, 46969, 24125, 19861, 1010, 5363, 1505,
      45340, 24952, 22695, 42102, 45510, 934, 19283, 38267, 41849, 32277, 23581, 49104, 34111, 24935,
      33542, 44544, 17013, 14860, 25535, 3086, 19338, 30340, 32486, 10246, 32708, 22981, 43959, 23100,
      17748, 30995, 28894, 40211, 2504, 31828, 21148, 40532, 8389, 25744, 24970, 39992, 20099, 28184,
      49350, 23088, 16560, 23659, 31147, 2234, 12355, 21536, 38012, 43034, 36806, 43255, 40237, 24883,
      5769, 19701, 20547, 35787, 22068, 20130, 26255, 10666, 1327, 6613, 24180, 30635, 3276, 34979,
      15720, 8083, 26675, 500, 39436, 2335, 39299, 42683, 11465, 9886, 5475, 12925, 16652, 518,
      32151, 7159, 38315, 6360, 43637, 26583, 2358, 22407, 31280, 6654, 46581, 19843, 47120, 4965,
      39009, 37566, 17594, 11371, 13073, 33853, 8495, 6218, 25236, 40176, 33143, 47415, 49876, 15634,
      1769, 26283, 21260, 16137, 39921, 7626, 47855, 35782, 1499, 38009, 27835, 46094, 21264, 21302,
      33944, 31423, 45624, 40333, 37510, 28500, 37508, 34593, 39204, 15648, 160, 29178, 22061, 22150,
      26563, 2995, 28368, 35680, 33166, 34786, 46464, 27371, 29974, 40246, 35130, 20455, 10306, 12943,
      24723, 14877, 36369, 41271, 46854, 27799, 36973, 15903, 25469, 39941, 45112, 44148, 43870, 32780,
      30289, 9907, 366, 31087, 18910, 37912, 44915, 38488, 5203, 28658, 41847, 45371, 31495, 5095,
      18072, 13708, 39280, 20998, 12125, 23533, 37727, 2665, 45654, 16925, 40837, 31253, 30694, 10215,
      164, 42456, 1852, 43965, 47422, 16120, 10663, 7862, 4787, 23471, 16638, 26925, 36344, 25878,
      4474, 8261, 10611, 12279, 12572, 40629, 33701, 4355, 28887, 41521, 11687, 24283, 47314, 36507,
      16238, 15263, 22315, 43893, 15554, 11066, 8262, 33805, 21859, 27280, 22380, 36171, 4415, 3247,
      48923, 15136, 43530, 19684, 17336, 36384, 41646, 5000, 44469, 47589, 23915, 47376, 37262, 43778,
      28413, 27273, 26862, 13778, 8685, 47715, 14990, 9039, 13636, 16208, 23035, 14609, 11170, 48109,
      21831, 42093, 28842, 6506, 37243, 8366, 25909, 23232, 17096, 45363, 3936, 10176, 2804, 8043,
      12703, 3046, 33959, 48111, 7077, 22459, 28570, 17335, 8728, 39448, 14801, 32076, 43912, 33236,
      13012, 26558, 22483, 15846, 4257, 45490, 47092, 29146, 1310, 44527, 5054, 22289, 3251, 14281,
      39268, 48341, 28123, 35850, 12057, 36961, 18371, 32548, 48248, 1473, 8758, 39508, 21196, 10401,
      19213, 23707, 23395, 45779, 31543, 13955, 8699, 42153, 29533, 48596, 26261, 3526, 46563, 10027,
      18260, 17245, 14618, 46194, 47427, 21651, 10782, 12134, 14984, 44454, 24215, 22308, 17167, 2596,
      32568, 35701, 4797, 13414, 20872, 13336, 16761, 16741, 34810, 48242, 8724, 14685, 32094, 33368,
      7504, 10426, 20449, 14319, 10384, 184, 4352, 48590, 23528, 36844, 22448, 24194, 15154, 43032,
      45349, 48004, 25138, 25189, 2427, 36488, 35293, 46179, 46753, 21307, 47274, 17211, 23438, 14708,
      30362, 5385, 43257, 35880, 36569, 33964, 18669, 6473, 25912, 13690, 32881, 472, 35538, 4681,
      29798, 34889, 35874, 36887, 10357, 10119, 20511, 33616, 5049, 44031, 1528, 15819, 24956, 3773,
      29696, 19141, 19919, 2025, 16519, 29713, 14735, 35404, 20320, 41603, 35704, 12937, 7116, 8102,
      31139, 36095, 33952, 26663, 44343, 42483, 39226, 3006, 40954, 6566, 47892, 11480, 38997, 425,
      14751, 49072, 21652, 29954, 4693, 5316, 23194, 38291, 16490, 6856, 7015, 45568, 4111, 37152,
      24605, 28234, 25091, 4799, 37697, 13582, 44350, 44113, 47008, 45769, 45202, 8700, 49217, 3123,
      10590, 42787, 32646, 9305, 7693, 24949, 49342, 43836, 16312, 38991, 30498, 37862, 17659, 35336,
      45140, 9901, 26038, 42809, 38957, 47545, 27484, 10757, 49114, 9054, 10041, 28892, 47484, 36019,
      26296, 9364, 39156, 26975, 20551, 46797, 4132, 15752, 16950, 25357, 31752, 13494, 39379, 29040,
      44596, 5381, 5315, 12420, 32664, 28531, 47808, 47502, 42798, 47244, 9431, 15827, 15782, 26219,
      18179, 6834, 30716, 17441, 10156, 2629, 7699, 30473, 26543, 49406, 4522, 16829, 34169, 37869,
      28833, 35408, 2543, 21007, 10467, 38204, 24996, 40602, 16668, 36984, 15942, 33766, 39594, 21404,
      35641, 31909, 7169, 29354, 12198, 28410, 17384, 29945, 30261, 27821, 23583, 4533, 19491, 12942,
      30067, 23914, 20976, 23424, 9748, 27967, 8469, 17809, 21810, 30237, 2379, 17545, 111, 14008,
      24726, 23708, 9388, 28893, 3546, 4403, 7393, 30690, 34142, 35122, 22542, 25040, 8347, 5702,
      7120, 23404, 27383, 371, 36161, 6259, 15562, 38733, 5942, 29654, 38227, 44266, 25755, 17032,
      38323, 7334, 28640, 47488, 24491, 41868, 38510, 40498, 10431, 3651, 23795, 3684, 32294, 19542,
      29513, 34588, 13788, 37682, 6903, 7532, 40045, 23703, 25405, 34370, 21537, 27354, 14372, 41660,
      40594, 33086, 36442, 48379, 9461, 9840, 7121, 38571, 7464, 47970, 22205, 43409, 40661, 24252,
      29536, 39545, 15930, 45546, 32852, 10498, 19796, 3851, 28514, 16746, 30982, 22426, 31511, 45664,
      33168, 15589, 27459, 44560, 23507, 1320, 42399, 41052, 18330, 44056, 37240, 17527, 8486, 551,
      7276, 20860, 31129, 24974, 48949, 32917, 37878, 94, 24009, 34763, 36693, 33682, 45325, 14846,
      37994, 39564, 22743, 14393, 594, 10633, 46827, 37774, 40934, 35253, 11548, 43536, 22576, 41539,
      19163, 38812, 4901, 18383, 36743, 21529, 44294, 21952, 34735, 48326, 1634, 35632, 31509, 23786,
      38671, 26193, 27894, 9671, 46744, 17310, 26074, 28750, 35515, 30399, 35564, 13621, 32188, 17716,
      5149, 15115, 19650, 19072, 18098, 41533, 37074, 44269, 33295, 13065, 20239, 17562, 24506, 23902,
      14241, 16007, 29361, 24892, 27426, 15053, 2818, 38802, 33718, 5362, 35375, 41580, 6385, 37209,
      15169, 42816, 46822, 33844, 13246, 18318, 22640, 28305, 29032, 37328, 29191, 48079, 31318, 1965,
      987, 18409, 25176, 9357, 38600, 32615, 27521, 4963, 43291, 21635, 39894, 32309, 30632, 2928,
      15496, 41778, 30412, 30358, 48920, 46961, 31381, 45986, 20529, 40579, 44422, 34361, 26777, 4383,
      47277, 17084, 31839, 7443, 11885, 14306, 38539, 25890, 26998, 17142, 39817, 6598, 49995, 40424,
      32806, 36600, 21658, 7203, 19278, 45244, 28946, 9245, 44681, 4856, 8698, 19359, 17408, 7572,
      28030, 11078, 15654, 30416, 20724, 10472, 41231, 8496, 34469, 18477, 40241, 9178, 48485, 31786,
      20517, 16636, 511, 24091, 22152, 3333, 47512, 36409, 24789, 28543, 38143, 25444, 33518, 6074,
      40674, 49182, 19054, 6940, 12901, 33170, 24236, 17849, 38962, 7222, 4697, 21881, 305, 35768,
      5378, 15582, 8573, 25511, 49155, 28432, 40817, 24940, 662, 33471, 28981, 527, 41960, 48910,
      8631, 20165, 41195, 24064, 32004, 40627, 49610, 21527, 45071, 39461, 17610, 903, 7588, 44286,
      14329, 15414, 13881, 45005, 41020, 39394, 6389, 24550, 9652, 41538, 9106, 37926, 16015, 1532,
      35059, 15657, 9449, 23021, 47229, 43014, 13888, 24575, 9678, 15410, 48515, 18366, 24661, 3685,
      11202, 37169, 13421, 27299, 49412, 11564, 33521, 31644, 8142, 8644, 4063, 46487, 43777, 31018,
      43635, 19727, 18822, 44607, 34837, 30194, 17579, 21608, 25654, 11341, 2175, 44332, 8816, 15510,
      13111, 14425, 19934, 15065, 35610, 4521, 6402, 17738, 37515, 40016, 42612, 47175, 1099, 9664,
      14717, 20, 25010, 46837, 15715, 48454, 11748, 45792, 43009, 47526, 46115, 6443, 36061, 8163,
      35812, 14255, 47253, 34633, 12699, 10908, 40421, 25093, 44351, 5007, 19523, 14002, 28349, 24583,
      32243, 20439, 14642, 33550, 21134, 45487, 19708, 7883, 31622, 22631, 8722, 27617, 36179, 20852,
      3107, 7925, 45482, 24555, 26269, 35889, 14755, 40794, 11481, 12225, 30802, 23979, 27075, 1300,
      3521, 43030, 20209, 35342, 6500, 33115, 37314, 44578, 16388, 21984, 42020, 18249, 20473, 9711,
      41092, 17884, 19615, 48937, 37828, 1064, 25382, 38344, 29815, 45870, 31913, 7333, 6106, 9963,
      14507, 14847, 33100, 20373, 3692, 6866, 36158, 48844, 7814, 17464, 6734, 4288, 20291, 40506,
      24514, 26875, 6787, 24329, 5631, 32095, 41204, 46948, 23798, 32521, 46206, 24440, 6321, 30549,
      34451, 18584, 39550, 36514, 1110, 24073, 8526, 9034, 8382, 22107, 30008, 36847, 23634, 33444,
      12046, 15976, 17166, 42361, 26631, 42558, 38945, 49027, 35841, 36780, 39762, 183, 9511, 49734,
      39889, 21311, 35604, 43991, 45803, 34723, 35123, 28255, 23504, 44446, 533, 3830, 35510, 22525,
      12985, 41404, 36347, 26173, 23827, 25842, 47987, 20673, 21731, 49440, 44922, 22144, 8027, 3992,
      35970, 13523, 40101, 17950, 9102, 33913, 40236, 15729, 27222, 28106, 34312, 35181, 15668, 3881,
      10796, 4511, 19561, 10991, 36308, 17665, 8284, 43036, 25727, 21971, 26044, 22757, 14432, 9321,
      27158, 4642, 6320, 41565, 36756, 12318, 36144, 27293, 3599, 40304, 36090, 32683, 43566, 34555,
      17745, 3307, 26539, 7282, 30161, 48332, 48612, 20298, 12644, 2407, 48098, 37834, 18728, 5891,
      26883, 22131, 44902, 36094, 28562, 21574, 1810, 18761, 46020, 19179, 41310, 32925, 4076, 8380,
      3577, 6209, 9335, 40466, 32939, 6114, 33939, 20773, 41761, 15377, 29164, 9859, 37191, 40976,
      13394, 44186, 37790, 18953, 3206, 5630, 36030, 41244, 7245, 32735, 32145, 16882, 4112, 22455,
      29656, 20683, 24080, 43139, 25874, 36425, 35776, 15472, 35588, 22218, 43476, 16772, 49522, 34353,
      34094, 29057, 27215, 22212, 31984, 27257, 4959, 12647, 17223, 30222, 5765, 34189, 23814, 9966,
      15624, 43946, 6641, 18946, 46281, 10002, 44640, 16442, 36356, 23397, 47194, 38404, 28793, 25107,
      8131, 39185, 47180, 24767, 18548, 46100, 9438, 36957, 32725, 5028, 14101, 6818, 39547, 49198,
      42919, 32286, 26465, 45910, 17062, 2542, 40569, 47664, 23621, 44934, 47160, 22276, 24365, 15675,
      21685, 12020, 20096, 28874, 33447, 37993, 34120, 3902, 18588, 7061, 9236, 28730, 22189, 42299,
      18901, 26008, 7810, 22940, 40327, 39697, 38276, 19755, 16204, 4367, 19644, 23301, 23901, 11467,
      8990, 28548, 26863, 18168, 41086, 22145, 26437, 11640, 548, 29376, 45696, 17787, 11952, 37818,
      16575, 9319, 33716, 38682, 29236, 29202, 22253, 47740, 16820, 21277, 5008, 33216, 20943, 4297,
      39034, 48604, 47441, 13055, 38181, 7535, 39769, 36115, 33895, 46236, 1799, 37523, 2387, 19418,
      37631, 14322, 20106, 13207, 31500, 6066, 3512, 47682, 11633, 30102, 28539, 25743, 7816, 19014,
      20672, 6695, 45098, 45888, 26913, 2263, 7802, 31753, 41861, 36497, 3260, 29289, 27385, 17229,
      8273, 3871, 39253, 1774, 47172, 14051, 2840, 31949, 41084, 38121, 35383, 8369, 26993, 24805,
      22502, 1511, 31695, 37492, 22242, 36858, 18118, 15376, 48785, 13698, 27825, 48012, 23405, 48321,
      42756, 20191, 40369, 25190, 37395, 22209, 18281, 2303, 49879, 47071, 27494, 11148, 36177, 39875,
      21784, 9669, 46406, 17234, 24667, 2822, 20010, 2246, 20051, 46543, 16220, 11223, 6086, 25173,
      42763, 25801, 1711, 13850, 716, 24175, 35533, 18448, 1369, 1404, 35865, 39304, 4329, 45165,
      42493, 7867, 12979, 47088, 19195, 39680, 46120, 21230, 3657, 47641, 17402, 24241, 24408, 21032,
      8981, 5969, 46325, 36388, 14479, 28088, 2268, 3392, 42521, 11432, 17077, 24680, 18675, 3087,
      38254, 27086, 32267, 46385, 34645, 34297, 1286, 15059, 38906, 41735, 38574, 5538, 17215, 49837,
      39804, 49750, 32362, 22564, 34404, 17754, 46836, 39862, 7501, 9566, 43715, 20522, 42583, 5452,
      704, 14205, 43538, 27463, 48176, 7425, 20765, 25301, 35258, 23564, 40549, 34744, 31922, 46453,
      3549, 1766, 41295, 39293, 41044, 30580, 21291, 37740, 39473, 21548, 13200, 46110, 26568, 49056,
      43847, 43676, 11424, 30917, 29743, 25835, 35629, 30484, 27107, 10375, 25185, 6437, 25741, 27097,
      9665, 18975, 18510, 27326, 40670, 25587, 19336, 18472, 981, 12069, 36025, 5267, 45668, 25822,
      17184, 31661, 46102, 9675, 34147, 45885, 45795, 41996, 22333, 24914, 34549, 42253, 13566, 4866,
      22841, 35200, 40836, 32368, 38205, 17903, 43819, 42171, 47255, 25462, 6584, 35985, 7666, 40442,
      23696, 7188, 28389, 796, 31633, 46964, 42780, 38300, 27685, 26324, 15389, 29684, 39432, 39025,
      16258, 42645, 21706, 26, 19483, 17177, 19355, 17093, 10248, 5700, 41911, 13536, 40655, 4942,
      36223, 12464, 22838, 18615, 15055, 43340, 17974, 15828, 44890, 6472, 37076, 43898, 5526, 17976,
      30832, 1082, 20758, 30183, 35989, 18687, 30201, 19930, 37427, 10596, 6512, 12787, 37889, 47979,
      48436, 35481, 22540, 11143, 3959, 18288, 24644, 43228, 434, 36684, 49500, 25370, 2203, 19829,
      42553, 30041, 6962, 8701, 20151, 47278, 46149, 8753, 27597, 37216, 15174, 11103, 25710, 39130,
      44807, 21762, 39277, 3238, 31559, 7240, 17316, 30668, 27272, 42071, 48766, 11877, 19868, 44659,
      13644, 36852, 38643, 34136, 12210, 30806, 34315, 21649, 39765, 15991, 10712, 7066, 18269, 8545,
      38993, 44854, 1935, 28582, 4899, 10662, 3447, 36053, 33953, 39893, 19405, 42421, 45061, 22595,
      27140, 15402, 30394, 4595, 19362, 41485, 12194, 26714, 25507, 37902, 5142, 15513, 31276, 13347,
      3811, 13123, 2291, 44352, 3603, 13286, 43645, 16040, 1659, 3793, 29022, 17226, 2977, 23792,
      12218, 12274, 24288, 29175, 22751, 19447, 151, 9191, 48168, 41511, 49963, 19017, 11755, 11412,
      6004, 41867, 8159, 48648, 46534, 16212, 27476, 39827, 39215, 32782, 35560, 36566, 27503, 22025,
      45121, 5922, 32400, 47266, 20875, 43341, 26265, 24451, 33948, 6337, 33293, 42619, 2606, 11050,
      39077, 22123, 6414, 7038, 5, 16126, 19547, 40278, 5413, 440, 37806, 45370, 48947, 36000,
      36742, 1938, 9117, 18909, 4870, 22467, 48887, 7975, 17269, 42108, 27460, 28290, 7704, 16891,
      48297, 5069, 27603, 23606, 9408, 24643, 39855, 16449, 49208, 24647, 48667, 29281, 7664, 13119,
      47300, 46138, 33064, 41649, 6457, 14245, 15005, 44978, 27219, 48597, 7181, 24430, 12907, 8302,
      21330, 30593, 25465, 48605, 33523, 3534, 13727, 8384, 22873, 4454, 36740, 25721, 17765, 37937,
      2613, 22560, 41344, 9953, 28522, 17959, 41483, 34351, 49917, 1617, 14219, 12121, 9522, 43544,
      32333, 28988, 24005, 17693, 21442, 26250, 18702, 405, 16603, 4123, 34192, 37150, 8756, 2037,
      24331, 1022, 41103, 7434, 10885, 37014, 16650, 29389, 34119, 40008, 27724, 42635, 38442, 32080,
      41946, 13305, 1263, 8539, 19968, 17435, 21146, 40779, 37491, 47130, 47835, 10845, 395, 16488,
      36075, 9260, 49404, 32099, 25168, 8938, 8950, 43020, 43820, 31133, 48684, 49985, 28475, 26868,
      30193, 17279, 42693, 4250, 12196, 1225, 6408, 21662, 4754, 41180, 6955, 45256, 8619, 40290,
      42434, 43582, 4860, 15442, 47876, 41166, 12165, 41400, 22650, 31514, 29255, 42587, 10419, 32019,
      15467, 45271, 9466, 14568, 18433, 18292, 26284, 20471, 28004, 16489, 24086, 26451, 35556, 13093,
      17564, 17878, 16445, 14557, 44275, 21806, 28069, 36807, 34227, 26580, 21742, 22758, 5967, 34954,
      45100, 10995, 33220, 24687, 23913, 26162, 31335, 3889, 10866, 16980, 29427, 36970, 11055, 5639,
      4849, 3299, 64, 49742, 17932, 13672, 19416, 30755, 34862, 48670, 6182, 15591, 12661, 3856,
      20843, 10223, 39155, 18213, 45483, 39170, 14258, 22222, 15453, 10437, 17868, 15816, 23765, 38866,
      13696, 16462, 21555, 10110, 46845, 16943, 38376, 26251, 28646, 42227, 10440, 9616, 25339, 8660,
      27, 38681, 10967, 20531, 17189, 44686, 10534, 26129, 23235, 36805, 35354, 27313, 43491, 14239,
      42569, 42394, 45274, 5302, 15797, 29527, 14776, 22787, 41956, 46751, 39583, 45192, 29393, 7750,
      10047, 5349, 43827, 36023, 21004, 3454, 362, 39780, 48886, 10753, 13338, 35092, 11167, 15802,
      36080, 43511, 21825, 20557, 41393, 23418, 38046, 21725, 29612, 9808, 16160, 32322, 49893, 1128,
      22, 37877, 33262, 36181, 40720, 11576, 20886, 3980, 15457, 10774, 18547, 44399, 19280, 27408,
      31817, 5310, 14515, 2925, 7450, 25451, 3195, 33055, 47887, 28605, 8050, 4369, 7248, 11213,
      13189, 41137, 20621, 29790, 41030, 26427, 27032, 42566, 39909, 794, 11937, 21219, 27378, 40848,
      6661, 16693, 15225, 11692, 42459, 3042, 27201, 17427, 14604, 9487, 26252, 44228, 7386, 18228,
      48458, 24464, 20434, 21409, 11573, 31340, 11553, 7331, 5271, 33043, 19076, 47098, 6611, 40887,
      30543, 35843, 44456, 42841, 42039, 25130, 34654, 6829, 44677, 34923, 4176, 18620, 2853, 16108,
      14035, 25156, 10346, 16352, 26367, 35568, 10236, 40083, 35221, 28670, 4314, 15051, 18006, 8076,
      41951, 42012, 22266, 43136, 3515, 46809, 28390, 5767, 45306, 29805, 32788, 44171, 21770, 44075,
      11346, 34640, 37330, 21832, 2682, 37781, 3055, 41402, 863, 12582, 33639, 9404, 37919, 42767,
      22480, 6928, 2466, 20600, 25702, 23487, 5375, 20014, 1439, 18095, 13222, 21173, 43889, 39116,
      35667, 25046, 40454, 35797, 32500, 20641, 13665, 46605, 38534, 27009, 23466, 11977, 34890, 2673,
      28484, 29613, 31036, 23489, 49684, 49430, 47990, 19995, 39899, 40319, 48547, 23450, 337, 47749,
      20388, 1942, 27068, 1913, 13898, 8915, 7771, 23401, 21682, 23645, 33902, 34609, 32539, 16417,
      23221, 43665, 1076, 29006, 29811, 5399, 14263, 39179, 16267, 38457, 33357, 39969, 8271, 43631,
      7897, 3199, 41551, 14863, 49407, 27482, 41690, 3324, 26279, 10196, 30924, 3743, 37671, 48519,
      27387, 42999, 28779, 27157, 29665, 39368, 19911, 7440, 29751, 11231, 44927, 997, 24760, 18676,
      25774, 7176, 2124, 22043, 36744, 17116, 10169, 21580, 27407, 36531, 32847, 4561, 18715, 20890,
      11025, 32695, 12683, 29756, 303, 20542, 25459, 41626, 6617, 25167, 23218, 16167, 49303, 14037,
      14974, 46353, 6177, 39137, 30496, 30649, 5400, 42528, 29605, 27153, 15195, 106, 48539, 3404,
      16102, 30215, 37666, 37978, 43182, 6387, 41929, 19455, 35744, 34296, 21348, 30692, 17349, 9854,
      33223, 43008, 23437, 47430, 29742, 45, 9286, 38761, 27289, 15304, 40607, 19441, 1778, 9910,
      23924, 3646, 33268, 12211, 16557, 7865, 42843, 34866, 24911, 10216, 17910, 18240, 13580, 16995,
      8052, 10857, 44167, 43707, 9387, 24220, 18414, 271, 19325, 36820, 28489, 21087, 44630, 16473,
      3736, 40513, 12502, 639, 17946, 37602, 17105, 22007, 32675, 1080, 22058, 41714, 35523, 3212,
      46293, 21494, 15330, 45721, 28440, 45358, 12439, 11464, 5965, 11584, 47952, 8254, 43976, 39980,
      1019, 4096, 45897, 34333, 38582, 7711, 32577, 26924, 6792, 27640, 46052, 48726, 7111, 29722,
      41169, 15779, 31848, 36913, 2395, 23660, 37816, 38917, 39841, 26107, 1780, 7463, 26014, 35447,
      23546, 19056, 48479, 2631, 16738, 42438, 28342, 3591, 39729, 20289, 42597, 48214, 8584, 886,
      9416, 23476, 19192, 2056, 49523, 28176, 18688, 21309, 36818, 49625, 20011, 39667, 48222, 641,
      25475, 5361, 4427, 18280, 45012, 4606, 4429, 42124, 21801, 3774, 17743, 27892, 16600, 47709,
      42677, 11587, 44211, 38947, 13054, 20605, 43730, 20138, 34383, 26898, 36741, 22244, 38336, 44450,
      37263, 34818, 43911, 15203, 48161, 48712, 43644, 34329, 44697, 9815, 29049, 48780, 17156, 26673,
      33097, 10524, 36365, 394, 14662, 21509, 38503, 5004, 19047, 8831, 16101, 38742, 42699, 18413,
      33431, 2057, 40133, 39904, 13775, 49512, 40704, 23946, 49427, 40740, 49646, 6560, 16878, 25322,
      18226, 40937, 45655, 4098, 48964, 40509, 1218, 18672, 1408, 20654, 33741, 11217, 24537, 8204,
      45796, 47818, 16720, 36446, 5681, 13715, 24346, 3201, 31971, 8212, 24021, 4889, 33362, 32210,
      28715, 8108, 2473, 22733, 48274, 44340, 1922, 32250, 17443, 26918, 31668, 4841, 24281, 24855,
      11785, 30383, 28000, 31510, 37906, 25350, 2076, 46707, 20514, 6007, 44651, 17601, 30614, 23211,
      33729, 30921, 46545, 34722, 22705, 6055, 11218, 30121, 1740, 42263, 9814, 28204, 20545, 17729,
      16447, 30482, 12460, 15683, 27002, 25936, 37476, 15245, 46749, 10402, 40686, 3192, 17522, 1454,
      35421, 9492, 44406, 25208, 8253, 43500, 8097, 29888, 3098, 46171, 42148, 25968, 6822, 633,
      31283, 26499, 6961, 12262, 46262, 2940, 40015, 27430, 33800, 47801, 14988, 12906, 35191, 37959,
      42907, 49446, 236, 29541, 29520, 23813, 20553, 15911, 8599, 39720, 26199, 26171, 37252, 38693,
      9745, 24524, 2882, 19589, 41888, 41891, 41488, 41575, 36048, 17326, 17769, 13973, 15861, 34063,
      16350, 46791, 9088, 19726, 39698, 25255, 40256, 17881, 37875, 17131, 22106, 42993, 27915, 41006,
      590, 37177, 32177, 36996, 11881, 6569, 27740, 40366, 7965, 42829, 35904, 15977, 25685, 23940,
      41236, 22187, 31094, 9695, 4316, 4674, 14639, 26598, 8968, 9982, 38193, 21066, 11183, 8266,
      16876, 21683, 11517, 42001, 13880, 824, 8747, 3275, 17996, 29531, 1753, 43737, 14325, 30810,
      42089, 28006, 46925, 4876, 6608, 5423, 45566, 11859, 40533, 23996, 35024, 34512, 16254, 20561,
      21246, 31820, 16042, 26398, 868, 38183, 38361, 23985, 26118, 8078, 29989, 43337, 3280, 49061,
      28525, 47982, 38781, 7140, 13429, 13697, 41184, 36292, 25594, 47066, 48120, 25838, 5079, 35326,
      45224, 1773, 43795, 19798, 40107, 38302, 8520, 9481, 23490, 4473, 34129, 17472, 42264, 43067,
      15748, 7274, 39334, 2016, 1607, 36373, 17942, 37372, 11588, 15660, 31346, 40124, 45716, 43963,
      5443, 32899, 49873, 4643, 38806, 497, 28190, 10528, 3664, 30104, 7433, 28924, 42159, 19207,
      9395, 48891, 32360, 10518, 21423, 38739, 26549, 23925, 763, 2389, 30636, 48790, 31440, 6840,
      34721, 13587, 34617, 27631, 7835, 4820, 21050, 8507, 20504, 6412, 9759, 47014, 14817, 31876,
      43575, 16005, 42298, 15, 21249, 31746, 22796, 3952, 33077, 27956, 40198, 17533, 35285, 28080,
      20617, 2128, 10139, 31145, 722, 45489, 33879, 36355, 17333, 24474, 33405, 24824, 18790, 23130,
      8888, 46898, 26365, 2228, 41191, 21996, 48484, 27609, 7878, 32576, 16038, 36978, 48927, 26467,
      46209, 7377, 2010, 43988, 27690, 10190, 35335, 38086, 30823, 1902, 48589, 24102, 36527, 16347,
      28767, 6047, 18996, 35725, 19310, 42568, 41394, 6907, 9751, 45019, 12312, 18130, 9114, 28457,
      944, 31481, 27399, 43620, 27579, 6984, 42927, 28214, 8062, 43349, 40136, 26058, 8559, 32911,
      37883, 41330, 13786, 34986, 37081, 22658, 37367, 27066, 10204, 10807, 47727, 6765, 31813, 35713,
      25669, 3188, 39911, 8031, 24796, 21380, 30436, 16568, 37996, 36394, 39807, 45800, 26926, 13733,
      13965, 47467, 41158, 9797, 25717, 34010, 22402, 49867, 8463, 3925, 27738, 46122, 8730, 21946,
      1360, 5950, 43748, 8884, 4905, 15256, 48435, 35109, 19748, 39597, 38875, 48402, 528, 43869,
      2369, 12569, 13412, 35399, 11226, 31770, 7715, 5024, 38818, 33071, 36930, 39929, 37304, 4597,
      38980, 9470, 20593, 19171, 41567, 21507, 10652, 44870, 40006, 42574, 16740, 49640, 39572, 3909,
      49053, 18704, 19703, 15919, 2019, 45809, 567, 47827, 49010, 48070, 4486, 14404, 30279, 40612,
      23871, 43556, 44107, 35338, 25298, 25551, 11278, 13526, 28133, 47059, 11802, 24146, 15909, 36051,
      7257, 41754, 6574, 32668, 7803, 24686, 2526, 24187, 28391, 31704, 32269, 32926, 46396, 34828,
      33649, 14063, 27883, 33044, 666, 15739, 21343, 23434, 24709, 6762, 6615, 22441, 37570, 41481,
      6299, 4179, 22889, 1832, 37884, 40716, 11519, 2058, 44995, 29674, 36533, 21303, 44509, 14690,
      29986, 12823, 27621, 17866, 48037, 14732, 23016, 38257, 40073, 13397, 7549, 24945, 18932, 49297,
      642, 49383, 48652, 19853, 11043, 38058, 20448, 4781, 18242, 6579, 49596, 36491, 34168, 19739,
      33289, 24243, 4030, 13027, 49081, 49592, 13056, 10060, 36776, 39690, 12812, 39440, 14455, 45584,
      48720, 33909, 17256, 9630, 6336, 45264, 4231, 22959, 306, 9945, 18660, 48664, 19479, 1924,
      20102, 46422, 31098, 24016, 49367, 22203, 27920, 37966, 4301, 20754, 28109, 43147, 39409, 22320,
      10456, 260, 28490, 41791, 25772, 1091, 6931, 21033, 26785, 30955, 23465, 23526, 25409, 7292,
      41143, 25474, 13463, 35185, 43648, 4676, 2921, 35577, 35017, 15419, 39416, 28768, 2459, 47428,
      10547, 8621, 11158, 45983, 41718, 47358, 30262, 29529, 36282, 5487, 3338, 49126, 27584, 6060,
      17776, 37116, 3841, 7470, 3691, 22151, 15290, 4395, 34607, 12186, 35136, 19394, 23142, 3339,
      5212, 39377, 38657, 18040, 35396, 48255, 10903, 49344, 1999, 36649, 14434, 16965, 20599, 31171,
      38081, 27898, 23608, 22488, 25198, 48561, 3465, 39421, 10363, 44931, 28180, 33522, 23903, 443,
      33740, 11652, 33593, 47400, 12204, 13142, 25976, 46728, 38856, 32175, 10529, 19095, 16191, 36210,
      6820, 39920, 43985, 35105, 21256, 3066, 33387, 41345, 20293, 29158, 47312, 18907, 49785, 1934,
      49733, 4694, 7741, 33637, 8272, 27278, 13942, 36007, 25037, 27498, 36534, 815, 44180, 1049,
      40404, 30164, 24373, 26562, 16020, 35079, 23453, 46041, 4617, 908, 17488, 18677, 3535, 10033,
      7273, 5651, 30472, 14866, 33525, 39107, 20505, 947, 15100, 8303, 1701, 48848, 31457, 56,
      730, 33746, 16979, 29782, 43971, 22578, 31126, 18781, 4960, 46360, 37132, 28242, 38397, 39917,
      32470, 29764, 45640, 31688, 23246, 46438, 47953, 1614, 16292, 30175, 41128, 25360, 6764, 27467,
      2366, 14235, 48686, 30204, 44300, 3996, 9488, 29489, 3679, 17997, 19323, 28415, 28682, 17993,
      46439, 21354, 46756, 9862, 22485, 5608, 11552, 29203, 36700, 46233, 36572, 24496, 22870, 44144,
      20133, 2160, 15768, 32692, 10489, 48611, 48902, 4830, 7694, 48662, 7145, 15025, 29119, 40820,
      27873, 26179, 2340, 25765, 2913, 27453, 42151, 41001, 32283, 46081, 26974, 9394, 7207, 38697,
      48191, 35245, 25058, 41734, 20942, 35051, 7904, 45909, 36903, 6021, 33894, 44225, 20246, 1669,
      48956, 38136, 8176, 33706, 5624, 41405, 20282, 7919, 45801, 31499, 16863, 34364, 4861, 45062,
      38824, 10985, 29829, 10679, 25857, 39906, 38637, 11805, 48595, 9649, 22099, 16259, 18170, 7820,
      49739, 45364, 22102, 15008, 39644, 9415, 40808, 33651, 32747, 25143, 8798, 11741, 46875, 46307,
      37687, 15619, 25816, 8933, 18361, 41954, 16206, 10336, 30552, 34928, 24204, 33758, 2654, 21818,
      47748, 46978, 27897, 1137, 12974, 11596, 510, 10129, 42784, 47199, 9243, 49704, 33607, 37389,
      30666, 46366, 30203, 36725, 4839, 37657, 21446, 18013, 21224, 38151, 30226, 33910, 28039, 6189,
      7432, 11920, 40213, 9228, 21845, 24240, 37924, 18185, 21140, 14456, 37117, 6929, 33298, 9732,
      39289, 1919, 44336, 40210, 31912, 1949, 30540, 40849, 46973, 32126, 32017, 2365, 12314, 21175,
      11698, 48771, 22725, 27452, 33615, 2377, 15141, 25653, 24278, 49611, 14551, 1903, 22597, 39962,
      44207, 12294, 42234, 3060, 20243, 16672, 15531, 47325, 582, 21071, 39249, 11471, 7035, 48148,
      34728, 34948, 43895, 40318, 10327, 21101, 26997, 42556, 19154, 38829, 16065, 6163, 9471, 12511,
      33529, 26783, 13584, 34319, 16569, 48434, 18740, 20446, 1652, 1415, 17198, 47406, 39166, 10355,
      40135, 7614, 4327, 15021, 8776, 31887, 31749, 21183, 44095, 38245, 33333, 6630, 23764, 35886,
      39839, 29348, 16788, 6805, 13546, 13176, 13470, 41457, 12846, 14246, 40365, 35224, 25207, 39870,
      10523, 14669, 15295, 46347, 39456, 40425, 2552, 25714, 15932, 34433, 25102, 20221, 22829, 41611,
      26666, 12877, 49304, 9032, 34579, 20927, 36295, 27209, 4295, 33370, 12300, 3259, 49452, 32499,
      21424, 10360, 41764, 31403, 19659, 26909, 48753, 17182, 17300, 14167, 44473, 21795, 20312, 45160,
      13476, 6107, 45682, 16427, 39114, 15250, 21353, 49539, 39948, 42690, 34875, 44108, 32356, 33642,
      6877, 49034, 43076, 1626, 32875, 15957, 33744, 29410, 36587, 18886, 3536, 15701, 5193, 17563,
      1018, 48020, 18727, 22185, 2400, 4646, 16484, 26651, 21809, 33717, 29072, 910, 27567, 5002,
      5674, 24908, 21988, 30866, 15003, 11419, 32274, 12239, 48698, 22082, 16705, 42513, 16558, 32009,
      45493, 24785, 7254, 29454, 44022, 30669, 4359, 24563, 40478, 33826, 21612, 45522, 39540, 26483,
      1816, 14497, 31969, 47258, 41162, 49044, 30763, 36234, 47283, 29323, 27195, 37888, 26415, 5239,
      24673, 35272, 21516, 49754, 27018, 25230, 31194, 34185, 15186, 10858, 21282, 36845, 21740, 40471,
      42310, 24028, 12521, 8437, 14610, 40239, 39747, 16479, 22075, 2611, 24795, 29802, 36923, 23804,
      27676, 41738, 27109, 5703, 24509, 10164, 46421, 23126, 8851, 39447, 31736, 4791, 45831, 26490,
      24469, 319, 9432, 10567, 27913, 5913, 47420, 39607, 7232, 30216, 45829, 9004, 10170, 5790,
      32599, 16997, 49819, 42370, 20738, 5806, 6158, 1860, 47378, 5430, 10302, 41181, 39700, 38642,
      19043, 23880, 45361, 43424, 18643, 3464, 42134, 47109, 49783, 30868, 12529, 7043, 34293, 13864,
      23259, 27268, 43739, 6057, 36724, 7210, 23402, 28467, 43012, 22072, 12468, 10184, 38828, 51,
      13782, 6718, 37097, 38447, 7147, 10537, 10510, 7444, 28208, 42542, 8554, 10220, 48198, 13454,
      3823, 43630, 38108, 23446, 41188, 40182, 31269, 7971, 42054, 15447, 3869, 41397, 26519, 39275,
      35361, 21827, 29069, 20796, 31323, 8484, 21034, 6050, 32670, 14298, 25544, 9705, 10265, 46680,
      20598, 30898, 10564, 3598, 13410, 46584, 38164, 6200, 45708, 15595, 2999, 4746, 46212, 9552,
      40641, 31127, 15765, 38459, 28020, 49612, 48566, 20725, 3017, 7631, 39084, 24882, 36843, 16360,
      48868, 6487, 12961, 39157, 36263, 2419, 39014, 14713, 1485, 49749, 24036, 27974, 5988, 4267,
      23052, 17059, 49861, 16407, 32844, 16924, 35814, 2036, 3065, 30048, 21781, 45478, 23482, 46538,
      45836, 1041, 25568, 47604, 25989, 16498, 37018, 34269, 36621, 5813, 48615, 15367, 47259, 29090,
      36366, 31159, 34248, 39344, 7410, 15536, 44652, 16078, 32849, 29263, 45273, 22703, 13453, 37805,
      27360, 29677, 43301, 30953, 13080, 45170, 39260, 27180, 18164, 39565, 36157, 28878, 3822, 28371,
      38362, 29058, 11244, 6683, 46745, 10247, 37812, 38809, 3838, 6351, 35999, 33356, 14340, 18298,
      12771, 29881, 634, 21957, 24174, 40682, 16991, 24260, 46432, 40112, 36047, 9066, 19199, 15611,
      4923, 17110, 48840, 2347, 49564, 32442, 40270, 14294, 44541, 23092, 35801, 18812, 20012, 5289,
      17732, 11966, 24879, 23447, 26844, 31738, 31589, 12026, 27759, 8562, 34386, 29714, 7045, 35053,
      4274, 48629, 21695, 10411, 45615, 1950, 21213, 10928, 43581, 41314, 21975, 33836, 20044, 18961,
      39670, 31815, 18854, 2274, 11159, 12938, 34033, 12386, 22993, 35613, 19422, 28979, 22080, 47361,
      45176, 47583, 24741, 347, 2260, 6277, 591, 49826, 25146, 17861, 24756, 8744, 35050, 19346,
      15487, 11019, 255, 15945, 28488, 7283, 12970, 32015, 1421, 46740, 20897, 27207, 16491, 20101,
      23086, 16800, 43931, 246, 40648, 15066, 42857, 30776, 14676, 14193, 29655, 8775, 17667, 37374,
      45643, 16116, 23949, 48349, 32807, 14179, 26091, 21143, 28084, 39427, 42383, 28013, 27144, 16455,
      43625, 19928, 19251, 12634, 16958, 34283, 37338, 12888, 28546, 13563, 34937, 36665, 48406, 28026,
      35497, 42721, 32370, 33182, 7887, 22770, 17045, 5067, 11268, 6333, 45281, 26470, 5932, 36648,
      29873, 8065, 8060, 49560, 32761, 18171, 42909, 36, 24151, 36955, 41923, 11825, 17939, 11721,
      7252, 6398, 28555, 7692, 30505, 23243, 20092, 41638, 15858, 49839, 41479, 22159, 41122, 29960,
      5036, 23457, 14688, 12012, 2696, 26718, 17591, 1746, 47233, 23644, 33481, 9244, 20422, 44986,
      27981, 44973, 36723, 7494, 29928, 36196, 18891, 37449, 10686, 4747, 32314, 6302, 31357, 5492,
      17535, 12807, 26246, 27801, 18193, 34525, 24059, 49064, 25378, 32642, 25060, 22820, 21378, 38596,
      10638, 49567, 19340, 25921, 7351, 41383, 24561, 17634, 41349, 43327, 29693, 11572, 8991, 42560,
      37629, 10844, 6908, 25294, 13491, 4858, 28757, 47891, 8250, 1257, 6680, 8930, 7641, 33038,
      35590, 1973, 49626, 13628, 14633, 16651, 40812, 2770, 2329, 47482, 38703, 41491, 27659, 45517,
      15439, 7991, 40259, 30985, 1894, 41666, 16702, 17920, 17855, 49200, 25965, 38412, 17572, 22304,
      17274, 21381, 20234, 23767, 19871, 6044, 15052, 42190, 19184, 49087, 30653, 40595, 25905, 5392,
      39036, 38203, 38868, 45672, 42369, 49399, 49802, 29495, 9609, 9308, 40103, 42770, 28351, 20951,
      562, 10208, 1031, 22149, 42350, 11894, 17206, 7058, 10599, 37145, 11803, 48348, 442, 10588,
      30098, 31414, 48368, 17629, 46723, 27742, 34017, 44439, 4276, 11322, 48376, 43804, 10057, 27746,
      27315, 29362, 32543, 45191, 42191, 29882, 13751, 5497, 7044, 29317, 18738, 39913, 28393, 5097,
      21711, 49613, 17818, 12380, 14588, 30531, 13311, 4541, 47483, 42735, 22731, 46010, 22115, 23416,
      27353, 27258, 17821, 22462, 7960, 14440, 14986, 21076, 44667, 12696, 48663, 47830, 39628, 32833,
      42772, 43904, 48241, 45001, 8656, 12714, 35343, 19249, 43535, 5113, 22409, 37699, 23274, 28231,
      7512, 33099, 13273, 20202, 25395, 47489, 16059, 73, 1843, 33538, 11228, 45942, 17669, 9436,
      43796, 28879, 39460, 18325, 37621, 19781, 13406, 12150, 5938, 28207, 28451, 21448, 5745, 4027,
      48505, 17500, 8974, 38665, 21326, 36731, 3937, 20437, 17494, 4414, 40087, 44570, 26401, 3146,
      45940, 46417, 7507, 38960, 9990, 3514, 44104, 42672, 19476, 47143, 31235, 33971, 36163, 9411,
      5255, 38725, 26624, 15678, 41147, 10046, 1055, 16978, 33528, 1525, 20043, 47139, 22208, 5154,
      14126, 28900, 5664, 1806, 42082, 17145, 29958, 47770, 2970, 42479, 29550, 16465, 493, 25108,
      10482, 28523, 32767, 6026, 23365, 30151, 30844, 45451, 27475, 22689, 1384, 26771, 20895, 27414,
      23241, 21737, 49996, 23070, 32705, 35318, 28799, 46119, 2722, 10979, 20108, 17648, 21251, 14925,
      29176, 42139, 12563, 33583, 36787, 7607, 25848, 36855, 22748, 30346, 31389, 41992, 14547, 23800,
      9046, 43763, 42210, 3970, 28161, 6922, 660, 41293, 31645, 25128, 17502, 17671, 45104, 7358,
      17801, 28991, 27167, 41010, 39181, 34229, 2409, 296, 32244, 18296, 7548, 7942, 17529, 41937,
      5789, 48619, 29405, 43975, 47558, 6553, 49856, 37533, 29181, 41164, 20534, 26411, 38492, 49781,
      9638, 30428, 13795, 44154, 8381, 39336, 2886, 1883, 4190, 39402, 48066, 37118, 30565, 25218,
      16375, 7630, 4761, 2723, 9884, 40191, 16877, 20637, 23212, 34231, 496, 4008, 35055, 18582,
      8655, 11982, 33212, 28798, 31250, 8630, 33440, 25595, 34262, 40788, 38029, 36519, 2670, 17140,
      2083, 32848, 48455, 22923, 26972, 46090, 6572, 14166, 33305, 13407, 21040, 33414, 41516, 12482,
      18570, 35877, 47271, 23131, 27126, 9624, 24399, 47491, 8107, 30846, 8524, 35798, 2102, 8498,
      15522, 36659, 42443, 22414, 1995, 27528, 47514, 19814, 21676, 24435, 28834, 48439, 4925, 37743,
      30820, 23697, 9422, 2978, 3573, 7372, 2590, 4578, 1115, 3088, 3466, 4261, 19333, 44886,
      23555, 42559, 23772, 5229, 13262, 21392, 39407, 21767, 14961, 42680, 25411, 14481, 7025, 28873,
      799, 43429, 41852, 427, 17129, 40526, 11882, 27114, 14184, 1391, 40930, 46121, 49192, 11498,
      7634, 43191, 19515, 30990, 43058, 33000, 31017, 28460, 33158, 41707, 40321, 39218, 7423, 47227,
      49184, 4023, 38137, 23869, 40258, 18125, 39578, 6884, 12288, 29374, 17573, 7902, 23123, 43333,
      10051, 3883, 37180, 2314, 12834, 10315, 18402, 39784, 9894, 4833, 23057, 34783, 29886, 13418,
      3424, 29754, 1892, 28702, 20704, 9617, 5947, 29414, 49003, 21346, 8209, 797, 34651, 22174,
      18756, 24395, 33966, 47707, 35561, 39538, 22551, 20478, 38031, 45128, 21942, 13765, 49143, 28506,
      19689, 37123, 45585, 25019, 17152, 29204, 49449, 34188, 37973, 1234, 45303, 18093, 49005, 9255,
      35096, 48480, 37001, 684, 23202, 24134, 21604, 20169, 39658, 38562, 8953, 44202, 25135, 29717,
      33205, 44574, 26380, 31218, 15926, 39199, 8625, 25104, 19142, 31740, 16571, 40744, 34060, 7855,
      48143, 33359, 21573, 37905, 14780, 10584, 26797, 34108, 16165, 10715, 25854, 45440, 31368, 36427,
      15608, 47453, 13248, 9001, 1212, 4979, 37656, 34241, 18344, 31153, 24754, 32375, 29657, 43671,
      43271, 14123, 38669, 1095, 21019, 14738, 13882, 19924, 38644, 39787, 18767, 7041, 49860, 1160,
      15445, 46097, 43854, 38070, 2768, 34341, 27073, 21468, 3951, 40780, 8095, 36135, 47816, 13435,
      20300, 20156, 21868, 22465, 49331, 29765, 48154, 11542, 26462, 17007, 8009, 31541, 42000, 49866,
      30413, 19464, 37763, 49337, 22515, 14439, 17165, 20054, 24154, 30285, 33868, 26707, 4576, 3235,
      20569, 42613, 4722, 28584, 20622, 42206, 38034, 7032, 38619, 329, 41369, 37290, 44146, 33617,
      33126, 25117, 7399, 18594, 29250, 19586, 5607, 48708, 3148, 34052, 8606, 19977, 49706, 25463,
      209, 3271, 37485, 1004, 19743, 45195, 13518, 10532, 27457, 28760, 11525, 45214, 31824, 6212,
      42374, 36310, 4102, 33021, 44038, 49888, 9340, 18526, 42867, 6403, 12043, 7632, 1728, 18055,
      1868, 41860, 14677, 31476, 11441, 1971, 47628, 20067, 15588, 694, 22113, 12047, 25737, 17973,
      37820, 35052, 43365, 32349, 25574, 35862, 34445, 2114, 3629, 18657, 27703, 49390, 11292, 37809,
      40961, 36331, 40737, 19669, 29048, 39080, 26372, 27916, 42142, 17040, 39452, 47310, 46781, 49697,
      2484, 46772, 28072, 44326, 38735, 38910, 29455, 25745, 3409, 21159, 45557, 10745, 7192, 26617,
      386, 33927, 14674, 15185, 37552, 7953, 47625, 8118, 4299, 40560, 24783, 12076, 20472, 11179,
      37136, 5914, 46274, 38165, 35476, 16480, 28083, 3130, 8015, 27050, 6780, 6618, 35395, 20157,
      10559, 35007, 20047, 27657, 33312, 9399, 11219, 43521, 35157, 37029, 9784, 33822, 20256, 27206,
      29732, 16226, 49921, 5591, 46263, 49830, 19285, 37036, 14746, 44543, 632, 43441, 4535, 29849,
      22353, 12674, 35165, 31205, 36952, 25467, 2576, 35141, 1756, 47013, 45225, 44322, 43886, 37138,
      45636, 49738, 22024, 11236, 25385, 25671, 35283, 27007, 37030, 47728, 9663, 16799, 15150, 38546,
      23572, 40931, 36463, 17094, 897, 11720, 37271, 38641, 47147, 25825, 44087, 34263, 41502, 690,
      36859, 44950, 35656, 40014, 37696, 19517, 5206, 47645, 17790, 36087, 3574, 916, 16911, 22727,
      43783, 23039, 31285, 19203, 11136, 45296, 48761, 29892, 39032, 19396, 33697, 12419, 4019, 27079,
      24188, 22491, 27588, 15456, 17158, 43661, 18015, 39197, 6806, 31212, 35518, 45045, 16450, 23671,
      30276, 39159, 26508, 25567, 30316, 598, 20946, 4001, 49241, 42854, 42338, 38440, 38985, 41530,
      15471, 37848, 36943, 43947, 42485, 11036, 11936, 39936, 34214, 11109, 42484, 9611, 29669, 20812,
      43412, 14379, 2837, 48378, 20141, 3218, 28149, 11324, 26355, 22331, 43679, 11530, 4695, 42551,
      23778, 5241, 11545, 12500, 7338, 7396, 39574, 49388, 25428, 4482, 44806, 47520, 30960, 37251,
      43808, 9180, 13411, 47486, 11906, 37376, 27115, 18617, 18722, 44168, 17430, 45987, 42095, 42241,
      15120, 12878, 9475, 1074, 14260, 41717, 26855, 33545, 47417, 42634, 26224, 43719, 9386, 43557,
      26880, 40662, 12598, 6083, 25689, 40787, 38658, 44956, 9187, 38773, 565, 20502, 5899, 43797,
      31568, 13873, 840, 36656, 9834, 43757, 43994, 32530, 25039, 35434, 26548, 40375, 12334, 44320,
      9341, 12975, 36860, 31615, 765, 47793, 41579, 41265, 43149, 49518, 37633, 43807, 2620, 43318,
      42265, 39477, 35794, 17288, 36870, 17682, 20125, 15831, 34790, 18232, 9385, 35453, 46937, 32839,
      33793, 12751, 25788, 25034, 30344, 30652, 13908, 33957, 23207, 44831, 26020, 31587, 3499, 47561,
      41274, 35477, 19116, 20601, 4242, 20344, 45882, 1359, 12931, 31533, 26148, 17263, 34346, 23957,
      1509, 12780, 36880, 43335, 1845, 27939, 12243, 7838, 6963, 27610, 46461, 29318, 13769, 15700,
      20284, 12002, 4332, 29672, 14367, 11678, 41416, 10251, 25818, 36382, 29369, 2108, 12501, 10778,
      28466, 7773, 40615, 3644, 30171, 38091, 11351, 36951, 45515, 48206, 48504, 43283, 636, 8983,
      16630, 22666, 4512, 1193, 32813, 17360, 32305, 42744, 13866, 6786, 2963, 21947, 9776, 22076,
      4515, 9581, 14267, 3216, 34743, 37297, 2460, 32746, 18066, 39657, 33257, 33439, 40221, 41528,
      26623, 30788, 43818, 4151, 432, 5167, 23984, 34600, 26016, 45380, 12697, 37, 32544, 33024,
      32140, 20372, 47418, 40677, 37361, 713, 559, 48130, 37089, 35103, 13091, 37305, 12612, 47293,
      6131, 25457, 39770, 30382, 13092, 32542, 26325, 20684, 40227, 18890, 24714, 28812, 18964, 24815,
      13017, 13879, 3747, 11600, 1597, 44293, 20874, 30677, 40121, 14080, 24312, 9372, 49481, 22391,
      4302, 35774, 22694, 46429, 13285, 48904, 28439, 7523, 38598, 48799, 42041, 1559, 13313, 13528,
      25017, 19317, 7928, 2107, 30363, 31262, 42136, 38216, 19465, 47452, 30624, 10447, 12561, 15863,
      13936, 7939, 16105, 44151, 19797, 40119, 42888, 17290, 46188, 760, 19502, 33754, 26867, 33092,
      30563, 17064, 35365, 16679, 30712, 30177, 11735, 1785, 4382, 21702, 44723, 9476, 4893, 22117,
      12646, 15321, 43781, 29480, 22211, 15234, 17254, 7407, 21692, 18101, 2648, 2586, 25287, 29381,
      19544, 11009, 35950, 31042, 11672, 37571, 4218, 38460, 9795, 30697, 31075, 12779, 26999, 9371,
      20140, 7378, 48046, 1754, 148, 25362, 45667, 38140, 44862, 15545, 34381, 5829, 3770, 28343,
      48157, 2015, 5192, 48873, 45812, 38524, 33371, 38097, 45374, 865, 43666, 23396, 41848, 4477,
      47661, 45662, 16865, 32885, 37598, 4507, 5344, 21586, 352, 4460, 17157, 44585, 3873, 179,
      12638, 24544, 26754, 21177, 7436, 41361, 5958, 14110, 34568, 364, 14648, 15082, 32031, 6038,
      8221, 49093, 13895, 32345, 2801, 41482, 35690, 47093, 12856, 48795, 24853, 1245, 22745, 20921,
      13746, 30615, 36821, 38699, 3239, 32876, 49956, 16150, 31100, 41835, 14728, 18158, 45794, 6475,
      11319, 41341, 22228, 36302, 4394, 22257, 48030, 23195, 20774, 20732, 3567, 40257, 42469, 42466,
      25734, 21534, 11317, 38262, 47369, 17357, 37067, 38640, 37606, 23761, 19420, 1789, 13739, 13662,
      39963, 32383, 25651, 29256, 40706, 9230, 39098, 10, 10839, 38636, 8855, 17810, 1403, 47137,
      43945, 44787, 31958, 10585, 40946, 44271, 2431, 8515, 34112, 22620, 372, 909, 14915, 46275,
      41693, 2402, 32161, 28743, 11662, 21686, 39534, 11415, 34012, 1195, 35758, 29902, 15704, 256,
      16365, 8205, 1409, 49767, 20061, 4725, 46529, 24722, 25192, 48417, 29508, 10055, 28952, 42062,
      4784, 13663, 7522, 9304, 15870, 1725, 43269, 46481, 21823, 21514, 5912, 24843, 46058, 13886,
      41730, 38379, 22891, 25964, 46956, 42920, 1379, 7689, 3688, 28287, 22258, 28067, 10435, 34413,
      15659, 36558, 16182, 652, 49102, 24256, 3621, 5328, 7219, 47103, 40598, 11162, 12, 6152,
      11663, 2810, 26902, 49195, 35457, 11161, 43015, 30628, 41593, 12363, 47703, 1506, 37134, 29047,
      34898, 48147, 34416, 21274, 15928, 6766, 38374, 36912, 48676, 21605, 19093, 41947, 22286, 45759,
      14963, 20460, 48322, 48425, 34311, 12120, 19510, 3414, 22369, 14408, 32583, 32800, 7187, 27713,
      44169, 12213, 43782, 22684, 17323, 18680, 17325, 30783, 8749, 33513, 4083, 21774, 27846, 21966,
      35645, 45092, 2651, 38142, 21329, 22030, 11595, 18205, 1312, 560, 7146, 33725, 34878, 37876,
      39994, 31759, 5387, 47693, 49054, 13535, 47950, 45679, 11197, 40916, 10391, 19344, 37408, 35167,
      7310, 17276, 7737, 25557, 9597, 36617, 35393, 33012, 11340, 30418, 30807, 3346, 19257, 15835,
      41706, 28261, 8959, 32584, 19971, 43981, 44426, 28876, 23178, 39419, 4947, 8627, 16218, 9967,
      43574, 93, 21550, 28583, 28314, 39939, 6791, 27757, 49912, 41154, 13450, 45101, 16331, 42504,
      1885, 46776, 12786, 5773, 40430, 20707, 30160, 2, 16091, 2759, 45011, 27928, 26013, 9425,
      27775, 3175, 26425, 11294, 16304, 35233, 30958, 14274, 47829, 25025, 47530, 2511, 15248, 44755,
      4491, 36389, 2317, 7086, 18569, 37245, 10082, 1155, 2486, 16713, 41634, 26728, 22948, 35995,
      19381, 19551, 13541, 4392, 43364, 42618, 18847, 43146, 19230, 8872, 23970, 8859, 32328, 34959,
      9921, 6668, 13358, 18454, 23977, 22686, 12818, 38677, 40606, 31385, 34502, 38015, 40088, 20431,
      42797, 43094, 31472, 38066, 18706, 37008, 40904, 10095, 13934, 27331, 16205, 41315, 7612, 23286,
      11934, 21618, 19656, 10141, 21657, 46418, 2889, 30897, 43559, 788, 10131, 19731, 24874, 43549,
      25738, 19569, 36169, 40541, 22580, 24078, 45746, 36145, 33351, 9972, 43696, 28363, 25705, 44772,
      32449, 16733, 40678, 41710, 19733, 801, 43023, 30984, 11650, 25368, 17273, 37941, 39267, 42820,
      27940, 43433, 17352, 28618, 18320, 32222, 40477, 6853, 35524, 6458, 29388, 14855, 12809, 13806,
      18000, 39710, 48913, 34938, 37855, 36490, 8077, 2956, 42413, 32112, 16016, 45914, 38383, 10974,
      49248, 13444, 13824, 10067, 28341, 26940, 35169, 12397, 39291, 29217, 15702, 49204, 41254, 32060,
      11139, 26382, 47802, 23296, 18385, 34470, 38409, 29521, 45013, 33892, 37289, 818, 27599, 7764,
      7727, 43686, 9735, 21923, 18595, 20493, 35901, 37032, 15329, 7972, 4677, 19131, 22322, 45950,
      44785, 25761, 16246, 28549, 4331, 39830, 4663, 46769, 27862, 6696, 35135, 11157, 9721, 13928,
      5956, 16142, 47968, 37563, 18824, 12884, 15401, 31113, 34258, 18976, 36015, 6849, 1425, 34764,
      11864, 35459, 28708, 41925, 31639, 45839, 6843, 32275, 28225, 8572, 10813, 35029, 40816, 3196,
      26613, 49644, 486, 370, 21376, 33551, 48921, 27654, 6382, 47095, 15407, 8837, 30408, 19622,
      16682, 17257, 30869, 34815, 32872, 24003, 43709, 13266, 38452, 23112, 30336, 3632, 16493, 15893,
      11656, 18522, 16691, 40989, 25318, 12663, 669, 15184, 41380, 32873, 23161, 49068, 44458, 34207,
      29097, 11039, 15775, 20317, 39465, 22958, 37579, 41882, 3258, 34076, 29990, 13877, 48735, 40100,
      34332, 25762, 33714, 11760, 30031, 43993, 39349, 17615, 35771, 24599, 11978, 19747, 38157, 12055,
      44035, 34077, 11345, 19859, 31115, 2196, 4566, 24124, 31891, 36737, 35282, 21248, 31095, 12577,
      15754, 43929, 22611, 22375, 8791, 28264, 46866, 12881, 20369, 21390, 11249, 9777, 5257, 25179,
      41972, 13932, 5322, 11586, 29482, 49760, 45793, 36069, 48132, 23227, 12041, 38174, 26751, 33480,
      5783, 4409, 11688, 38688, 44495, 38179, 5574, 16934, 35825, 36009, 31498, 44611, 45205, 43382,
      8493, 47550, 19648, 44539, 32471, 18482, 23385, 45511, 40060, 49581, 36439, 49400, 37909, 20800,
      26872, 10394, 47248, 2934, 10794, 4311, 14691, 39365, 21371, 26986, 1353, 12489, 21217, 5752,
      43164, 37066, 46585, 24406, 16440, 3412, 10416, 19239, 400, 35754, 16043, 39373, 21182, 30255,
      25570, 26205, 4846, 24386, 12664, 6554, 29401, 43210, 38549, 19657, 597, 1102, 7233, 42402,
      31106, 519, 34523, 37276, 34131, 40719, 5263, 33837, 8419, 17463, 43405, 26784, 22995, 24230,
      32694, 665, 31320, 43597, 13796, 44996, 29171, 25605, 34467, 28419, 18261, 43533, 23704, 49758,
      23184, 37684, 7065, 49194, 2979, 16988, 13750, 6861, 8168, 18897, 32450, 8128, 29011, 16475,
      20229, 27250, 38014, 39709, 36664, 49797, 17733, 34489, 38674, 36545, 15210, 15722, 44024, 4050,
      33382, 13894, 40473, 16956, 19965, 39873, 6372, 7244, 5062, 36370, 22139, 27563, 15764, 23332,
      40524, 41452, 25596, 16412, 26442, 10086, 26145, 30794, 19768, 10766, 25958, 22401, 35724, 7869,
      29823, 5409, 25995, 40288, 37207, 45342, 37458, 34326, 10892, 35256, 3291, 18147, 36291, 37310,
      15371, 3400, 42653, 17350, 2272, 18758, 14429, 45856, 33001, 35454, 30598, 25112, 9843, 16676,
      27412, 44636, 46532, 11392, 19254, 17261, 29510, 27785, 9964, 10635, 32624, 48977, 13231, 2739,
      13201, 21263, 4357, 28754, 19775, 6642, 10420, 20802, 37415, 27937, 17070, 20968, 17221, 8458,
      5791, 26582, 1726, 39139, 18608, 45720, 19563, 42588, 37375, 43421, 44765, 48622, 1067, 40048,
      23763, 24485, 11258, 10940, 16006, 23351, 28205, 38934, 6461, 19445, 889, 33734, 10481, 5153,
      34731, 27701, 9850, 12062, 14496, 25703, 1909, 15690, 8353, 39601, 47910, 4134, 2738, 2835,
      26119, 7213, 40373, 33743, 35036, 36538, 42140, 132, 33349, 9716, 33161, 22942, 29565, 30815,
      46477, 47239, 20661, 8183, 46060, 20595, 49464, 24811, 37381, 16607, 17358, 8593, 27750, 41331,
      20393, 10150, 22606, 20982, 19787, 19899, 47097, 4712, 35676, 43875, 45442, 8071, 11767, 18807,
      15890, 38032, 38931, 19932, 24829, 21360, 23932, 5481, 49441, 23958, 6895, 21885, 27885, 47927,
      18768, 35418, 17459, 49894, 48309, 8789, 3190, 25708, 3650, 41322, 20454, 38744, 3370, 33435,
      20842, 44373, 1764, 46472, 43078, 44070, 33782, 46606, 15629, 28527, 7903, 28615, 13334, 18120,
      14692, 11539, 17952, 17127, 20378, 26555, 28955, 8817, 25692, 6284, 6273, 8536, 15651, 30028,
      12641, 47475, 24665, 20719, 45182, 37094, 4662, 21498, 31359, 8587, 13306, 32959, 21596, 3641,
      26336, 15799, 48476, 21, 36486, 32563, 35670, 36074, 41308, 5534, 44702, 19276, 33547, 15235,
      36981, 46972, 22912, 36199, 17207, 46755, 26841, 41264, 36390, 4259, 37493, 1469, 13322, 42307,
      25496, 41329, 45276, 8424, 368, 47912, 31021, 13112, 9491, 16448, 30348, 11384, 20594, 36613,
      11017, 21700, 18105, 33172, 36828, 49799, 10683, 34592, 10972, 49187, 36526, 3232, 18302, 31467,
      7246, 28511, 1831, 1242, 44123, 25735, 41566, 4656, 41799, 28906, 8998, 46635, 32737, 41111,
      47782, 42412, 7490, 18161, 14772, 42308, 1777, 39287, 24161, 32312, 15111, 11133, 13072, 46935,
      1823, 31008, 23027, 22784, 19935, 47797, 40039, 21630, 29294, 14779, 16117, 41933, 12470, 16619,
      737, 16608, 3293, 33146, 42952, 23290, 3845, 28469, 29441, 44308, 13777, 49421, 45730, 22301,
      37792, 12270, 1658, 32980, 23698, 20803, 1214, 21577, 15898, 15762, 14195, 33560, 42313, 49901,
      49290, 37266, 9505, 2413, 34492, 27398, 32214, 834, 9063, 9455, 48644, 12537, 13163, 29506,
      33988, 22936, 5609, 11907, 4581, 15089, 10292, 9677, 2523, 31933, 48460, 19462, 29409, 40228,
      25881, 4782, 30782, 19558, 31047, 4381, 38192, 33760, 14435, 7642, 39220, 18549, 32391, 49775,
      20187, 35281, 47527, 45094, 10618, 26739, 45353, 7637, 6854, 10619, 1386, 47032, 21323, 555,
      18705, 16704, 35863, 3285, 9930, 9166, 7847, 1313, 26469, 20343, 11095, 40218, 27909, 38231,
      14706, 32069, 37840, 25757, 39339, 44962, 38043, 18653, 42957, 18256, 2972, 24982, 17806, 49986,
      34625, 47214, 29283, 49378, 2765, 1541, 41425, 40030, 49445, 20991, 8434, 23495, 29332, 12388,
      21922, 47578, 26567, 42236, 43444, 8563, 3771, 17493, 4655, 47348, 11434, 32649, 47755, 32536,
      294, 41034, 27499, 12682, 19938, 9096, 1737, 45588, 20365, 33329, 15357, 36113, 11492, 9628,
      49336, 8314, 42486, 9719, 44331, 21322, 42632, 32826, 29059, 28942, 35969, 3435, 46899, 18033,
      35278, 17322, 47934, 28174, 49389, 12886, 47983, 43636, 16138, 37789, 28114, 30805, 5993, 9107,
      48797, 20799, 22754, 26393, 27684, 41297, 47642, 34840, 12122, 14837, 38590, 13335, 3513, 46688,
      30992, 43746, 23866, 24094, 23341, 3782, 46067, 31225, 9336, 15385, 48613, 10702, 27566, 26849,
      35628, 33989, 4864, 24118, 13280, 12390, 6085, 26579, 12546, 4924, 4532, 49545, 34440, 32408,
      43838, 4055, 46044, 47309, 10000, 23535, 48912, 11953, 28400, 2850, 29195, 44850, 10255, 24290,
      43386, 12879, 19838, 37085, 25020, 23769, 5519, 858, 43767, 5972, 20823, 40643, 49602, 595,
      49130, 8804, 24183, 28997, 9746, 14352, 10165, 1951, 9120, 5649, 15847, 7910, 14781, 7830,
      2513, 39500, 38327, 7526, 7860, 4700, 35001, 32720, 27626, 24976, 24340, 17560, 25008, 29774,
      31501, 11926, 22044, 42531, 9215, 27874, 25103, 20539, 43051, 29187, 14086, 20625, 5424, 13265,
      23831, 28840, 15567, 40260, 28656, 8995, 34318, 17393, 23519, 14842, 10929, 22998, 37863, 36011,
      21359, 727, 31711, 14591, 22104, 8169, 23244, 331, 39795, 211, 35031, 39111, 3543, 28740,
      34206, 10707, 19252, 16251, 13237, 4792, 46838, 2017, 30980, 48928, 39243, 41751, 33688, 24111,
      12171, 31634, 16396, 4868, 33586, 10976, 46322, 9896, 453, 9241, 3457, 47609, 47870, 17043,
      36901, 23806, 29715, 33108, 33708, 35507, 25988, 36964, 33638, 2786, 49436, 36839, 29825, 24074,
      8222, 8123, 39131, 5796, 36445, 8864, 48273, 45220, 29680, 41570, 5188, 43933, 17492, 19613,
      35030, 19157, 43621, 5057, 22219, 20710, 44284, 13186, 1779, 35321, 49892, 2686, 1040, 24931,
      16939, 3071, 20858, 40297, 42391, 44969, 44488, 29844, 7766, 28561, 46061, 15682, 46747, 15663,
      15128, 12031, 43784, 7961, 40167, 1906, 29505, 25345, 41872, 10303, 13503, 38607, 2024, 17397,
      28, 9718, 44858, 33123, 3170, 31663, 44121, 11560, 38411, 18460, 3675, 15450, 20608, 6749,
      32888, 6794, 20612, 38347, 328, 4710, 19665, 2370, 38290, 35312, 15791, 27382, 45439, 10871,
      18562, 4898, 37921, 1209, 13362, 42572, 46530, 25473, 35891, 78, 26120, 48542, 42030, 46621,
      48898, 29799, 47566, 5682, 9493, 44084, 45050, 20390, 37637, 15605, 14485, 6213, 19641, 34550,
      39753, 13275, 5544, 34714, 21137, 48087, 17061, 14385, 27181, 6789, 34160, 26287, 20121, 49748,
      39462, 35983, 8989, 12404, 9969, 12305, 1770, 22368, 45398, 10912, 30988, 35790, 28804, 38169,
      7856, 10100, 39643, 21575, 37387, 28185, 47616, 8719, 8558, 43071, 12516, 24530, 40736, 20648,
      24251, 12454, 6825, 31826, 22554, 34841, 40927, 43967, 4423, 6862, 39754, 21252, 9490, 20760,
      15635, 40050, 35694, 42755, 9825, 9479, 8733, 46631, 16874, 20081, 2013, 40634, 38445, 33715,
      33383, 2147, 41556, 39897, 43906, 9699, 45366, 6841, 26811, 17194, 6269, 2073, 37260, 46310,
      40502, 33653, 18174, 11334, 14621, 15332, 40097, 3895, 767, 41017, 18029, 8012, 49413, 28801,
      28718, 16363, 43874, 24747, 808, 24309, 1468, 30337, 10550, 35490, 5419, 47094, 17548, 34328,
      21059, 12673, 6041, 12061, 49511, 48231, 31362, 25628, 18635, 34929, 21058, 23840, 9247, 37420,
      25502, 15733, 10116, 22763, 7265, 29483, 46592, 36704, 11725, 15043, 23525, 27608, 36975, 23097,
      30974, 31673, 14033, 47232, 26028, 34917, 20541, 31345, 26498, 74, 719, 23723, 36784, 43673,
      3932, 14670, 43805, 47658, 2509, 40049, 42529, 32317, 30728, 45519, 4067, 20104, 13100, 30544,
      27818, 3145, 17513, 8697, 42074, 30562, 37899, 24310, 24845, 20619, 24207, 40164, 17138, 1537,
      45841, 46762, 35310, 6073, 43430, 20409, 21602, 23610, 31629, 33005, 20655, 22259, 6093, 44700,
      37960, 37534, 29883, 1620, 8793, 21301, 1308, 14374, 1582, 48036, 35199, 1044, 46951, 37777,
      7633, 10931, 26691, 38563, 31076, 38259, 45818, 20183, 42593, 1600, 45514, 1849, 1752, 34808,
      18467, 40733, 37999, 33314, 38967, 46062, 5147, 25251, 10737, 18051, 12191, 10694, 22398, 49946,
      39937, 32334, 16559, 22372, 11801, 34864, 20171, 28930, 14650, 15574, 41256, 9318, 48195, 18825,
      42149, 17706, 24398, 27328, 36833, 15096, 1294, 29583, 30962, 34768, 34831, 28647, 34275, 39451,
      20002, 5577, 35660, 40857, 5611, 5077, 5335, 9546, 23350, 4141, 7938, 44584, 48524, 13036,
      44930, 30836, 38784, 12224, 23104, 9583, 21015, 31846, 27027, 48635, 2251, 25601, 3670, 42983,
      25401, 42962, 25212, 30725, 44355, 13436, 37528, 17331, 11689, 23369, 42406, 14196, 31816, 45016,
      20269, 49533, 12963, 6697, 25820, 46588, 27867, 23515, 38826, 17948, 48301, 37466, 10750, 3320,
      21576, 10464, 30733, 12446, 4773, 39343, 45284, 37477, 31836, 43331, 41508, 23916, 45697, 24143,
      20981, 30492, 25993, 38553, 13560, 39993, 2311, 28919, 23380, 29685, 12658, 8391, 41445, 15167,
      12916, 2823, 4551, 38104, 11437, 20837, 47112, 28477, 11353, 3749, 16821, 16532, 27370, 8399,
      9079, 524, 45771, 30766, 25523, 3727, 9472, 23183, 32890, 20750, 30461, 15620, 2283, 2302,
      23781, 3052, 14292, 5820, 28036, 42088, 15173, 19950, 48, 26708, 16885, 31819, 35953, 14345,
      229, 1211, 35592, 8772, 33737, 35775, 29163, 20689, 49450, 17458, 10942, 1986, 46770, 39978,
      35712, 44354, 46522, 25022, 14016, 26746, 37201, 44007, 36929, 3117, 17509, 11232, 38090, 13753,
      43928, 6240, 35187, 12316, 6207, 13303, 7170, 29443, 23590, 43672, 33785, 37500, 28853, 24127,
      18312, 350, 45813, 32991, 36404, 49151, 25563, 44487, 35268, 48818, 45407, 33332, 10367, 33690,
      3385, 36701, 30554, 31932, 7959, 19091, 14516, 49586, 49675, 22340, 30522, 36303, 27304, 18316,
      26973, 28315, 7777, 32930, 17205, 26639, 39136, 24662, 45053, 15994, 49097, 30286, 10889, 29150,
      7645, 14116, 9589, 45488, 2833, 26756, 23790, 44021, 38176, 24624, 28324, 42340, 44610, 9979,
      42362, 18259, 14549, 36863, 19073, 3990, 40828, 39307, 14799, 44897, 2785, 3880, 33861, 37953,
      45494, 40522, 11975, 7746, 36713, 26505, 34932, 35654, 10109, 25092, 37122, 5666, 32940, 33407,
      3407, 22880, 5065, 1548, 7435, 10024, 33804, 11814, 14419, 18827, 29113, 43674, 8418, 9582,
      45206, 28666, 12458, 13107, 41025, 12467, 32332, 45767, 45406, 33122, 44076, 38672, 33932, 845,
      25389, 3395, 11559, 23147, 3127, 15138, 41269, 44833, 45928, 954, 16535, 3587, 3557, 45782,
      28948, 47698, 26569, 37939, 6743, 40166, 11267, 28481, 47708, 9484, 16892, 13890, 43924, 24405,
      18645, 23042, 47370, 8177, 11620, 7857, 20805, 17485, 35371, 8609, 8061, 36018, 12601, 28716,
      33477, 32886, 4598, 2042, 40187, 6130, 31528, 33085, 10566, 38083, 2064, 14457, 13419, 29661,
      22990, 31169, 21387, 6523, 25957, 27433, 38507, 39044, 14953, 30859, 5470, 22200, 14336, 30936,
      24014, 36931, 27301, 13180, 33171, 37679, 27926, 11422, 42133, 45845, 6378, 18625, 19867, 14744,
      44506, 36307, 6310, 9219, 38285, 35362, 48752, 42926, 31213, 44823, 39422, 14266, 15867, 21411,
      49848, 21665, 1502, 27445, 26183, 29777, 48184, 30640, 678, 16378, 5851, 7194, 16301, 29841,
      2939, 34618, 22906, 1070, 17929, 6784, 14444, 10672, 19156, 36160, 44559, 27912, 19790, 21120,
      41168, 21782, 28258, 28362, 37661, 8720, 17106, 21560, 48056, 41266, 19159, 43821, 38885, 12716,
      39335, 24099, 5670, 24518, 8949, 21876, 49099, 31556, 26128, 46166, 33342, 24833, 11182, 37146,
      25616, 47331, 15123, 16698, 30761, 41662, 27765, 48759, 8695, 22738, 10514, 10748, 17232, 35016,
      15958, 38384, 31692, 48707, 22486, 43685, 24502, 28513, 30828, 27307, 21939, 38867, 14390, 33765,
      12926, 25752, 29416, 40162, 20756, 19881, 17794, 8032, 1407, 28690, 47944, 14021, 14254, 18196,
      31351, 44726, 33461, 10725, 21395, 3443, 9174, 46640, 4175, 13844, 46852, 13382, 26424, 16645,
      11529, 15979, 38265, 36643, 20400, 3626, 39132, 39520, 37879, 14157, 36323, 10386, 30270, 46549,
      19751, 3516, 35294, 15032, 43090, 1168, 20528, 40660, 24660, 3149, 17264, 23956, 19122, 13439,
      34235, 8154, 46270, 13833, 28902, 29992, 4137, 19423, 4150, 39236, 14017, 6571, 28408, 15366,
      23851, 46334, 40978, 15155, 13779, 33635, 27043, 15761, 46272, 402, 37196, 48243, 3057, 47856,
      39828, 3317, 12118, 40633, 23595, 12126, 39619, 18231, 49374, 17718, 25163, 38523, 48311, 6997,
      49016, 45387, 706, 3491, 15339, 37341, 15823, 45516, 24090, 7054, 5580, 31416, 35919, 39385,
      31099, 49213, 11991, 36790, 32353, 38698, 25650, 2607, 41886, 41950, 2429, 3815, 37335, 47328,
      18646, 835, 8624, 33941, 25494, 22821, 5565, 40870, 21673, 28333, 40866, 4951, 15194, 18799,
      49752, 23718, 19177, 11332, 40563, 49354, 36175, 27675, 25009, 43743, 8963, 34765, 8417, 12278,
      30328, 27710, 5629, 36770, 45007, 37521, 42292, 45450, 26019, 3681, 19403, 40216, 29475, 42865,
      3985, 15198, 48817, 41973, 43724, 20786, 37045, 3666, 8412, 18830, 23205, 33422, 39288, 22834,
      25343, 19556, 11831, 28742, 16928, 33972, 35651, 41381, 42025, 7242, 2637, 47810, 19049, 43578,
      18252, 877, 27105, 49701, 27959, 4379, 11957, 19187, 27573, 3908, 10763, 40456, 26331, 48256,
      24831, 20836, 30297, 40843, 14635, 32152, 13161, 31390, 6479, 4711, 41214, 12476, 33757, 35450,
      26535, 42470, 20698, 17392, 39148, 23023, 22356, 43829, 40555, 22538, 29571, 27200, 36591, 21646,
      8446, 43834, 29087, 37927, 1798, 17143, 654, 44907, 5812, 21672, 2892, 48375, 5636, 9612,
      3044, 24904, 21691, 41213, 6159, 13515, 6022, 37860, 47044, 13569, 11211, 11221, 10828, 23121,
      4763, 27594, 3659, 3326, 9465, 2663, 25938, 46144, 27829, 21917, 11673, 30831, 46300, 43815,
      34695, 44682, 33313, 49911, 2880, 22223, 42262, 9145, 32018, 21341, 29412, 48632, 11154, 27689,
      16195, 37388, 33710, 19619, 47859, 41136, 41395, 24918, 31625, 16692, 32427, 6727, 40701, 48471,
      49424, 29553, 20914, 23777, 23456, 31406, 12817, 46544, 28960, 43940, 48585, 2623, 22302, 29148,
      41302, 41139, 42760, 33505, 19222, 37706, 24600, 14249, 40115, 43704, 42281, 39263, 755, 21304,
      2779, 24503, 46670, 30077, 38968, 20308, 16453, 21751, 8084, 15047, 38450, 48986, 49954, 18064,
      40325, 41337, 42429, 15734, 38729, 18987, 12373, 30251, 7868, 1269, 21797, 45103, 31624, 28806,
      6998, 30935, 11283, 27302, 8669, 9521, 18667, 20116, 9045, 23508, 46524, 49634, 41833, 23004,
      23331, 5127, 9327, 29140, 1545, 739, 10875, 1674, 16121, 2567, 29697, 39752, 39563, 45321,
      4732, 48429, 33541, 8521, 21584, 47594, 32786, 2244, 3203, 40056, 28885, 5204, 30825, 39691,
      20224, 46362, 11998, 47329, 1936, 6665, 3240, 36077, 10358, 363, 20107, 43632, 24054, 37494,
      8738, 19324, 34409, 40775, 20901, 27914, 1172, 37268, 22469, 36110, 36132, 48289, 534, 12665,
      34178, 12479, 39434, 17199, 22884, 23706, 34899, 34565, 40495, 4575, 5190, 40935, 19506, 15732,
      30429, 20659, 33291, 3089, 1996, 21637, 24813, 11819, 2831, 8269, 32355, 26111, 7489, 15627,
      29878, 45218, 39469, 1299, 31315, 39041, 5499, 6447, 15613, 47368, 17864, 27369, 17985, 32559,
      7067, 26905, 35709, 26327, 20045, 15116, 46596, 41515, 21209, 25739, 5680, 11549, 34305, 43843,
      67, 5555, 3010, 17107, 40096, 36953, 48740, 42317, 27718, 13647, 48732, 38799, 11397, 13147,
      4582, 3228, 7367, 10681, 143, 18895, 29813, 23817, 48501, 39472, 9344, 14141, 33980, 29079,
      42942, 18733, 9261, 20085, 46075, 21811, 20167, 46268, 25241, 29238, 23600, 38762, 27454, 37040,
      30699, 43145, 786, 11049, 18100, 43910, 15792, 12379, 7853, 153, 45513, 13016, 14873, 14259,
      37394, 26870, 17380, 46823, 32922, 11468, 32363, 22634, 4654, 8055, 45902, 23889, 30851, 8926,
      32924, 35853, 1552, 13393, 33324, 2148, 495, 13865, 35089, 25161, 32919, 49236, 46356, 45727,
      1364, 18122, 19385, 25693, 23345, 29968, 15696, 19267, 3720, 39895, 9533, 26619, 17272, 38239,
      19585, 4920, 4823, 31376, 15479, 32167, 16727, 4136, 19572, 20906, 27160, 2121, 6858, 992,
      16149, 7382, 49527, 15630, 26636, 7366, 47565, 21118, 20977, 3565, 5840, 16667, 49106, 12861,
      22559, 18984, 41679, 36919, 16075, 14271, 14130, 49605, 20462, 10313, 43086, 23760, 47373, 30435,
      4321, 35929, 35398, 3174, 35333, 47273, 17587, 20028, 26502, 3114, 26655, 47588, 23110, 43293,
      35228, 3225, 40860, 20175, 40566, 8997, 46913, 40544, 14201, 49656, 35908, 38106, 47099, 25142,
      46103, 39886, 6937, 17451, 36686, 29062, 5529, 5398, 11360, 14380, 17285, 46862, 35897, 10740,
      8320, 5269, 34629, 10891, 49853, 24700, 41993, 32769, 35474, 13327, 21709, 9196, 39725, 2155,
      19782, 4011, 48688, 33302, 11962, 32016, 30890, 38591, 12352, 15323, 45911, 23065, 9269, 48536,
      32634, 8683, 42511, 41856, 16562, 6464, 26532, 47113, 29491, 18300, 27761, 48531, 26081, 40875,
      14904, 49387, 34678, 15927, 28610, 1301, 23991, 17517, 1230, 27094, 34085, 4368, 41081, 27025,
      43554, 13854, 6080, 45215, 35369, 6568, 28060, 18557, 12746, 19989, 13276, 22813, 29245, 25186,
      7995, 41910, 36536, 32574, 37845, 24658, 9599, 4631, 240, 15424, 29511, 12197, 43760, 27155,
      44849, 27314, 32439, 7465, 34635, 47873, 35289, 1820, 2410, 44393, 8243, 28464, 39405, 16576,
      37333, 29991, 24326, 13929, 47681, 6391, 34886, 42818, 36547, 41785, 37729, 2809, 33266, 11445,
      33686, 45211, 37052, 45417, 24746, 228, 47148, 35509, 13329, 11703, 9271, 44613, 6001, 4897,
      5583, 28229, 40635, 28899, 19894, 33896, 44837, 10400, 34335, 43066, 34474, 23834, 3153, 10364,
      11523, 40067, 215, 39008, 23488, 26950, 9824, 35693, 9637, 35489, 24277, 49966, 40277, 35427,
      24426, 1449, 39620, 26312, 13799, 27812, 45447, 28307, 45589, 46478, 29670, 10832, 41821, 34273,
      6054, 31875, 36993, 48609, 23824, 48535, 39536, 35967, 49340, 6449, 7951, 28132, 14626, 15804,
      37203, 11357, 44015, 13668, 31105, 14645, 18445, 21029, 27388, 3775, 16374, 5596, 34758, 27125,
      42065, 23649, 44548, 46737, 36942, 41505, 41984, 23308, 29424, 1907, 15581, 25855, 10143, 48728,
      41311, 47315, 33751, 40801, 38248, 48313, 21181, 24327, 43254, 37425, 39182, 15386, 26181, 35918,
      44483, 9265, 38737, 30480, 29086, 49348, 34159, 33214, 40205, 44313, 8802, 46220, 33139, 38914,
      14559, 42543, 17796, 47670, 28386, 46414, 22504, 34980, 5603, 8881, 22388, 38185, 4938, 20008,
      3158, 20651, 9158, 31973, 463, 615, 6380, 20213, 8181, 17719, 16574, 2716, 36736, 26220,
      15240, 30022, 5178, 49408, 42771, 22706, 45312, 40157, 25783, 21045, 40537, 23474, 6221, 13386,
      47931, 28129, 7037, 15474, 10570, 15511, 43508, 45598, 6358, 46485, 6691, 10785, 15881, 31898,
      33798, 41932, 28350, 42256, 1577, 23122, 15859, 32335, 9947, 36561, 20039, 20711, 21493, 17551,
      32728, 47026, 47371, 35685, 5586, 14605, 39094, 31670, 1515, 35139, 3432, 20863, 4239, 19773,
      34158, 893, 39867, 26426, 5074, 24900, 25791, 15187, 2933, 32330, 29265, 11970, 49000, 28022,
      1129, 731, 11110, 30329, 3084, 7297, 37356, 31926, 2795, 25363, 7601, 798, 22616, 17118,
      43716, 178, 17558, 13798, 42598, 17174, 32567, 27777, 32966, 24648, 29769, 16932, 12940, 23849,
      11772, 38498, 4616, 15103, 7533, 66, 49255, 37480, 21598, 15689, 48948, 5033, 39683, 35340,
      48158, 20225, 17006, 9873, 38990, 787, 3332, 30966, 49557, 6008, 24162, 8334, 48618, 6297,
      32264, 1191, 515, 30734, 30024, 37244, 27223, 21435, 23283, 43000, 1001, 14622, 18982, 17898,
      6191, 14175, 40005, 5753, 34836, 40581, 41004, 16252, 24920, 15905, 1462, 24299, 18255, 37344,
      42624, 27464, 45269, 7349, 4818, 220, 26337, 48188, 12632, 19937, 27773, 4603, 37016, 22499,
      39255, 7036, 42224, 5650, 28311, 17632, 46124, 48999, 29863, 2881, 18061, 42058, 22444, 901,
      18981, 39932, 34949, 8488, 42481, 30232, 23464, 8219, 1627, 6772, 12021, 14678, 11440, 44796,
      47220, 28967, 40025, 2580, 40734, 47138, 34924, 4340, 46108, 42330, 35461, 18771, 1073, 21638,
      17065, 37298, 29351, 32626, 3159, 38353, 35755, 21292, 34650, 21398, 31334, 18324, 19680, 5974,
      3729, 490, 22092, 33949, 1375, 37782, 31658, 17010, 4758, 30341, 10304, 6040, 28756, 2841,
      36948, 36854, 47677, 2887, 8876, 20923, 23067, 39439, 14997, 22837, 41979, 17750, 49219, 19023,
      17575, 5602, 32894, 13921, 5730, 14745, 5296, 13851, 45749, 17696, 25274, 42939, 28379, 20918,
      42833, 40437, 6869, 21042, 43240, 9943, 9643, 14892, 29709, 39661, 39449, 38196, 9190, 48025,
      21650, 3786, 34552, 29809, 39884, 4683, 42814, 4270, 32113, 34806, 20425, 42049, 19281, 48357,
      44952, 40644, 3340, 43903, 19037, 32230, 38679, 14287, 41863, 41282, 2031, 21473, 17197, 7235,
      12755, 15327, 30951, 20590, 29850, 1079, 18610, 47050, 28091, 27281, 38417, 27672, 26026, 14318,
      28805, 14506, 36630, 2936, 3917, 30063, 34457, 26299, 28112, 45548, 33073, 36824, 44658, 9837,
      9706, 35081, 30720, 26027, 14308, 34581, 19880, 41798, 2062, 6470, 17400, 6477, 38220, 11279,
      29831, 16940, 29122, 42674, 49855, 37038, 8531, 43129, 20470, 23047, 9095, 19522, 44643, 32092,
      16972, 36133, 5515, 11781, 8226, 15310, 24604, 35163, 5506, 26478, 924, 40902, 12070, 11706,
      41439, 35892, 22057, 30916, 19158, 40388, 6559, 44411, 41913, 12720, 42614, 46683, 41183, 9627,
      5798, 28557, 22366, 38650, 9782, 27832, 26025, 18565, 19627, 17857, 38871, 39516, 29793, 27843,
      13009, 41850, 44192, 47284, 31097, 15966, 46775, 25785, 38308, 33189, 26347, 18690, 24849, 16555,
      3956, 5606, 49071, 24846, 34493, 1184, 26140, 42742, 44122, 33672, 19878, 8346, 7797, 48269,
      6089, 2080, 40696, 46535, 7933, 10846, 12177, 9316, 24594, 11927, 9927, 7211, 21061, 6533,
      5209, 35414, 10073, 43390, 8448, 39164, 34246, 28926, 692, 30225, 46096, 39133, 46932, 7370,
      34069, 7837, 36483, 46426, 24495, 28633, 5037, 37167, 13840, 20900, 30979, 7354, 16122, 8750,
      45788, 27151, 1436, 507, 38170, 5930, 8947, 12242, 17303, 28412, 32263, 4386, 44984, 10310,
      8921, 8693, 17027, 25488, 1539, 9121, 33979, 15284, 5867, 35328, 22490, 13029, 11569, 21999,
      390, 17848, 29001, 17576, 31728, 46661, 42832, 32021, 36358, 11350, 25081, 41203, 6719, 15540,
      47128, 27241, 14693, 946, 14327, 14414, 44305, 35932, 35315, 32157, 18157, 13007, 33040, 20827,
      25373, 36386, 27405, 7008, 48339, 42037, 17304, 4633, 31086, 17130, 40475, 19953, 41750, 27052,
      44920, 30133, 10762, 13945, 24941, 14342, 38367, 9290, 28931, 15989, 43123, 32696, 36405, 20597,
      49957, 25868, 21199, 33367, 21924, 34420, 46455, 40874, 31371, 46967, 1893, 7833, 32651, 42904,
      22886, 20746, 33030, 375, 18350, 30771, 1466, 12615, 13543, 5696, 17627, 47717, 4837, 45650,
      33709, 42431, 29098, 19041, 15882, 10905, 28621, 48507, 4875, 39346, 19183, 20690, 13331, 46885,
      33066, 25625, 23154, 17241, 40745, 2035, 20423, 10450, 42932, 18542, 43059, 17883, 49908, 41612,
      6828, 7130, 40037, 40722, 20469, 16626, 13990, 35912, 18028, 7371, 40299, 5594, 27332, 46580,
      45509, 34844, 4103, 7493, 46021, 29377, 38736, 24704, 15470, 23988, 26681, 20350, 45632, 49756,
      47494, 39522, 2575, 30425, 14389, 4042, 12853, 4078, 7754, 32467, 25216, 42230, 30791, 15960,
      19162, 37371, 21316, 14252, 34753, 20245, 40542, 9726, 16709, 43298, 22778, 935, 4054, 48022,
      37997, 20955, 13666, 40222, 34036, 864, 37710, 2253, 22394, 23382, 16755, 36634, 43116, 40708,
      33377, 37419, 47886, 30005, 25256, 15886, 38687, 20013, 14022, 18748, 7148, 43403, 12997, 20173,
      49042, 5581, 10900, 5060, 9615, 8044, 17046, 8386, 14629, 45395, 28835, 27564, 42079, 2776,
      45338, 43646, 49944, 7189, 13731, 5573, 6135, 29845, 20811, 10553, 5247, 21153, 3981, 24209,
      30564, 11085, 19053, 27540, 16663, 2172, 32083, 31899, 45873, 48234, 41486, 7452, 5197, 26270,
      17793, 13210, 15995, 28992, 21057, 7206, 21267, 22191, 3809, 43512, 42847, 25097, 21067, 5543,
      43169, 29007, 46125, 29978, 20947, 44353, 44524, 32463, 17653, 29092, 41513, 34152, 44464, 41804,
      33065, 8635, 4873, 36635, 13907, 2077, 15029, 14209, 29327, 24368, 3009, 18613, 15216, 19226,
      2537, 16395, 40130, 39404, 7498, 41777, 20426, 39321, 10770, 32535, 30313, 21889, 23238, 21684,
      28635, 37422, 320, 7135, 17755, 49824, 11984, 35422, 24881, 26627, 33654, 37770, 45859, 31831,
      3178, 244, 14758, 23853, 40975, 16527, 38751, 32528, 24535, 35131, 1161, 49763, 22337, 287,
      26206, 35230, 10068, 10680, 12450, 43485, 41449, 1170, 4675, 10374, 39560, 31308, 30497, 26553,
      33045, 45082, 23165, 25491, 28164, 46192, 3121, 41347, 17695, 41107, 36174, 22766, 31301, 13861,
      47166, 31730, 931, 30062, 691, 35349, 6364, 18293, 41789, 43041, 20950, 49322, 16428, 20323,
      41909, 39876, 41743, 4319, 35733, 3969, 25763, 4926, 4933, 14616, 13971, 48226, 23862, 22692,
      3092, 21097, 12748, 24338, 44272, 15790, 3982, 20674, 23324, 34172, 38892, 1094, 22927, 28310,
      15972, 28747, 31918, 26460, 47582, 2843, 37583, 38724, 25095, 18211, 20855, 44914, 16, 28202,
      16524, 18443, 23527, 21054, 12205, 31422, 32006, 14407, 32766, 4686, 4922, 39553, 5877, 30595,
      42316, 32443, 16459, 35113, 22831, 41198, 25006, 4586, 13675, 49556, 44794, 8378, 24816, 25359,
      47809, 38965, 25553, 39169, 5695, 2941, 45155, 31222, 45097, 21164, 40149, 47432, 38346, 10338,
      42761, 40673, 26671, 8307, 11618, 25933, 33816, 45825, 6782, 45250, 47469, 47600, 19945, 45223,
      1609, 19480, 29166, 35183, 23799, 31980, 34785, 35739, 12317, 35699, 47839, 19630, 16508, 13001,
      1814, 25416, 31976, 14586, 44301, 25174, 2123, 13704, 31721, 47141, 49604, 14191, 18581, 20435,
      17600, 40469, 27938, 47775, 32247, 41938, 33576, 44869, 21438, 44412, 40031, 30096, 4906, 3722,
      12734, 36730, 46963, 2671, 41989, 9417, 4552, 6009, 28430, 19601, 38505, 41247, 18437, 27542,
      3164, 39531, 32764, 1657, 48995, 19094, 40317, 37034, 23099, 16806, 27356, 16244, 38084, 31601,
      27877, 9673, 19229, 48503, 33769, 36966, 35186, 36343, 9772, 3558, 44817, 3854, 4887, 28807,
      47844, 5313, 25883, 37292, 13699, 30607, 4827, 33575, 3907, 29134, 39791, 34724, 10637, 9343,
      44172, 37663, 35170, 37952, 22908, 18279, 10283, 40863, 9890, 46503, 18323, 26514, 49671, 47667,
      17387, 15086, 24042, 46298, 7566, 43894, 29227, 14719, 49058, 5368, 39696, 9603, 22673, 29425,
      30143, 2618, 41669, 4485, 11795, 17369, 44036, 24366, 22553, 7384, 45685, 13269, 28677, 9275,
      33783, 9460, 2462, 9968, 42222, 47534, 6509, 48715, 589, 13136, 8848, 37392, 20142, 39613,
      18412, 43618, 41637, 36885, 9424, 5454, 45078, 34217, 6837, 44222, 29432, 20288, 18816, 46244,
      48520, 21031, 42571, 1587, 39454, 45292, 18103, 22484, 31417, 41574, 29277, 3961, 41691, 30140,
      29631, 6078, 30663, 10956, 48763, 4006, 37707, 47245, 18395, 5898, 2866, 14011, 46650, 30209,
      30266, 16968, 11460, 20316, 34028, 20922, 33078, 34484, 34820, 20671, 4668, 4298, 3783, 33776,
      7347, 10377, 46715, 9878, 2773, 13026, 12948, 25105, 1987, 46156, 40047, 29546, 35440, 16260,
      25464, 9175, 31508, 49664, 25901, 19309, 249, 40953, 27790, 38652, 28128, 34812, 6589, 13780,
      11989, 627, 45260, 29523, 28820, 23929, 46947, 4765, 26177, 47989, 6511, 2230, 20566, 12427,
      39763, 46004, 18782, 32726, 6305, 13998, 15641, 32299, 12392, 17570, 10703, 49666, 21698, 41988,
      4247, 8002, 31954, 44041, 32703, 41875, 9497, 11241, 31349, 27543, 1273, 5698, 31521, 40446,
      10988, 42358, 22999, 3358, 16567, 49502, 45938, 46664, 39281, 4567, 13255, 10848, 32551, 46558,
      1961, 4992, 4891, 14330, 30391, 24423, 25954, 30971, 49366, 6226, 27323, 38134, 34019, 35944,
      29648, 3359, 307, 29964, 48224, 32323, 12580, 48637, 9765, 1051, 14519, 11410, 9221, 10234,
      37531, 41830, 34642, 25662, 23666, 27796, 46767, 46402, 13682, 20706, 49088, 25832, 38599, 4917,
      25074, 191, 25068, 24484, 13233, 37253, 9783, 28054, 3924, 9940, 41692, 43423, 22800, 28810,
      16061, 36071, 30826, 25920, 29963, 15549, 18074, 27527, 13304, 45297, 19692, 17888, 34574, 36639,
      25864, 3791, 48463, 35554, 9259, 45687, 34485, 35464, 31027, 1848, 43391, 12852, 39390, 36203,
      31923, 29896, 16526, 6771, 27559, 39760, 13878, 30676, 48461, 46229, 44369, 33885, 30957, 34524,
      39519, 28684, 870, 9104, 33489, 10997, 27649, 17270, 18108, 5592, 41115, 26096, 24486, 10938,
      45461, 11737, 33082, 26375, 48680, 11949, 40214, 20588, 5850, 38897, 38215, 3129, 16279, 33678,
      3968, 47218, 42933, 336, 27340, 18931, 47894, 8112, 32369, 2985, 10878, 15916, 11669, 20862,
      19942, 11001, 37588, 29437, 46317, 19800, 12100, 9018, 29872, 7243, 14079, 20866, 48584, 11874,
      48122, 25805, 8263, 18678, 6855, 8597, 46034, 6901, 29932, 23963, 9949, 16436, 1445, 44999,
      14821, 1695, 43852, 17958, 22523, 20789, 1630, 33037, 1881, 14523, 13900, 37842, 5509, 49158,
      2032, 27500, 34700, 35303, 43837, 32954, 44739, 5558, 11151, 23569, 20527, 46870, 48679, 6587,
      17618, 36683, 446, 14536, 14031, 39892, 28378, 31379, 20519, 35208, 35871, 43856, 40460, 21158,
      38862, 9486, 21902, 47374, 28018, 33455, 5208, 45874, 41185, 10345, 30134, 37688, 48359, 25566,
      45861, 19520, 38230, 14139, 19567, 23906, 22765, 19583, 1447, 34057, 10692, 23741, 10335, 49451,
      34779, 23926, 44673, 15830, 15735, 12158, 18263, 18814, 12453, 38847, 38225, 45956, 11349, 44825,
      4131, 16351, 17420, 15408, 45291, 36902, 17033, 42043, 33629, 25479, 24685, 34710, 10295, 37099,
      25159, 14119, 47958, 36738, 46552, 31647, 2775, 32101, 4145, 26899, 48223, 35179, 17478, 22449,
      34314, 22418, 45367, 49562, 6953, 35903, 13232, 5750, 14715, 31085, 3805, 9076, 27230, 45184,
      15160, 39542, 16848, 42788, 28850, 29768, 3327, 22615, 40150, 1262, 25530, 23596, 17359, 18950,
      22250, 13117, 25517, 39350, 49709, 21119, 32464, 5021, 23513, 23559, 14995, 11413, 22439, 48866,
      42570, 45984, 19173, 25520, 25380, 19404, 36876, 5213, 3255, 40091, 2690, 4627, 46504, 34087,
      46658, 37930, 7226, 8566, 12192, 17519, 4529, 44435, 21133, 23470, 9941, 45129, 18062, 39104,
      6982, 46473, 10066, 917, 18889, 29877, 13288, 19288, 48950, 570, 36182, 36484, 25515, 7031,
      39605, 19610, 45785, 28554, 14026, 25613, 14232, 24229, 2217, 5232, 30453, 45642, 30257, 35595,
      22164, 44594, 4996, 3262, 6838, 5741, 33418, 22423, 11094, 18642, 38163, 39850, 47006, 36289,
      10922, 46604, 4478, 5660, 9788, 32835, 10776, 30857, 27772, 32596, 21188, 45154, 23993, 17642,
      36607, 30926, 17375, 41073, 33687, 43469, 32933, 45039, 6644, 29179, 14334, 14282, 25525, 4594,
      10698, 35618, 19212, 28302, 49145, 37228, 27081, 14908, 39391, 9306, 33724, 41258, 9867, 27923,
      49665, 35503, 38437, 44799, 21372, 2378, 15623, 32001, 28901, 36940, 12391, 12742, 24476, 32510,
      16103, 45166, 365, 2103, 20143, 33457, 35959, 19259, 42500, 5710, 16034, 25183, 20884, 15228,
      1093, 39486, 49814, 25344, 29063, 15899, 16544, 203, 22867, 20324, 49834, 37701, 10006, 24031,
      43395, 33998, 7957, 27526, 48858, 44948, 37019, 22495, 31709, 13440, 22588, 27869, 12226, 37102,
      10744, 28453, 16767, 31455, 7485, 4886, 33625, 6539, 18945, 27216, 21839, 36046, 43307, 41609,
      6859, 10973, 1629, 10625, 33722, 40172, 38712, 16999, 32821, 39178, 36284, 19275, 49021, 22260,
      44516, 489, 15935, 47513, 17374, 49583, 47062, 46158, 11705, 35740, 34693, 35710, 35931, 21062,
      35386, 19996, 41003, 24255, 44386, 20176, 11763, 11577, 35622, 32172, 3439, 34660, 16633, 21639,
      49942, 13006, 44535, 17889, 23675, 670, 49301, 42239, 46724, 33665, 3306, 8026, 43626, 27769,
      2890, 22387, 24123, 46771, 27197, 14394, 45787, 22335, 8397, 14162, 26946, 44764, 26345, 33402,
      22463, 2382, 24565, 6476, 36945, 37548, 11312, 11064, 30835, 25307, 10531, 38759, 27374, 2763,
      2581, 47854, 11999, 41153, 43442, 23185, 42215, 34872, 37405, 46415, 3764, 4234, 4994, 29100,
      37825, 4434, 11676, 717, 29894, 36584, 6773, 43954, 48011, 10738, 27048, 14671, 42581, 33272,
      42056, 39579, 36661, 9359, 30075, 10655, 30698, 36468, 40142, 32130, 39082, 12816, 36413, 192,
      25396, 33584, 30009, 49055, 15810, 6160, 19071, 37158, 11164, 27964, 4927, 28916, 5552, 10799,
      47058, 238, 12207, 49105, 43937, 45498, 37004, 5618, 30049, 25521, 46191, 8640, 37865, 14665,
      35010, 36320, 19389, 19744, 15534, 8328, 38396, 43370, 37275, 3453, 44942, 31870, 46378, 35062,
      26829, 44571, 29345, 43939, 24690, 46084, 21113, 23501, 41458, 7081, 31135, 30954, 4733, 41680,
      13045, 48741, 13917, 44049, 14955, 48979, 20929, 48875, 44278, 5520, 32115, 44589, 23199, 35468,
      28246, 1700, 27886, 27518, 6968, 16322, 24527, 38987, 46053, 32854, 26884, 27253, 49525, 47607,
      18978, 17413, 136, 39740, 23408, 30816, 11087, 19238, 15721, 1200, 38889, 26147, 44895, 46893,
      30444, 6296, 3927, 14387, 26489, 32828, 3606, 21225, 26935, 35098, 11707, 2187, 32963, 12356,
      17186, 15954, 35436, 47439, 18452, 35529, 34800, 25500, 5103, 13652, 31781, 1637, 41080, 30449,
      11173, 48192, 35842, 25398, 7296, 3278, 31707, 8003, 26711, 29493, 45967, 41094, 47272, 31957,
      23299, 13516, 7352, 10751, 40597, 16446, 24417, 7697, 49146, 5668, 38506, 28273, 43427, 18425,
      41701, 5307, 4458, 20025, 47563, 19642, 12855, 18257, 21128, 27172, 26293, 19296, 43803, 20411,
      38256, 16678, 8024, 24170, 29061, 43516, 49084, 23248, 16873, 25069, 33458, 30471, 44781, 16986,
      10103, 1014, 47519, 869, 34761, 10626, 44717, 14924, 43326, 7610, 5283, 4370, 26149, 1361,
      26249, 34397, 12625, 1551, 20810, 49981, 27586, 8252, 10442, 46273, 5039, 49131, 21869, 22520,
      38462, 37887, 30131, 1134, 43764, 24944, 10278, 28327, 10451, 4017, 10409, 25640, 35192, 4138,
      44816, 859, 29943, 2962, 24473, 2426, 3676, 29315, 29038, 7674, 19874, 12977, 18485, 16753,
      37705, 43664, 5285, 8367, 30981, 24351, 12905, 2093, 15596, 11336, 11683, 40585, 1920, 82,
      17200, 13318, 42051, 37164, 41243, 18845, 27491, 1813, 34039, 2994, 37525, 15438, 14296, 42137,
      2642, 9280, 40387, 29084, 18689, 36963, 29231, 12360, 3849, 49822, 34510, 16194, 19233, 30109,
      16193, 26990, 36322, 29267, 2600, 16346, 22547, 30949, 1518, 29340, 28890, 32182, 45837, 4117,
      22693, 10825, 5755, 38401, 41167, 14114, 48290, 22625, 39930, 28230, 22192, 14256, 44505, 1988,
      25917, 30020, 40505, 16901, 10561, 32969, 38556, 25991, 29240, 15166, 23580, 22931, 37623, 48575,
      24703, 22742, 9741, 45270, 15950, 3765, 39200, 25027, 7846, 45981, 12253, 26049, 21205, 16402,
      30013, 19488, 31802, 887, 39029, 23620, 6989, 38811, 10808, 19552, 1424, 16523, 32026, 26500,
      19581, 21515, 112, 40928, 7291, 16199, 37327, 11442, 21074, 11254, 24335, 47298, 41334, 43526,
      20452, 20792, 17266, 19477, 26113, 27798, 16835, 3731, 1481, 32298, 4986, 35531, 13794, 40893,
      1855, 45580, 33767, 389, 44367, 39194, 18624, 10578, 38055, 40880, 17376, 4997, 20306, 19356,
      27962, 23255, 14211, 37564, 4769, 26400, 43833, 4173, 18919, 48929, 34675, 24618, 4946, 41328,
      6033, 7619, 33919, 19555, 47746, 9689, 39874, 48550, 37055, 34998, 26732, 174, 18287, 25675,
      41520, 36176, 1538, 35060, 42291, 1363, 37125, 21644, 18504, 18908, 680, 13050, 47211, 36432,
      33276, 32934, 13689, 406, 25582, 19456, 23749, 1914, 7263, 20238, 20583, 29783, 29566, 10728,
      33872, 12067, 2610, 42712, 38078, 46646, 31845, 11108, 11156, 32920, 13422, 22963, 22063, 28483,
      2832, 27128, 43733, 45865, 3551, 46705, 49353, 12541, 31486, 30881, 37306, 3273, 10014, 45046,
      46615, 15088, 18375, 48773, 24885, 28884, 5141, 27127, 44582, 20195, 30581, 48367, 36218, 20975,
      23736, 16589, 30106, 25711, 23064, 13156, 35517, 46181, 22412, 26564, 19624, 45475, 49755, 20466,
      19493, 12251, 10179, 22318, 48731, 38578, 38402, 11580, 19540, 22918, 42633, 34148, 38213, 14901,
      25275, 3832, 32252, 37544, 37044, 37726, 49519, 43884, 23155, 7415, 36020, 6614, 27056, 16673,
      19459, 12265, 10775, 19991, 15523, 30908, 14270, 45095, 44314, 25966, 15042, 35236, 45026, 16654,
      31555, 20954, 28152, 44525, 13869, 16998, 28783, 27794, 42351, 39464, 20700, 35948, 8275, 9065,
      43798, 2179, 4557, 7812, 45607, 39065, 42998, 23854, 14534, 33467, 1132, 43410, 10521, 22626,
      2871, 12996, 19164, 26536, 34540, 43361, 21904, 25792, 34681, 46562, 9256, 12602, 29961, 32598,
      30099, 24729, 15417, 1105, 17076, 10195, 4956, 41075, 49288, 19149, 20313, 20058, 3696, 40546,
      42589, 33396, 35219, 46005, 47653, 20208, 27228, 41560, 20127, 2176, 25242, 19702, 40695, 23816,
      2787, 12297, 1196, 18060, 20331, 40386, 37212, 43896, 15514, 49572, 47297, 5722, 9135, 43463,
      48044, 18753, 4967, 18601, 24532, 43178, 19710, 36777, 15515, 3583, 49740, 18020, 22601, 18852,
      12424, 27691, 41045, 22357, 28247, 36435, 45242, 31312, 21542, 23360, 45550, 10211, 36191, 10717,
      8199, 18793, 19596, 48156, 5366, 2895, 24820, 14122, 29290, 34064, 28001, 3642, 46437, 33650,
      48665, 30873, 31030, 38870, 49392, 41316, 21642, 5451, 23544, 10685, 15449, 7866, 30527, 31279,
      49920, 12867, 28328, 42565, 44523, 13979, 42506, 26956, 6474, 28399, 24272, 27808, 8811, 27882,
      492, 11691, 43527, 1116, 38405, 37853, 30722, 1757, 44254, 46424, 43309, 31433, 39121, 22973,
      48847, 44605, 27076, 49982, 21625, 36412, 19167, 44769, 27045, 11185, 34464, 35063, 5939, 48738,
      42736, 11033, 36081, 14824, 24734, 46489, 42552, 9915, 23989, 32983, 23091, 32430, 33840, 8682,
      7006, 13379, 41420, 22794, 32082, 46701, 31226, 32793, 11704, 43369, 7659, 38458, 42512, 49024,
      12721, 9171, 43615, 26423, 11908, 33398, 24968, 21607, 41475, 39382, 38011, 33870, 31131, 21729,
      27233, 2204, 41448, 28572, 24770, 45671, 44245, 11308, 13767, 28151, 27606, 45280, 23303, 4426,
      20936, 20963, 33487, 6155, 20093, 4025, 40992, 29336, 17908, 30431, 20447, 28038, 15493, 30116,
      5818, 44724, 32245, 3866, 2745, 11867, 43111, 10704, 11950, 43791, 19611, 36982, 20307, 44864,
      26853, 15193, 19643, 1401, 31128, 12828, 24087, 36021, 48262, 34926, 41346, 24472, 17058, 31881,
      37261, 39779, 46329, 42965, 36609, 18199, 20132, 28172, 44617, 2100, 34441, 10293, 4213, 26672,
      7480, 14562, 46145, 44283, 8547, 16923, 19604, 23554, 30499, 49443, 18135, 20360, 18156, 42156,
      42838, 10860, 27747, 34773, 30154, 20808, 49815, 15887, 15233, 26654, 24972, 27364, 2257, 13324,
      20456, 38342, 9083, 5355, 38861, 40703, 22161, 1519, 1378, 22056, 25599, 18971, 15206, 22005,
      17508, 45968, 1316, 5842, 39890, 16211, 12820, 5832, 9821, 45486, 28099, 33290, 24427, 29796,
      15372, 33002, 12180, 20180, 28694, 6318, 23478, 44760, 26586, 48145, 34716, 39129, 49266, 32441,
      48112, 44452, 48870, 2224, 25682, 43148, 25394, 16209, 31331, 5571, 37291, 5793, 46577, 5738,
      19008, 37496, 40586, 41627, 5276, 15275, 35205, 22440, 14087, 27990, 22736, 26917, 44757, 3167,
      31897, 23545, 24142, 14027, 7016, 46154, 45409, 47042, 37713, 15649, 12237, 38814, 28278, 9227,
      5585, 5590, 33996, 18691, 46109, 46101, 31566, 14743, 8244, 46943, 16237, 39323, 49249, 15373,
      12145, 159, 25235, 1589, 24035, 15369, 38333, 23071, 7190, 16566, 10576, 30750, 23864, 46132,
      34324, 35596, 33204, 22173, 15592, 49594, 28454, 23782, 35548, 36469, 38454, 4727, 17622, 2951,
      35323, 30622, 10350, 46320, 45505, 39233, 40123, 15717, 40591, 24297, 12449, 48159, 15271, 5185,
      22031, 8549, 38010, 18514, 28220, 2092, 21793, 10207, 44716, 32955, 41869, 24322, 19810, 1098,
      1381, 47061, 8605, 21281, 11528, 28182, 15038, 10433, 29218, 47318, 41216, 11390, 41160, 7295,
      8068, 12935, 42727, 20620, 9764, 32792, 3363, 1088, 12866, 10886, 11590, 48960, 19225, 10503,
      12306, 27810, 20536, 15906, 11944, 39105, 17611, 276, 12413, 26943, 22313, 19337, 36674, 21162,
      5845, 36188, 27103, 33905, 24566, 26910, 24045, 25518, 46092, 2490, 21826, 40510, 14482, 45895,
      36703, 15072, 2384, 8016, 39852, 16499, 34631, 19503, 33132, 41862, 28398, 46773, 46586, 18354,
      21083, 28753, 3802, 30386, 36304, 36593, 39410, 48282, 12991, 20878, 46785, 13527, 28064, 7269,
      38115, 40697, 12982, 7166, 12869, 29535, 38635, 37529, 882, 32272, 13893, 29689, 557, 1960,
      46099, 1207, 25552, 7684, 16859, 26086, 44789, 28308, 10485, 19595, 3630, 1708, 26421, 24842,
      1140, 38975, 10238, 26485, 43171, 35428, 25232, 14852, 1307, 18951, 12452, 19218, 39673, 44695,
      9429, 34919, 20219, 19554, 47660, 13283, 26762, 37772, 15996, 25879, 30654, 34395, 19840, 9714,
      358, 138, 8491, 26132, 16766, 43949, 340, 4857, 9569, 10582, 5498, 21300, 8556, 10913,
      1932, 2352, 15848, 3236, 27716, 45123, 42261, 39919, 36575, 34704, 5619, 14973, 20538, 25372,
      18800, 6344, 6139, 785, 30403, 23173, 27734, 31778, 8036, 8315, 6313, 22052, 18556, 2169,
      14138, 18693, 26417, 11826, 25833, 6591, 37226, 7597, 42138, 24323, 4652, 28226, 33210, 19799,
      42359, 7069, 47899, 42417, 47111, 5744, 17438, 29504, 26039, 11951, 929, 48970, 22852, 8767,
      11120, 28797, 11738, 44014, 2011, 17297, 40379, 46894, 44179, 18990, 27840, 21312, 26167, 39332,
      49434, 16390, 11172, 40603, 22967, 36129, 45734, 42903, 49211, 18019, 1141, 10233, 15434, 16743,
      3134, 39758, 47733, 18626, 17858, 34591, 42849, 28011, 36027, 10213, 36788, 48541, 24950, 36268,
      35426, 17514, 13749, 10516, 34587, 7461, 38392, 47584, 39832, 9342, 12336, 37437, 9428, 38244,
      48459, 1998, 24364, 34624, 2282, 28939, 28669, 13392, 22785, 6439, 27997, 6031, 33154, 30373,
      34396, 11777, 19539, 17154, 40486, 40312, 11381, 4658, 12497, 9101, 10058, 34610, 20584, 36636,
      37822, 5889, 14376, 19086, 24306, 48793, 16715, 36576, 29808, 47575, 33703, 10651, 34542, 32402,
      16977, 24995, 3744, 17373, 38211, 47834, 23377, 1875, 22190, 3760, 48366, 35820, 13654, 13146,
      37383, 15812, 3321, 47666, 22432, 3311, 47020, 44299, 47159, 12743, 45639, 44363, 8210, 44199,
      17740, 21386, 16018, 34285, 15114, 22207, 4492, 22054, 3112, 44602, 35634, 33623, 47972, 4912,
      5463, 22760, 27005, 5482, 31337, 12605, 47832, 3828, 16724, 30502, 37465, 37755, 29075, 37418,
      17543, 17709, 43056, 21180, 6796, 5808, 30519, 17839, 5410, 8333, 30119, 29538, 2800, 42604,
      10332, 45496, 24000, 29033, 19835, 46546, 40583, 4378, 41689, 28933, 21259, 6716, 26512, 28369,
      2261, 40197, 20389, 42070, 32327, 42752, 11190, 17569, 34775, 193, 46571, 49619, 8770, 30795,
      21909, 33539, 31259, 43355, 17862, 18230, 28803, 12466, 30483, 47338, 24370, 14868, 14567, 16789,
      49442, 26649, 49654, 42856, 6317, 44619, 6581, 26955, 34215, 32174, 33110, 23852, 46087, 44096,
      20961, 9168, 25634, 48798, 30600, 19900, 7368, 2044, 7156, 16288, 7851, 42946, 44900, 13615,
      30462, 1492, 47819, 778, 9885, 31600, 9277, 35292, 23567, 21174, 5374, 24173, 40572, 16232,
      14849, 8259, 32762, 5827, 32808, 26957, 32698, 11240, 29492, 47842, 11639, 6816, 43472, 31655,
      14140, 34228, 4493, 13074, 29304, 13686, 13947, 11002, 7230, 28365, 10412, 5075, 24264, 21778,
      42409, 19330, 48006, 4088, 18351, 34518, 4249, 23383, 8472, 42864, 8787, 22010, 12109, 6142,
      38429, 46738, 15037, 9031, 20980, 2659, 141, 2597, 6701, 15223, 17761, 2454, 22746, 7418,
      21125, 10449, 29516, 44898, 47390, 23952, 16843, 8179, 44333, 28276, 9528, 6370, 37396, 22424,
      33209, 9794, 25215, 41814, 36598, 49259, 28795, 38547, 39112, 10693, 1958, 155, 10487, 48103,
      37346, 1089, 22433, 27516, 12576, 9122, 32602, 40718, 11101, 18058, 6980, 6416, 16021, 41855,
      11439, 18710, 39864, 33866, 5433, 48125, 13230, 6450, 45096, 43553, 18099, 25556, 30112, 24765,
      25817, 20215, 36116, 4079, 41945, 49201, 587, 9346, 46037, 46305, 47176, 43732, 49420, 26475,
      46443, 21953, 30090, 16299, 30930, 645, 30129, 44517, 9587, 32220, 11739, 15036, 32994, 23172,
      24217, 26515, 36632, 26819, 43360, 9752, 8004, 16154, 20095, 8438, 26170, 1529, 1125, 33691,
      1283, 42870, 31852, 48764, 39951, 44918, 15149, 2591, 5906, 11205, 39901, 2307, 25188, 20074,
      17071, 33380, 23551, 19584, 43936, 6629, 4135, 1898, 13937, 282, 258, 11116, 6530, 37711,
      19206, 14721, 11531, 19909, 29139, 6971, 13521, 37991, 2285, 22447, 40846, 21038, 21384, 6710,
      49175, 10403, 21800, 33243, 6411, 2551, 29450, 6852, 32658, 38314, 13489, 23128, 26390, 21253,
      18658, 41971, 23648, 25643, 42951, 20354, 13565, 22263, 16280, 34881, 29118, 39961, 18489, 6823,
      27624, 781, 14939, 18133, 30798, 30932, 10983, 6519, 5774, 30933, 13171, 30573, 9283, 9369,
      12819, 18708, 43039, 37823, 10800, 48776, 1727, 16994, 4666, 30651, 24487, 8535, 27733, 3750,
      12924, 12722, 30575, 11407, 97, 3137, 46136, 14357, 17921, 13140, 3648, 43617, 12485, 1633,
      21008, 45232, 44629, 49693, 18474, 23481, 6171, 7521, 33340, 32316, 9879, 48850, 19446, 33365,
      15352, 23017, 49306, 24259, 47409, 7345, 6304, 47389, 49321, 16376, 47591, 29055, 22360, 18322,
      47925, 49141, 34521, 28228, 18745, 20644, 5432, 22669, 45951, 47171, 2539, 11929, 48150, 41903,
      48500, 1171, 7927, 14289, 31358, 32262, 47562, 36768, 17073, 15892, 48973, 18681, 40785, 2643,
      30314, 5347, 30508, 41800, 32972, 7896, 9833, 34782, 28047, 32591, 17015, 8461, 19675, 34742,
      162, 37766, 47699, 9557, 27037, 37481, 9067, 1431, 15261, 23252, 45603, 13975, 1619, 7710,
      7736, 37051, 7531, 46907, 17069, 13493, 42821, 43619, 3384, 2839, 29312, 5105, 15078, 29309,
      19715, 26201, 43363, 25279, 2096, 42963, 22436, 7999, 29252, 16370, 5017, 25122, 17833, 23284,
      18994, 18284, 24570, 35525, 32373, 6397, 42845, 28272, 46698, 46850, 34865, 8329, 30268, 41796,
      3471, 45657, 14472, 18509, 30254, 34501, 18394, 30447, 34051, 45253, 12448, 10028, 21621, 33787,
      16184, 48055, 9518, 27386, 25051, 19194, 1651, 33598, 33937, 10720, 6256, 28854, 5469, 29411,
      16044, 10258, 43934, 13428, 37861, 21817, 541, 42092, 12693, 5997, 3390, 44848, 43922, 28731,
      14226, 16029, 49928, 43543, 11005, 36727, 27523, 6643, 29750, 23225, 16087, 3586, 29197, 36060,
      2563, 43590, 27766, 47208, 37804, 33848, 38659, 26661, 14537, 2023, 13109, 48737, 7909, 48393,
      23705, 1013, 18313, 42003, 38019, 9596, 34947, 17081, 23762, 12087, 5110, 24286, 34546, 36751,
      15379, 23928, 40372, 19873, 13944, 26832, 35851, 10805, 19033, 43241, 19363, 37900, 2159, 31656,
      11329, 25498, 14042, 14566, 39213, 36735, 34196, 3081, 2520, 44522, 48057, 42815, 48266, 38787,
      16832, 25860, 22656, 36495, 41321, 22663, 29806, 36068, 9496, 39019, 5926, 29725, 16406, 18450,
      18037, 8894, 8706, 1376, 1724, 27044, 3754, 43285, 29739, 20567, 46486, 36850, 26062, 44638,
      24858, 45268, 13057, 19921, 28444, 23387, 43541, 20714, 28927, 42719, 14571, 29334, 17030, 23911,
      33069, 14215, 15997, 39933, 28044, 48355, 43950, 37643, 10736, 30841, 12258, 18544, 33453, 48497,
      11435, 48017, 14291, 2461, 12275, 27413, 11889, 39896, 38714, 4583, 22168, 45000, 26806, 23953,
      45838, 16905, 29921, 48666, 3983, 39071, 42676, 33548, 17153, 21991, 5978, 25227, 20131, 34964,
      46857, 49865, 20669, 12504, 42600, 26189, 6979, 32125, 11824, 25538, 31182, 35144, 17630, 23888,
      44251, 39279, 13279, 28270, 48954, 47241, 5439, 10759, 39261, 41732, 29956, 27065, 28138, 38278,
      38098, 45454, 4531, 9866, 10142, 44857, 28903, 22804, 16531, 18052, 11280, 35479, 24034, 28082,
      7788, 36224, 28758, 4940, 41991, 26724, 22614, 39851, 30111, 31186, 25431, 7099, 8080, 23472,
      47700, 48181, 27425, 41674, 25364, 28671, 20281, 47421, 23561, 42080, 6172, 3631, 39040, 25000,
      33160, 3191, 32784, 30911, 49454, 19877, 30620, 26035, 48041, 14056, 7394, 21223, 33361, 28411,
      37487, 25121, 38595, 10749, 24345, 29300, 22420, 4798, 10634, 4795, 44002, 41424, 163, 671,
      47076, 49744, 16052, 24817, 22740, 30784, 25476, 5542, 40761, 24022, 23177, 43668, 7758, 37605,
      6548, 24282, 4481, 3716, 10837, 38908, 9956, 31174, 34317, 27605, 26715, 30874, 31238, 14818,
      33535, 5693, 32371, 42468, 15422, 37285, 12411, 48857, 48295, 3292, 41779, 34171, 1382, 43108,
      23312, 34406, 46851, 32003, 41568, 23291, 31823, 6406, 9074, 28141, 28861, 5448, 29794, 44936,
      37846, 25032, 30158, 26526, 46332, 36618, 39256, 31497, 42913, 13828, 39922, 6430, 6610, 27286,
      37947, 20733, 12330, 18268, 12677, 35262, 28179, 33613, 8734, 11916, 28763, 11871, 45183, 7967,
      23563, 40108, 46659, 31822, 16920, 17347, 39905, 35732, 5772, 23429, 35298, 11138, 14716, 8429,
      37685, 31055, 25709, 31552, 5901, 8286, 29984, 8984, 5656, 28937, 38675, 7373, 48577, 6721,
      24226, 46484, 12686, 8264, 40461, 29619, 31750, 28495, 8325, 7629, 45033, 11421, 34594, 21932,
      25169, 12329, 33328, 31982, 36875, 24819, 5435, 4437, 10382, 24981, 17826, 24837, 37174, 36035,
      18073, 42685, 38067, 18880, 30682, 35585, 18792, 22641, 5782, 16163, 19169, 9715, 10699, 49260,
      4895, 26342, 20421, 13395, 32916, 16669, 32376, 18752, 41323, 26116, 29301, 37211, 7446, 33004,
      15901, 34447, 10754, 39891, 48835, 42891, 46479, 29328, 3083, 33400, 23197, 35433, 207, 28982,
      25592, 3374, 10526, 42828, 47556, 30137, 44843, 48031, 32007, 46877, 9686, 19201, 5249, 32581,
      8533, 40194, 45113, 48220, 40747, 49025, 34503, 14484, 4255, 47736, 2475, 10756, 5051, 3713,
      6704, 2472, 37957, 10106, 31367, 16456, 14210, 7843, 45408, 46820, 45799, 12323, 39532, 25766,
      31007, 10793, 33893, 17625, 49690, 29371, 44311, 32496, 47684, 23164, 32117, 28482, 4358, 46882,
      17727, 33537, 21400, 7421, 39420, 27213, 9160, 26122, 23711, 40390, 33755, 27042, 16014, 2852,
      11695, 41621, 14996, 17014, 29344, 17633, 26160, 42422, 3040, 16035, 37778, 145, 23384, 36041,
      31910, 7227, 36451, 39575, 45105, 34084, 35993, 49711, 31401, 9852, 38520, 10617, 16393, 37384,
      28552, 49310, 23253, 34068, 23669, 15222, 22668, 49375, 13673, 42668, 5495, 21675, 42368, 34566,
      12149, 42435, 24611, 6441, 8636, 24489, 18743, 23486, 3654, 7052, 29734, 44139, 34054, 20829,
      34905, 23171, 43596, 44976, 12289, 42641, 47789, 13467, 6894, 42652, 36378, 27117, 28211, 7151,
      6012, 46413, 46881, 37650, 13076, 45379, 44814, 36914, 8906, 39310, 21627, 27764, 4431, 47868,
      33174, 24596, 39338, 13178, 26987, 16173, 26966, 25519, 8234, 43790, 46819, 11563, 27598, 11556,
      16353, 21636, 32779, 4760, 1177, 31348, 26523, 43461, 35631, 6471, 28441, 22612, 41986, 12040,
      35757, 25537, 11207, 39778, 44298, 14437, 22443, 31010, 28144, 8927, 45360, 17824, 49702, 31324,
      35643, 12178, 9108, 34958, 37574, 27723, 23616, 3726, 26200, 41781, 40957, 1367, 3712, 38218,
      17772, 25426, 33768, 31116, 7761, 36321, 4114, 26213, 1667, 29165, 35941, 25923, 39882, 488,
      19614, 27208, 6924, 45743, 21592, 7848, 5704, 40901, 17087, 37873, 4033, 36059, 8125, 44633,
      26984, 13380, 42287, 49569, 46733, 47055, 13598, 48045, 48777, 30659, 37208, 42823, 29259, 49398,
      48564, 49070, 49252, 24089, 15504, 28625, 22473, 15577, 38006, 47414, 45141, 48845, 13669, 40287,
      23196, 42759, 41974, 42324, 10225, 4470, 17275, 43753, 1969, 12595, 32556, 38525, 22911, 39062,
      12115, 13605, 40363, 9110, 3249, 6570, 6638, 15398, 23857, 45272, 125, 38138, 1239, 35057,
      41235, 25611, 33997, 9200, 29856, 39748, 37946, 28404, 10724, 20677, 1058, 39030, 15360, 27420,
      281, 25619, 25892, 47614, 968, 16001, 20337, 34707, 17658, 619, 18309, 1742, 17774, 14135,
      26155, 9847, 36336, 26928, 26788, 15563, 6116, 35946, 19576, 42267, 6099, 16959, 43320, 23040,
      23499, 13994, 38663, 6276, 42240, 48733, 45917, 11083, 5724, 10831, 16653, 33397, 44738, 39198,
      36142, 12588, 32419, 20939, 21927, 13760, 43006, 2113, 26616, 35984, 45893, 3814, 41089, 35923,
      47064, 35046, 4599, 32781, 34414, 29052, 48907, 35133, 4648, 44965, 26916, 33142, 22861, 525,
      41899, 11561, 46678, 12765, 23279, 26723, 19975, 27490, 19342, 33297, 21116, 42229, 45241, 17778,
      29426, 12201, 45350, 11171, 26017, 26958, 49844, 12003, 22015, 31585, 31860, 25849, 6563, 4703,
      15282, 39063, 33723, 39443, 36221, 25963, 12803, 47908, 8595, 34839, 956, 46804, 7005, 30027,
      33120, 46286, 16309, 39004, 45500, 28706, 8946, 14025, 49975, 2920, 37412, 661, 16082, 39825,
      10181, 20049, 24363, 26911, 4790, 2356, 44662, 28380, 18311, 49595, 20022, 31890, 26745, 17650,
      13612, 1560, 44555, 10326, 7179, 15349, 15313, 46026, 36877, 29545, 21288, 33282, 33662, 8601,
      16405, 27961, 49936, 899, 32975, 48734, 33226, 26630, 35198, 24826, 13629, 25683, 3389, 26289,
      36679, 25291, 33320, 26015, 39685, 18440, 1925, 38850, 49476, 25003, 9078, 105, 3041, 16369,
      10361, 32857, 23398, 15525, 43201, 47219, 23116, 18333, 45004, 46824, 27424, 6368, 22431, 9127,
      8905, 35488, 30811, 29781, 46389, 8783, 49784, 39499, 43408, 9768, 46167, 3762, 32981, 30087,
      48523, 41688, 21804, 6154, 26143, 41125, 17773, 29009, 30015, 26589, 36935, 20172, 29759, 16967,
      35201, 5109, 9208, 48700, 8712, 34531, 13547, 28541, 11536, 47837, 3224, 526, 15251, 44859,
      5655, 41652, 38827, 17343, 39110, 30707, 20017, 46765, 17434, 8782, 8711, 3380, 36444, 5776,
      39341, 21563, 34375, 19994, 18639, 23019, 49998, 26385, 17175, 41752, 19440, 26431, 1980, 11425,
      19982, 44923, 12857, 7424, 5626, 32196, 34450, 28602, 16335, 39214, 33756, 32347, 28087, 47851,
      44413, 22042, 11722, 3093, 13261, 46766, 23411, 17482, 10396, 35612, 41846, 3342, 16422, 32232,
      6540, 23650, 14288, 36124, 13025, 26029, 11745, 44569, 48682, 29241, 27082, 27570, 47182, 31598,
      7813, 49680, 21510, 27083, 35196, 21427, 21730, 25338, 11939, 21195, 24860, 37567, 23821, 2353,
      11383, 20953, 9077, 8073, 14859, 49418, 7491, 45539, 49108, 7059, 13507, 16661, 5084, 26660,
      25821, 35150, 33339, 1435, 13281, 42207, 21736, 29257, 44486, 47517, 10706, 5445, 1007, 31575,
      37311, 12987, 7009, 31966, 34832, 1136, 9882, 30220, 21727, 10177, 33062, 26123, 26588, 18787,
      26705, 36766, 42534, 36509, 11700, 22890, 2719, 40329, 12713, 47638, 2808, 9017, 22534, 2469,
      3738, 20670, 46249, 26292, 32088, 33130, 39692, 18088, 31290, 47456, 2139, 19623, 7314, 20695,
      34080, 26572, 6183, 30561, 11303, 1591, 49251, 18546, 2396, 47327, 9516, 38001, 48627, 21452,
      20420, 41755, 3020, 9903, 40996, 29125, 41873, 46681, 5295, 3972, 21754, 14663, 4133, 33742,
      40059, 25559, 15585, 42520, 46542, 29192, 28841, 25931, 23265, 37784, 17602, 32284, 43642, 23874,
      46007, 18024, 17674, 44641, 17764, 34701, 37443, 10222, 33660, 7287, 7906, 28831, 24578, 47319,
      26685, 25425, 18850, 7657, 42874, 26172, 30448, 18297, 11362, 46600, 726, 7214, 8245, 15876,
      14199, 43513, 27376, 17320, 40042, 11593, 34157, 36332, 41844, 38197, 15934, 14899, 24262, 48280,
      14561, 34636, 29757, 40970, 806, 37573, 32123, 41898, 45028, 48953, 49953, 43194, 31883, 9155,
      23895, 15152, 4494, 35400, 47054, 48623, 25280, 40600, 47037, 32913, 34801, 32413, 24951, 33933,
      44460, 2050, 20144, 32733, 10816, 12676, 3430, 24574, 39837, 37129, 10616, 18155, 19895, 33039,
      12984, 8436, 29629, 45084, 49727, 41773, 49606, 30586, 3810, 13919, 29969, 27788, 9996, 29430,
      37114, 545, 8502, 44481, 15229, 9323, 13737, 28687, 48288, 27345, 7564, 15317, 44547, 6640,
      28535, 40998, 12651, 23510, 20662, 31705, 2983, 29866, 16514, 13409, 30907, 35435, 9374, 24077,
      21776, 614, 17850, 37265, 19426, 25510, 36062, 6737, 34268, 29398, 41786, 17905, 48909, 15023,
      11122, 4232, 24070, 8820, 37198, 44813, 16774, 28921, 19541, 22297, 12182, 41360, 4806, 29711,
      48695, 27935, 46617, 25064, 11918, 15896, 5319, 39887, 2421, 1750, 11344, 12254, 49667, 338,
      24791, 44623, 1341, 49453, 28470, 36408, 21520, 35772, 6960, 4090, 26212, 23051, 23393, 20581,
      19933, 9650, 41131, 20587, 34020, 28145, 45186, 24354, 13350, 48750, 18023, 9130, 60, 34008,
      37904, 35111, 15048, 34888, 1524, 40385, 32921, 47304, 481, 38890, 45420, 24058, 12112, 15850,
      31987, 1762, 48275, 8942, 40483, 21792, 23863, 29077, 4853, 2711, 23150, 28769, 31463, 11046,
      24762, 25712, 6819, 24063, 13081, 21874, 11555, 21172, 19250, 38709, 35835, 48830, 36397, 29373,
      24027, 35796, 35737, 11664, 27529, 8646, 47924, 46828, 30987, 4263, 29402, 17029, 15646, 40760,
      16725, 40809, 1622, 12875, 31896, 22180, 39952, 49178, 31653, 38243, 26665, 31889, 16458, 8996,
      11372, 41401, 17685, 23752, 34072, 41196, 36801, 35367, 12808, 2573, 27856, 35954, 28529, 37599,
      20607, 24557, 2106, 19063, 48285, 45648, 29975, 17771, 43861, 7083, 45960, 1279, 13221, 33572,
      14596, 11382, 37334, 29378, 49614, 15358, 37609, 19978, 22419, 23236, 42880, 8705, 31419, 13859,
      41874, 36220, 20079, 2198, 16032, 4425, 6150, 47057, 17327, 822, 47838, 21389, 41124, 12175,
      18922, 47917, 9503, 31821, 21591, 49411, 7970, 13575, 35822, 20059, 24160, 39986, 6722, 3300,
      19694, 31480, 8519, 10682, 30678, 47063, 10998, 45368, 44039, 49761, 19846, 26399, 40411, 16438,
      47190, 10093, 34249, 37641, 13087, 40806, 12342, 25522, 38565, 11485, 26737, 38000, 6645, 28865,
      48302, 38258, 33536, 18449, 23570, 28071, 7311, 24861, 42460, 20908, 27952, 2717, 2079, 27965,
      33719, 24442, 2482, 26838, 41949, 1759, 9984, 20806, 9916, 21566, 31195, 24917, 37011, 19816,
      46163, 4944, 27696, 38356, 16241, 10395, 19097, 4757, 28734, 37148, 46240, 22359, 19956, 45765,
      5299, 1990, 45080, 45719, 13490, 4971, 49678, 45994, 6783, 36368, 8666, 8070, 8577, 7973,
      43082, 34393, 25150, 40738, 13224, 32409, 36980, 39224, 31880, 9524, 11694, 2708, 39282, 37430,
      34622, 35840, 19256, 47523, 1645, 36185, 36244, 22116, 11053, 34560, 13718, 47882, 3797, 3368,
      44327, 39964, 20530, 44409, 41563, 27632, 126, 38727, 46403, 15343, 37219, 39915, 19915, 27306,
      33595, 26215, 15328, 17368, 44241, 7783, 10380, 10457, 2443, 24938, 10541, 814, 12999, 44165,
      48856, 43879, 14153, 12298, 5779, 34884, 33561, 10147, 39666, 35442, 16478, 48538, 20609, 3756,
      35659, 18755, 14382, 20103, 35996, 40631, 6359, 49022, 29486, 23710, 46197, 43872, 46714, 37380,
      32265, 19029, 2243, 38141, 2336, 17334, 32154, 44028, 1120, 32184, 10789, 33187, 922, 9446,
      25053, 5408, 5788, 15374, 21951, 31273, 24519, 17586, 31110, 27202, 41157, 1970, 11302, 4018,
      26727, 36455, 18381, 45558, 11246, 34016, 2192, 19096, 9184, 18574, 37438, 21526, 5984, 6565,
      7804, 11954, 39711, 28173, 29287, 9510, 43303, 18520, 17449, 14060, 16984, 20611, 40345, 77,
      23930, 19282, 15524, 21204, 23325, 30523, 41832, 8007, 21852, 5951, 43925, 36159, 5415, 8162,
      19019, 5256, 36298, 8567, 1908, 42929, 235, 12219, 31037, 17988, 40752, 42078, 28253, 36258,
      26614, 32293, 14231, 27534, 19216, 43336, 1342, 8512, 34387, 5287, 39809, 2219, 9865, 22422,
      16644, 49229, 45745, 20128, 47362, 39756, 32254, 20618, 1917, 1828, 42533, 45375, 12941, 39001,
      2048, 39051, 36976, 45587, 26386, 42101, 30105, 6469, 32043, 49287, 46514, 48153, 13703, 10954,
      846, 38328, 13234, 47077, 18935, 46685, 117, 41605, 22350, 28746, 14043, 41427, 16389, 38110,
      9111, 10787, 4324, 35358, 24818, 13046, 27446, 20119, 13918, 10589, 11613, 27139, 6767, 5622,
      1605, 26900, 27285, 28024, 3812, 47045, 17260, 10554, 10167, 34529, 48447, 19123, 35240, 15913,
      6738, 23275, 15728, 12199, 7943, 12910, 14369, 26069, 6371, 26734, 16616, 8258, 7561, 42563,
      6168, 44243, 3596, 39056, 4632, 47915, 6229, 29926, 49370, 49318, 10267, 45540, 38518, 8152,
      46271, 35854, 34674, 39650, 23333, 40441, 40940, 1531, 38638, 19181, 17302, 18030, 5122, 5126,
      46391, 15034, 4621, 39577, 16748, 48513, 44247, 2125, 8150, 28699, 8717, 45781, 55, 17022,
      302, 22195, 14178, 13568, 29721, 4432, 19262, 45162, 10478, 43221, 5240, 22574, 10488, 23321,
      23624, 16282, 46892, 26329, 42928, 27693, 18777, 16907, 39144, 39749, 13716, 23061, 36668, 37545,
      45659, 21969, 21508, 23954, 11314, 28732, 10161, 4188, 33434, 36034, 18271, 41240, 42679, 45415,
      24071, 22415, 11637, 6090, 6238, 15183, 40118, 24214, 17144, 6254, 45002, 12015, 36586, 39037,
      4300, 5569, 14388, 7941, 27169, 36932, 19963, 21833, 19856, 39811, 37660, 43088, 4854, 4637,
      42318, 31703, 28920, 17715, 10209, 23386, 25934, 6941, 8017, 42289, 6949, 39649, 13051, 15781,
      26698, 37441, 12173, 39764, 1252, 44238, 15254, 19758, 19198, 22928, 42808, 37626, 24285, 41348,
      8427, 42944, 37131, 32049, 28538, 43125, 14489, 7239, 47198, 36187, 26657, 42783, 49526, 37744,
      4544, 21949, 17100, 45106, 34816, 38765, 48212, 13456, 32201, 4809, 10916, 3636, 23524, 23574,
      15106, 38757, 9860, 49924, 18384, 12763, 29189, 47926, 40943, 404, 384, 8702, 40034, 10344,
      18017, 20384, 46540, 21168, 6938, 6970, 20309, 4158, 23833, 49391, 46318, 8415, 34961, 27712,
      1015, 37892, 29548, 23793, 19255, 9, 10136, 4804, 5713, 45445, 34349, 27532, 17308, 31471,
      35547, 13216, 38088, 40080, 47605, 38810, 20159, 4835, 37732, 27355, 33307, 31921, 40251, 19129,
      36487, 46427, 9337, 29703, 667, 23959, 24933, 21447, 11023, 10975, 34121, 13323, 7114, 24504,
      41430, 19087, 3330, 40821, 44597, 42356, 38413, 17640, 6190, 48529, 44472, 13843, 30354, 25826,
      21732, 11003, 27860, 27509, 20559, 37678, 34620, 22700, 45740, 36395, 2105, 49285, 46196, 37797,
      17312, 33591, 23960, 28016, 34299, 33982, 504, 14683, 42956, 39298, 42918, 42344, 25470, 13116,
      30355, 3709, 49509, 21233, 4748, 20652, 44482, 15485, 28710, 28178, 25289, 26790, 38069, 6588,
      34578, 19870, 23803, 35909, 25731, 1324, 37080, 40262, 26256, 41459, 17749, 26432, 42348, 13807,
      28295, 26962, 22556, 17924, 19065, 23322, 27569, 39081, 46732, 21677, 1542, 44261, 11516, 7056,
      35307, 17337, 23625, 48136, 6731, 37614, 6801, 24394, 37098, 8924, 38102, 23714, 9348, 37497,
      22925, 11174, 21689, 21545, 24244, 18540, 1062, 27192, 1167, 40419, 21972, 11130, 31667, 23576,
      37259, 21364, 8335, 5486, 32307, 17101, 35270, 4360, 36939, 24466, 49716, 16779, 13923, 47280,
      39954, 698, 728, 46959, 41555, 14397, 44912, 46352, 21352, 2914, 47320, 43286, 5644, 20150,
      36208, 44811, 32479, 7357, 23190, 34911, 5104, 37841, 17955, 20463, 17506, 48816, 47295, 35735,
      18888, 38756, 44425, 27384, 23548, 33496, 40355, 7543, 412, 11338, 26092, 38513, 24052, 17209,
      3267, 20358, 41576, 417, 11261, 9817, 15305, 49049, 23132, 25351, 28761, 27472, 27350, 34850,
      27122, 31996, 12161, 3373, 38494, 20491, 43404, 20764, 24107, 17450, 3913, 46247, 38304, 32320,
      40770, 38155, 28074, 35506, 5052, 4000, 26144, 35195, 11938, 6833, 18071, 851, 22687, 25471,
      49115, 29168, 30977, 38646, 27663, 4611, 16364, 9540, 41975, 9823, 35257, 44690, 23289, 40158,
      2849, 31843, 32580, 14069, 23049, 38649, 26646, 37220, 26211, 29222, 35247, 43225, 43919, 29899,
      49658, 13245, 30445, 13296, 44078, 9435, 27932, 19128, 7253, 13284, 3506, 1679, 19531, 8130,
      47893, 16964, 9662, 29375, 13500, 3343, 45952, 49012, 45543, 20056, 5237, 7805, 46175, 16896,
      29305, 1081, 9204, 34699, 23944, 1150, 5949, 8308, 32217, 25316, 25945, 47030, 37945, 28251,
      14098, 17214, 8311, 21136, 26258, 18077, 46185, 17019, 37233, 28940, 39567, 7987, 7079, 39734,
      15202, 4142, 32093, 876, 21699, 21606, 49156, 48747, 3051, 19508, 14599, 48096, 27236, 2491,
      15338, 29749, 4777, 42675, 31024, 31289, 22677, 28312, 33621, 10966, 13121, 32097, 13403, 22386,
      25547, 10893, 4495, 40941, 6655, 12039, 2368, 4780, 45091, 24376, 22009, 23355, 8716, 10647,
      29592, 38754, 19190, 5801, 39974, 40111, 12533, 40328, 40864, 27751, 784, 45017, 34177, 10729,
      16538, 35777, 18070, 11093, 4014, 7455, 45681, 36631, 34663, 38210, 569, 23093, 32745, 34584,
      26641, 19778, 6102, 35743, 10492, 190, 699, 45236, 301, 31216, 3420, 18711, 33828, 32635,
      47202, 43525, 36212, 17453, 43484, 18589, 8208, 40447, 44080, 37410, 45714, 9007, 40764, 27643,
      29124, 5600, 41919, 39790, 32352, 48404, 49377, 30746, 19738, 5895, 10677, 8754, 3436, 47333,
      14373, 6893, 17429, 19830, 45525, 40818, 41914, 4555, 44064, 4735, 20880, 33986, 46214, 22399,
      3987, 21295, 25876, 23328, 38467, 24736, 28643, 46760, 2869, 11969, 21357, 46975, 2961, 46940,
      2200, 16482, 38360, 2557, 48354, 42405, 5539, 32711, 12874, 29299, 12183, 6295, 4499, 1154,
      15151, 42642, 7400, 43016, 7158, 29855, 20932, 47357, 38191, 31616, 2049, 45936, 11835, 16371,
      41976, 25199, 31065, 46843, 16646, 30306, 20445, 21918, 47254, 47025, 39384, 8120, 8155, 1802,
      37504, 11111, 35153, 23078, 5759, 18343, 19360, 8680, 18227, 1734, 2911, 11411, 41106, 30206,
      34754, 6546, 47011, 2811, 26370, 15708, 44357, 20666, 42107, 27848, 25184, 22671, 15087, 44542,
      34698, 23509, 197, 40545, 40772, 2327, 37157, 25342, 12688, 44215, 32970, 4931, 21919, 26309,
      38559, 21556, 46717, 7392, 38623, 24548, 854, 46645, 47323, 37505, 28673, 26736, 27728, 20080,
      1636, 23664, 23938, 44417, 17675, 39353, 46576, 3304, 30303, 28021, 7994, 34766, 663, 13545,
      32562, 31968, 3748, 29320, 5530, 21959, 40294, 9474, 27251, 6776, 1306, 30080, 23776, 44262,
      21976, 15707, 10230, 26105, 18047, 21834, 42941, 48925, 25939, 3627, 46699, 29723, 29467, 2693,
      44020, 49080, 42557, 43689, 43585, 22299, 27890, 9914, 16198, 33827, 1678, 6374, 40342, 14820,
      18141, 22403, 45151, 41523, 48702, 23419, 22361, 21518, 206, 25446, 45453, 6910, 33270, 17412,
      27266, 13773, 8110, 47716, 32482, 5056, 42530, 24538, 10965, 19115, 30818, 14039, 11837, 35222,
      23599, 48033, 13067, 30535, 8392, 22662, 38952, 26854, 3561, 38660, 12666, 13986, 33159, 39504,
      22002, 5258, 48190, 2695, 2027, 2568, 40774, 48984, 49216, 38044, 39976, 8571, 39099, 21243,
      12185, 21271, 9268, 17262, 8529, 24300, 23247, 24276, 24253, 1016, 25851, 40397, 29127, 11534,
      32606, 33763, 26557, 37065, 161, 5675, 6873, 45758, 9692, 40757, 13417, 43573, 11653, 1021,
      19457, 23939, 3943, 1585, 26531, 35920, 14541, 40994, 44974, 17159, 48555, 23483, 2612, 23897,
      11016, 43001, 8433, 43021, 43323, 8792, 10627, 21777, 14502, 30740, 41606, 3890, 3556, 11394,
      31551, 1267, 1899, 35773, 19118, 189, 2747, 18431, 18942, 25658, 41434, 27480, 6396, 28693,
      19769, 17568, 39188, 37819, 5311, 2433, 769, 1685, 41090, 16023, 44131, 47191, 21962, 37194,
      16850, 6265, 11284, 44732, 38158, 860>>

Permutation50002 ==
    <<25272, 22815, 27404, 33493, 26180, 29644, 30686, 32751, 34126, 29185, 12407, 12524, 4070, 3085,
      37972, 22840, 31806, 9998, 4672, 33527, 15393, 292, 22905, 32540, 7592, 20825, 19475, 26869,
      45863, 36079, 43645, 33886, 33155, 1599, 11048, 1030, 13702, 49095, 11843, 8739, 47239, 25480,
      12414, 48837, 40276, 14129, 33152, 1164, 20798, 45313, 21704, 26389, 17031, 8642, 3882, 12469,
      23899, 15726, 23080, 46958, 19334, 7063, 27016, 1390, 27639, 27468, 45342, 18348, 24884, 9826,
      21023, 5266, 13139, 34216, 9195, 38530, 18832, 20071, 40484, 13571, 32609, 13995, 11457, 1536,
      508, 12451, 40759, 33426, 18858, 8279, 15107, 43107, 36296, 19962, 13732, 44265, 21906, 5491,
      30319, 42008, 4413, 5687, 4850, 35291, 20767, 25330, 47424, 32070, 14303, 4305, 6065, 18685,
      31515, 6778, 14463, 3758, 26276, 28320, 672, 45605, 30259, 37506, 22522, 4168, 45715, 46053,
      42176, 31408, 16466, 47396, 43120, 46149, 29005, 48672, 37761, 6522, 48070, 47795, 17487, 14427,
      40797, 15443, 32377, 23239, 45411, 40632, 26003, 18576, 46990, 14430, 28641, 40154, 15897, 21678,
      4729, 29196, 26174, 16085, 22445, 24319, 49725, 2182, 13124, 19240, 27477, 5545, 20657, 2191,
      20348, 19042, 26319, 45286, 39530, 40085, 49407, 15394, 20727, 34833, 18444, 36257, 23318, 199,
      27389, 49128, 43868, 32324, 24551, 45881, 28244, 42476, 15458, 23892, 4243, 26680, 26328, 43182,
      3037, 44035, 28136, 29157, 4775, 44175, 26268, 45664, 15200, 19277, 45437, 32469, 42364, 11062,
      16179, 33231, 41770, 7342, 13963, 19326, 24186, 15607, 3862, 34575, 30793, 27804, 6850, 26971,
      10801, 20824, 34513, 39600, 35148, 1507, 43715, 37181, 20053, 21583, 23137, 7920, 3377, 27178,
      44874, 40463, 44519, 23534, 21433, 39920, 32468, 20730, 14402, 32074, 998, 39525, 2757, 21394,
      36682, 18097, 16941, 24889, 6075, 23681, 42369, 28965, 34394, 41344, 13685, 25312, 8976, 6965,
      37578, 1118, 43038, 42472, 4064, 42961, 37193, 18315, 48301, 44471, 46248, 49969, 17080, 17515,
      23180, 147, 46601, 38978, 25740, 9928, 41977, 25836, 6095, 48109, 43173, 2996, 39134, 17342,
      21244, 6100, 15612, 48409, 14160, 708, 46640, 22245, 26065, 21187, 12981, 36415, 26590, 49101,
      42729, 6735, 41200, 34705, 28691, 18388, 6211, 19068, 14851, 11306, 38420, 39315, 46764, 3570,
      262, 23480, 7895, 8931, 20646, 30210, 5576, 23068, 9020, 34073, 659, 36481, 6623, 40630,
      2008, 17679, 12351, 34725, 4086, 15981, 18314, 42813, 7439, 45576, 31078, 48011, 4162, 19341,
      13242, 43901, 10317, 23428, 35665, 47044, 26610, 16549, 48894, 32770, 879, 11380, 29568, 22618,
      3840, 39506, 33288, 17395, 18473, 30214, 36944, 10657, 26775, 28995, 4229, 43122, 42969, 28219,
      47305, 40196, 41625, 19263, 15590, 48226, 4107, 49336, 2984, 18471, 32546, 22389, 28700, 15526,
      12936, 5528, 42498, 18856, 41663, 44713, 42515, 23975, 11178, 16162, 46349, 7040, 24579, 3001,
      12395, 3426, 11296, 6585, 13259, 23579, 30208, 36093, 8960, 17079, 16243, 34545, 9025, 42938,
      16864, 14446, 45689, 23868, 46124, 36311, 44300, 26713, 6682, 8994, 46693, 24383, 34733, 26544,
      46156, 38235, 8569, 24572, 32674, 44800, 24380, 49516, 47781, 49994, 39968, 19315, 12347, 22726,
      12591, 4246, 3715, 12915, 44361, 19681, 6847, 9955, 6925, 9598, 20206, 1406, 22008, 33242,
      15631, 26033, 48656, 17160, 11477, 9728, 25048, 30389, 26391, 46322, 32028, 14295, 8812, 30901,
      47755, 25136, 41397, 48817, 43796, 3767, 4326, 12147, 29660, 9828, 37715, 11099, 34030, 6381,
      3617, 26452, 11715, 12038, 17227, 5348, 32701, 40078, 314, 29487, 39797, 15083, 5685, 3939,
      44821, 11348, 49882, 30006, 42378, 49938, 44796, 42519, 44396, 10254, 16227, 34237, 12859, 13391,
      42298, 28492, 20768, 4448, 34348, 4822, 42088, 45654, 46736, 3502, 16159, 10810, 28827, 12074,
      20023, 20664, 21025, 13793, 38763, 48655, 39149, 15109, 9430, 4351, 11124, 24210, 47226, 38251,
      35675, 44879, 6128, 1219, 17936, 9661, 44640, 40256, 30334, 17595, 17895, 47350, 4805, 23715,
      2360, 38386, 8145, 26747, 27296, 9960, 46609, 49485, 31901, 44939, 6329, 26334, 8895, 31516,
      41092, 7677, 15961, 27774, 45877, 45429, 43700, 7478, 10389, 31943, 31028, 43878, 7182, 7646,
      48004, 20693, 47303, 46030, 15239, 49125, 26937, 29973, 6059, 12618, 6542, 30239, 48940, 30415,
      32686, 16481, 37912, 17370, 17417, 15071, 3850, 36045, 11168, 48184, 12851, 2791, 14976, 34367,
      37955, 35095, 36252, 38338, 48076, 36791, 11396, 34430, 6034, 3467, 32487, 30056, 25565, 41251,
      12006, 12613, 48373, 43453, 47854, 4, 46458, 28127, 34374, 18418, 725, 9246, 10761, 38074,
      5187, 42200, 20326, 3418, 11342, 35620, 9803, 31292, 14788, 37083, 3279, 16825, 30529, 38109,
      7776, 28227, 22323, 24567, 5874, 7615, 6392, 45707, 7360, 20170, 18972, 6759, 33669, 37043,
      45144, 47340, 41593, 27622, 48902, 31530, 21532, 20969, 42964, 2561, 33779, 19246, 1122, 7950,
      14499, 41447, 1003, 3290, 13695, 3661, 28275, 44992, 45701, 27329, 16703, 46890, 17483, 3737,
      821, 27807, 16794, 26859, 29002, 33516, 19438, 25442, 33011, 28065, 21127, 49664, 10814, 9618,
      6946, 28776, 33450, 12639, 34976, 18586, 35731, 12005, 31137, 22957, 41981, 12151, 25406, 13182,
      15246, 985, 46845, 5297, 12426, 25116, 19075, 12009, 35512, 28448, 9720, 49259, 38497, 28929,
      33745, 31768, 44336, 36798, 21593, 9961, 35847, 26471, 13396, 26238, 47815, 44163, 13363, 48400,
      4506, 5265, 31886, 15952, 49186, 9224, 30704, 32072, 29253, 33178, 628, 37444, 28280, 18592,
      49475, 38900, 15509, 34334, 48317, 11632, 20898, 28344, 11065, 1570, 42924, 29869, 40347, 42948,
      33943, 25219, 23882, 26792, 29542, 48607, 33990, 34643, 33412, 6832, 41290, 30689, 9767, 34780,
      12773, 45309, 24997, 28956, 12403, 44438, 29060, 45750, 36925, 27615, 29577, 43242, 28745, 4504,
      2354, 6676, 10003, 29285, 23045, 34166, 13040, 24609, 7272, 31869, 1444, 41591, 5086, 4348,
      13905, 6143, 47069, 32832, 9634, 13653, 34331, 38063, 35293, 22709, 2969, 21369, 28077, 3804,
      23337, 22472, 43345, 16418, 31188, 21772, 42902, 40487, 31071, 1590, 5633, 19869, 24178, 10539,
      32727, 8171, 20979, 37928, 15719, 11044, 13606, 11281, 15054, 14194, 24342, 20267, 33176, 27705,
      49239, 44897, 16752, 39095, 32351, 41696, 45870, 36346, 14459, 39929, 28802, 21958, 20839, 42972,
      11494, 28156, 16992, 30248, 23394, 8053, 19393, 14804, 11574, 35261, 6373, 18329, 26115, 2528,
      46915, 15813, 416, 6017, 43695, 1414, 47705, 15944, 24388, 17162, 29153, 5294, 13130, 45423,
      36909, 12689, 42438, 6244, 28680, 37971, 18352, 13251, 1941, 9100, 7519, 25885, 15594, 18585,
      45852, 5045, 25940, 30349, 44256, 44584, 18457, 47398, 14233, 8880, 13857, 5304, 46821, 26239,
      23462, 47690, 11535, 32989, 47777, 21764, 27692, 21497, 25724, 42144, 3541, 28367, 29599, 43824,
      47834, 37351, 37572, 5308, 36449, 29215, 10079, 19588, 3003, 29695, 12708, 7817, 24775, 167,
      49497, 6954, 6413, 14006, 48635, 15429, 31635, 21202, 8481, 39100, 47797, 48490, 11212, 12539,
      47832, 17523, 37050, 46769, 9911, 9186, 47444, 15041, 31504, 48415, 32357, 5794, 27980, 7474,
      26692, 47542, 19138, 25077, 15709, 31905, 15757, 8908, 27036, 3604, 40845, 9447, 5012, 31173,
      36695, 6537, 3053, 850, 14148, 9807, 3263, 29826, 32341, 20037, 37296, 1603, 21719, 43110,
      41590, 16397, 28586, 34101, 43389, 5582, 8836, 15507, 34712, 36891, 19002, 10827, 16261, 42503,
      41703, 38275, 10263, 21463, 39394, 27232, 24184, 8317, 7598, 27380, 12909, 38994, 13822, 30125,
      24672, 9061, 21603, 16987, 1644, 4303, 8435, 17202, 20226, 21503, 22610, 35232, 44397, 1901,
      49697, 27142, 45504, 19247, 12214, 35572, 35156, 3154, 34892, 5169, 26368, 43510, 30184, 34855,
      26103, 4878, 39152, 43592, 41780, 14766, 16563, 14159, 9613, 32884, 44917, 38964, 48568, 31108,
      4613, 16890, 15217, 42637, 1097, 465, 25288, 29243, 34118, 26311, 564, 11478, 7576, 39045,
      12883, 18053, 44806, 23348, 49351, 6736, 9367, 47726, 46074, 44246, 22078, 49373, 15452, 42113,
      33026, 2954, 2531, 35038, 23748, 29755, 29302, 43032, 48087, 37269, 43226, 15774, 48830, 7932,
      21973, 38692, 47361, 5823, 46577, 29507, 17593, 40841, 31630, 7356, 49469, 2975, 5746, 26357,
      9086, 30596, 45685, 3120, 20057, 48091, 37680, 30743, 17210, 41996, 644, 1039, 13744, 40552,
      332, 34823, 34015, 40937, 9501, 7682, 24654, 48161, 26621, 37025, 2432, 18512, 12004, 9068,
      11373, 38024, 37520, 19265, 7779, 24352, 32106, 34088, 34322, 18159, 26244, 25303, 35407, 22893,
      45712, 33010, 49684, 36830, 24637, 19705, 19926, 20052, 12946, 4772, 35597, 25925, 22548, 44198,
      35184, 24308, 6268, 45595, 4867, 20972, 20736, 13922, 1566, 18347, 21145, 484, 18622, 29569,
      33192, 16701, 36441, 14686, 29720, 38261, 48566, 26511, 3156, 8468, 1388, 39820, 46204, 23630,
      49719, 33452, 49166, 29745, 14737, 7635, 28922, 49752, 1498, 13480, 31490, 33381, 35351, 1655,
      45738, 8420, 23272, 41051, 9351, 17173, 17621, 19893, 18136, 29838, 47389, 2530, 10099, 31060,
      24835, 21104, 30260, 46083, 17271, 30095, 6715, 35716, 18291, 25392, 7128, 21475, 45189, 28050,
      25554, 2338, 40650, 38486, 2522, 1811, 23643, 12000, 13214, 5712, 33967, 15253, 44578, 5990,
      31643, 1232, 37800, 10604, 33306, 19573, 42791, 1900, 47519, 47151, 19443, 37906, 16033, 45817,
      46712, 39881, 33558, 43244, 26659, 30965, 10026, 17095, 22281, 1738, 13683, 49457, 4962, 3885,
      1181, 13989, 21228, 47921, 40812, 32515, 49775, 18965, 15922, 31394, 9648, 3829, 5692, 47483,
      42338, 43007, 36692, 36347, 22786, 18869, 27557, 37111, 23231, 1822, 14473, 18486, 15118, 45880,
      34402, 7780, 9889, 13114, 25400, 30110, 40972, 5373, 38529, 26045, 42665, 9731, 25083, 664,
      35287, 2210, 42883, 3780, 501, 21110, 10210, 42015, 24311, 10175, 45258, 2863, 46630, 2493,
      18694, 28781, 29707, 32422, 43885, 48245, 20509, 28442, 18532, 29780, 28345, 18503, 47277, 11749,
      9410, 20367, 26373, 11475, 19035, 8473, 32575, 24477, 44870, 17051, 37992, 5920, 30388, 37768,
      23955, 42758, 4704, 45238, 45521, 1114, 21130, 32452, 39209, 31911, 27242, 31540, 12235, 11438,
      3150, 47808, 11449, 45569, 24769, 39317, 7672, 25435, 35818, 6072, 32902, 42053, 2741, 46495,
      7915, 39247, 31788, 18002, 19442, 26652, 8718, 49170, 12512, 6293, 13624, 13920, 24237, 9167,
      4995, 12431, 7743, 33565, 35575, 30617, 6201, 28630, 44391, 35552, 33578, 15551, 3227, 476,
      3180, 13863, 19060, 14595, 20896, 49723, 45444, 13458, 8270, 31263, 33177, 47443, 27428, 9254,
      46202, 1640, 18478, 14023, 30224, 26541, 14109, 18554, 9234, 38683, 22111, 27983, 21935, 34403,
      25391, 22220, 34913, 20933, 9976, 25971, 29653, 6658, 10166, 5466, 9401, 36070, 4985, 27633,
      3035, 26522, 21257, 10676, 49134, 27138, 10741, 2189, 20265, 31405, 48374, 46014, 3402, 46646,
      16731, 8225, 14467, 36232, 43251, 11812, 22514, 28974, 40915, 34221, 4469, 17840, 17406, 21178,
      20090, 27357, 18036, 49748, 35018, 2322, 16437, 19358, 33947, 36283, 20489, 42966, 20757, 38864,
      30330, 28078, 33376, 43046, 13709, 15500, 28446, 32908, 12377, 44937, 10460, 35000, 45784, 38742,
      22004, 31227, 29933, 36990, 33923, 15214, 28980, 10202, 44564, 2213, 40988, 30759, 41961, 5908,
      14128, 21289, 21212, 20848, 15204, 38806, 25720, 6175, 14348, 25841, 23658, 16171, 18623, 17176,
      11235, 30176, 10240, 1422, 4813, 10688, 48383, 25913, 42728, 5503, 25377, 42436, 9468, 7258,
      20775, 5223, 31316, 46242, 30395, 41676, 19079, 46008, 18863, 14164, 38625, 36817, 37173, 11077,
      12635, 32141, 10873, 25606, 29096, 17418, 21444, 5975, 28568, 17652, 44192, 15938, 9738, 32437,
      22496, 29188, 543, 3593, 27189, 40295, 18461, 1163, 21425, 8035, 43762, 4883, 9237, 21790,
      18067, 37316, 18885, 5907, 47821, 4264, 9170, 43203, 31798, 6234, 30878, 41992, 45636, 4605,
      13041, 5568, 44603, 25154, 8492, 17313, 20135, 45248, 10241, 24056, 30731, 2441, 6484, 4788,
      11730, 46790, 4828, 20552, 22390, 6793, 22362, 4865, 23502, 15108, 22133, 20430, 32759, 10520,
      22776, 40624, 43069, 38004, 23591, 1812, 40986, 32755, 1005, 25492, 40694, 44606, 454, 29270,
      12051, 39490, 23352, 47179, 6689, 29076, 22427, 40590, 22697, 30188, 42121, 45666, 10927, 25953,
      9134, 19719, 8297, 44558, 38036, 28637, 24410, 37227, 14486, 14768, 37742, 12868, 14522, 17255,
      7916, 35867, 42372, 13614, 28316, 21234, 34471, 22806, 46178, 8684, 40318, 46870, 26041, 32495,
      10496, 46225, 34418, 27858, 27694, 25080, 8790, 18914, 47634, 33510, 28856, 22154, 27878, 23210,
      9427, 24830, 14643, 29820, 31149, 49235, 27820, 46194, 43727, 32858, 40523, 41289, 26920, 4829,
      25023, 24029, 40622, 176, 42286, 37224, 10508, 6515, 49396, 39578, 2899, 42346, 19527, 35878,
      15650, 49617, 30626, 14791, 5763, 36235, 16666, 7955, 40306, 7324, 1741, 20616, 13734, 36946,
      48953, 18278, 11665, 30557, 32935, 5235, 40217, 21193, 42028, 22138, 47061, 45782, 18805, 44406,
      32693, 3539, 30101, 5370, 16962, 4455, 25033, 23366, 35625, 7306, 49027, 32159, 4039, 18714,
      36717, 9006, 8393, 1792, 41132, 13608, 32506, 14761, 12364, 12514, 45670, 18894, 38156, 38336,
      14203, 25543, 8648, 29008, 4016, 4459, 45173, 41818, 11270, 11757, 18614, 6108, 22903, 35406,
      48594, 39230, 25984, 32421, 11682, 18995, 47964, 7112, 1584, 34034, 40280, 16914, 31219, 35734,
      11476, 9073, 10151, 43955, 15811, 5367, 49154, 24913, 5034, 36783, 19735, 2868, 35265, 1704,
      29908, 20062, 37651, 26752, 20845, 13701, 34155, 29037, 27510, 47010, 49633, 14045, 27227, 20026,
      16423, 1276, 6660, 330, 37060, 10020, 11619, 15411, 11107, 6049, 18377, 36550, 36797, 31492,
      27096, 30612, 4475, 15694, 26353, 18236, 9798, 10869, 36834, 26831, 18496, 7891, 46916, 7134,
      34277, 35899, 20216, 1180, 32838, 6756, 43769, 949, 38171, 35951, 37745, 18896, 32100, 16580,
      16248, 36450, 17792, 37982, 20971, 24396, 32386, 34224, 44648, 8578, 45831, 25668, 34138, 18192,
      3419, 37625, 7337, 21546, 9400, 3776, 5114, 22477, 42986, 29297, 22839, 32458, 37417, 18719,
      7686, 22478, 2579, 12933, 36239, 14731, 13118, 33090, 18798, 34955, 12010, 45145, 8470, 36831,
      11538, 5715, 46187, 21379, 27311, 4669, 49205, 43306, 41042, 37156, 25408, 44142, 29761, 46897,
      20477, 21549, 36006, 13538, 17193, 24724, 34444, 37186, 17964, 9736, 39460, 34007, 12830, 18902,
      6720, 21461, 38438, 37274, 20636, 19872, 27150, 38238, 16765, 48248, 2767, 30410, 36200, 14285,
      38286, 41114, 42419, 1175, 44906, 7844, 47970, 34415, 4252, 38145, 18004, 40489, 47434, 13022,
      42750, 24223, 3785, 11035, 30291, 18188, 36795, 16883, 41582, 44596, 8639, 34907, 36272, 34369,
      17141, 469, 10477, 34903, 25950, 41361, 38837, 35130, 34966, 15481, 8188, 1282, 47136, 29045,
      7836, 4855, 42036, 23766, 21748, 37469, 20261, 21417, 21090, 35370, 48001, 46487, 20747, 3168,
      30446, 842, 18270, 2059, 5245, 28796, 2110, 35849, 3928, 22497, 24065, 4980, 31339, 31810,
      20820, 47325, 36166, 4248, 12081, 33121, 4108, 14198, 15356, 4745, 1710, 32760, 26758, 25483,
      32892, 46279, 47693, 37867, 10852, 16570, 20450, 35042, 29889, 43438, 37229, 48825, 34616, 3732,
      38381, 39671, 21590, 33815, 30014, 2608, 35573, 20302, 21051, 26945, 38938, 3519, 45023, 48803,
      42611, 11617, 12586, 30274, 44380, 11980, 46657, 29016, 45487, 49007, 34233, 33185, 3104, 33254,
      20688, 21001, 4759, 23537, 28773, 25956, 31181, 20117, 29718, 31857, 28381, 42343, 49689, 29708,
      13433, 24452, 17770, 8350, 38878, 26263, 12971, 46266, 35252, 18372, 36927, 7893, 32055, 23737,
      36227, 5567, 29177, 29938, 22566, 46444, 38348, 40407, 41811, 42718, 30135, 27084, 36228, 15259,
      26960, 15444, 7841, 43842, 26513, 17054, 39814, 40729, 27708, 3494, 45052, 39965, 3335, 1863,
      47263, 27553, 26230, 36837, 10592, 6848, 19970, 19066, 25263, 11547, 44919, 34082, 24675, 38887,
      13674, 40433, 3016, 8663, 47460, 20867, 2729, 47047, 16764, 2593, 38788, 46735, 15010, 40011,
      4816, 9011, 40304, 40061, 2004, 37423, 22294, 12656, 8037, 40000, 6804, 44345, 38439, 4892,
      24862, 25916, 27628, 24389, 14165, 4315, 46475, 39064, 8940, 23449, 44982, 26552, 30797, 4689,
      31572, 12814, 38307, 26733, 28480, 34411, 9986, 15334, 30033, 38023, 35636, 7427, 42655, 31450,
      33083, 41553, 15985, 16601, 32837, 34516, 341, 46558, 14013, 43003, 30772, 46680, 43737, 7831,
      37703, 6750, 46195, 38534, 38425, 28780, 10835, 29893, 21992, 13466, 29627, 23680, 30812, 31998,
      17722, 34399, 46140, 45201, 13420, 7800, 40269, 27191, 11433, 6016, 17844, 34432, 17289, 44720,
      49286, 25880, 42741, 29339, 22339, 21089, 28828, 7789, 44239, 30656, 26545, 36226, 6651, 47074,
      2574, 16808, 33253, 15033, 17309, 43777, 46034, 32976, 18389, 35553, 24482, 37749, 30039, 47588,
      25531, 33485, 5369, 44084, 3025, 46652, 38003, 22672, 1954, 41819, 9441, 6496, 4421, 14302,
      3184, 2116, 18295, 24525, 38022, 44650, 25830, 21048, 34037, 32166, 3863, 3253, 39917, 22630,
      20065, 5159, 27822, 2418, 39686, 25893, 31434, 38760, 41754, 32690, 33433, 25929, 10413, 9058,
      27826, 35241, 144, 34829, 11398, 15656, 27680, 36546, 42117, 23206, 39727, 13645, 1253, 19136,
      22954, 33336, 6887, 39637, 44553, 41842, 41320, 44350, 6752, 5751, 13443, 33017, 24152, 31151,
      17134, 42812, 47722, 7852, 39630, 34434, 39304, 3396, 44503, 4144, 6923, 22201, 44329, 20632,
      47538, 1121, 11986, 8230, 25814, 43815, 24113, 9391, 31524, 32996, 7652, 27092, 46986, 19535,
      13586, 9284, 40997, 12283, 5522, 42576, 18331, 46374, 9293, 48483, 13389, 44115, 29574, 34984,
      2084, 43712, 21315, 18224, 13289, 40705, 9861, 47906, 44902, 22332, 35910, 7667, 399, 30891,
      38821, 2710, 9553, 26429, 38234, 19349, 3564, 49381, 14552, 34384, 1372, 21441, 926, 22590,
      34922, 8466, 28504, 39593, 7175, 30404, 17686, 29645, 27434, 10890, 11275, 26577, 7479, 33180,
      22602, 23443, 15825, 13342, 40416, 17737, 25983, 16460, 45116, 43923, 26433, 28764, 5836, 28601,
      30644, 6230, 13539, 39690, 38404, 13268, 1162, 13000, 9793, 29835, 4449, 12895, 7168, 19052,
      19804, 7070, 38501, 4513, 24163, 30172, 33385, 31931, 28286, 42491, 49483, 43448, 22370, 36871,
      17698, 45792, 17163, 48811, 11450, 21597, 10406, 3136, 3431, 14085, 6020, 32843, 42730, 26550,
      17003, 20496, 37894, 2672, 21308, 2476, 33321, 46166, 22730, 1911, 24145, 34857, 35781, 18700,
      30288, 48864, 24131, 6802, 41119, 41695, 2098, 47859, 37708, 4844, 6348, 1985, 35317, 23512,
      18558, 5931, 21763, 43132, 8904, 25087, 19746, 7132, 4740, 3751, 34557, 7161, 30748, 5627,
      45779, 35610, 7892, 18583, 6188, 6367, 15697, 42272, 21422, 46787, 21838, 47948, 19495, 22506,
      23484, 13631, 28596, 48410, 16357, 609, 17554, 39114, 30465, 18086, 16501, 14579, 35601, 45181,
      3210, 26929, 11499, 21749, 34846, 32091, 10347, 14894, 9452, 2982, 27255, 33271, 31690, 12157,
      7524, 27950, 17681, 22897, 7266, 7451, 1687, 28319, 32411, 34772, 23273, 28765, 15805, 43026,
      24569, 38340, 16135, 45928, 45324, 9645, 30084, 3211, 22243, 11910, 6769, 28631, 10583, 43269,
      10163, 1226, 19090, 18498, 19646, 49583, 277, 5395, 20048, 49496, 38707, 853, 14384, 44511,
      17016, 10557, 24880, 30065, 884, 7209, 36012, 20573, 17680, 14749, 18783, 45370, 13657, 21165,
      39928, 36419, 47297, 43421, 47312, 49922, 23085, 11224, 29517, 36223, 42661, 24590, 14701, 33612,
      49863, 28593, 43682, 44154, 5733, 39829, 27776, 14563, 29698, 27583, 18104, 31015, 9289, 18119,
      42391, 28777, 771, 36171, 49926, 43248, 38793, 42296, 47993, 36214, 41169, 38499, 33437, 36013,
      14076, 30019, 32643, 24513, 28620, 24221, 18999, 31257, 8296, 6807, 28784, 17437, 646, 39776,
      5089, 13426, 7406, 14431, 21502, 44746, 38366, 15484, 429, 27338, 9744, 35859, 8807, 36333,
      31430, 32789, 7339, 21816, 47580, 19888, 17786, 29589, 33569, 14511, 17037, 38818, 34083, 3366,
      1138, 9666, 19883, 14417, 14981, 42190, 42875, 44722, 23856, 11061, 46459, 31825, 5683, 2885,
      14421, 33511, 6056, 23819, 18670, 30865, 28120, 26210, 36194, 43030, 19819, 17726, 10434, 40330,
      20000, 18177, 4524, 26402, 15639, 22325, 29983, 18150, 13153, 198, 1448, 45692, 25115, 30136,
      40381, 31812, 32749, 31211, 34897, 38552, 8006, 33068, 32384, 40337, 28973, 15019, 44072, 41654,
      23577, 2854, 25329, 37068, 19821, 41039, 7918, 33554, 40725, 6491, 26226, 31830, 27418, 23048,
      30146, 39060, 8321, 21047, 24806, 681, 4579, 41402, 30181, 35475, 16497, 38094, 26369, 4256,
      48784, 23316, 39478, 35955, 31779, 18969, 47972, 38081, 32423, 11709, 20548, 36005, 15610, 30264,
      585, 9324, 6179, 22569, 47862, 25673, 6896, 17396, 33571, 47122, 9062, 45351, 30849, 36785,
      14565, 18906, 2463, 49031, 49505, 22798, 17971, 25056, 13477, 7126, 17736, 34174, 7340, 7673,
      40753, 29249, 4724, 6113, 9856, 25539, 40021, 20676, 31613, 18274, 12932, 33865, 46075, 6322,
      39175, 27958, 4155, 28420, 31469, 4233, 13620, 19016, 40223, 32144, 35115, 5754, 33252, 45392,
      18977, 35379, 39585, 45679, 14181, 29012, 27736, 25477, 16454, 30271, 22775, 23883, 34218, 35714,
      7821, 43176, 24888, 44877, 8193, 14763, 16773, 10463, 47373, 14764, 1824, 15653, 35026, 22950,
      39588, 27164, 13048, 41117, 25782, 36597, 9146, 24079, 42034, 36139, 26808, 30647, 35763, 36117,
      48659, 35496, 36653, 322, 32621, 3493, 17717, 47080, 45621, 6915, 19966, 18386, 29279, 39231,
      36072, 39812, 48299, 8088, 21450, 7785, 12958, 4573, 22983, 20091, 25234, 35981, 48810, 3221,
      482, 23730, 11808, 27947, 27875, 17928, 42744, 2874, 44719, 21399, 32809, 4091, 48220, 38634,
      12287, 41629, 14145, 24825, 373, 4119, 15558, 45066, 32027, 47770, 7525, 18769, 39621, 37826,
      8510, 9354, 25054, 40529, 33646, 30968, 4622, 11947, 20443, 9848, 7294, 11806, 46701, 7990,
      27645, 26786, 62, 7096, 36128, 37596, 41578, 6365, 26031, 23875, 3272, 34514, 2385, 23203,
      42501, 48325, 33029, 40362, 22651, 47116, 35498, 5152, 45998, 33891, 13755, 12435, 3919, 49143,
      8530, 42825, 48584, 20691, 16316, 9988, 25228, 16403, 41767, 25924, 47902, 17128, 46293, 7144,
      22169, 47258, 16451, 34115, 7411, 48304, 428, 35689, 16900, 44959, 19376, 6921, 48641, 10369,
      24139, 12429, 43101, 12945, 24105, 38287, 42772, 38792, 4580, 23497, 43482, 31360, 48755, 48081,
      48523, 15970, 23479, 35664, 13267, 30518, 33881, 46309, 12623, 27805, 17746, 30055, 14188, 32446,
      29088, 41461, 2185, 45016, 5610, 27984, 35142, 2494, 7613, 7584, 30715, 29509, 40834, 13889,
      18010, 25536, 4035, 20194, 15625, 28283, 6653, 49806, 17641, 33661, 39262, 25981, 17462, 11196,
      31073, 46339, 37869, 40577, 42827, 40121, 29744, 45213, 25413, 38359, 44745, 27748, 20410, 36475,
      3030, 36078, 4614, 3698, 44994, 17656, 39836, 18533, 27091, 14532, 49514, 24614, 32480, 48003,
      13747, 17476, 28235, 16912, 30034, 22704, 44697, 38819, 42682, 385, 39191, 26603, 22810, 15517,
      25620, 8358, 43117, 7220, 3375, 13160, 11901, 34940, 16180, 25999, 31378, 28449, 35033, 2095,
      32366, 34053, 31468, 26725, 5215, 42155, 37834, 5748, 46385, 43357, 29514, 20315, 13172, 19395,
      24963, 29073, 27274, 36387, 17473, 1281, 32907, 18398, 29712, 29985, 20692, 21785, 914, 42947,
      18222, 20686, 48814, 33780, 47560, 25266, 45338, 22811, 32659, 30139, 898, 36600, 38455, 46331,
      30064, 46284, 27403, 971, 5158, 20485, 26620, 32367, 7460, 43699, 26068, 29213, 34410, 2132,
      48932, 38921, 24739, 2372, 10465, 22752, 6067, 7234, 6975, 35168, 5770, 31168, 25166, 28996,
      37532, 34634, 20109, 1012, 2247, 5739, 45120, 25296, 43280, 30582, 29396, 18299, 15884, 19718,
      45741, 6556, 36924, 16234, 37096, 11597, 231, 12967, 33906, 5553, 22317, 42626, 41999, 18145,
      19721, 22395, 32455, 21358, 2893, 45395, 4817, 36814, 2638, 23602, 9312, 14488, 9366, 26006,
      49869, 40535, 28595, 6748, 22470, 30397, 41335, 18048, 8370, 29314, 36836, 24066, 49990, 22734,
      18536, 19647, 2980, 44235, 13039, 21197, 46875, 36815, 35501, 30253, 41813, 4384, 21851, 48731,
      13623, 36400, 3095, 11711, 10172, 7284, 39018, 32702, 27497, 18988, 20248, 22039, 34137, 27496,
      11015, 16250, 34190, 4657, 46434, 21287, 37424, 27093, 49470, 48150, 21235, 40232, 5936, 25422,
      42086, 1876, 7801, 30324, 625, 48950, 48152, 20851, 7365, 30186, 34834, 45593, 14036, 45566,
      3653, 44290, 22198, 43825, 46435, 39232, 10648, 23378, 49236, 29904, 41378, 20931, 22771, 24470,
      16358, 11121, 37962, 480, 40929, 40403, 42705, 14443, 40763, 22105, 26185, 23120, 24367, 6215,
      9647, 39059, 11163, 13650, 26625, 14361, 273, 40041, 11153, 38949, 31940, 22853, 44873, 35543,
      6976, 2174, 3931, 39122, 46836, 38214, 46118, 34194, 37875, 15302, 758, 4130, 37518, 22142,
      26338, 1818, 33544, 17768, 24573, 8479, 17075, 37053, 12230, 4569, 30089, 13956, 41839, 38297,
      12053, 34202, 32775, 42126, 21403, 47740, 42350, 27392, 3697, 32426, 30700, 35020, 31807, 8893,
      48547, 41068, 46832, 16528, 45904, 49687, 19737, 43368, 5275, 35760, 25943, 351, 49345, 24382,
      3222, 1576, 19412, 34106, 41828, 44715, 5879, 42981, 33777, 22781, 22179, 9935, 23181, 34852,
      19321, 30528, 15516, 30287, 12296, 29617, 36582, 31735, 28063, 49611, 5396, 35166, 17812, 33308,
      37141, 21241, 43985, 35099, 23990, 13745, 44005, 19577, 13497, 37546, 41771, 48789, 20770, 15181,
      45638, 19484, 22215, 44456, 14061, 21886, 36616, 32513, 41396, 24851, 39943, 25062, 5525, 2902,
      35499, 2434, 6892, 1853, 25680, 34103, 42898, 9314, 9376, 41595, 8726, 558, 48433, 4215,
      23162, 6478, 40516, 5540, 40066, 22874, 36581, 7879, 39509, 37495, 15022, 38300, 103, 23877,
      38697, 46524, 41602, 32681, 11900, 5035, 49352, 1480, 22608, 42568, 14835, 47998, 22910, 34573,
      7514, 39217, 45632, 23712, 1866, 15044, 8869, 37733, 848, 46711, 5676, 34619, 20500, 48829,
      702, 45749, 20205, 33600, 37287, 38312, 35132, 28282, 30534, 22087, 12208, 4057, 36179, 33260,
      39590, 32036, 776, 35736, 44402, 29367, 21696, 31573, 43121, 24738, 14487, 14598, 40427, 27941,
      48554, 16275, 2055, 745, 45190, 12353, 5564, 20630, 2851, 32605, 5345, 18173, 24953, 3792,
      15320, 3036, 48647, 39076, 22644, 1682, 23825, 7133, 12593, 49637, 29029, 10823, 47050, 20499,
      10153, 41759, 44779, 42747, 25527, 49036, 6974, 35419, 33101, 48725, 40481, 49832, 22845, 24725,
      22715, 1000, 3986, 10999, 44347, 45776, 17277, 21565, 29053, 20174, 30530, 35635, 16982, 19273,
      46170, 49053, 31002, 30758, 6808, 13297, 48365, 38939, 4408, 33562, 14786, 43564, 24871, 17109,
      31014, 3444, 16675, 18600, 46677, 3940, 23409, 36625, 32607, 24126, 17123, 26890, 45355, 10504,
      34448, 38637, 8478, 13299, 42208, 49481, 49091, 31172, 34429, 3265, 25736, 48499, 41929, 46854,
      28097, 39146, 43834, 44157, 20643, 18183, 18182, 49652, 9253, 45761, 48468, 36183, 8247, 8565,
      11150, 8877, 460, 37258, 12609, 7308, 24458, 12488, 46778, 29422, 5645, 44214, 40224, 43385,
      27600, 25907, 35413, 24279, 2135, 42574, 1377, 31056, 12968, 14940, 33705, 6217, 36585, 5455,
      47461, 45137, 45941, 36115, 29448, 20831, 35807, 31872, 35339, 34412, 6308, 5195, 29763, 9024,
      47360, 23809, 38955, 3700, 216, 13462, 4347, 23972, 8238, 45228, 46280, 22153, 7431, 25306,
      35721, 26776, 7905, 6821, 22040, 5488, 15031, 2328, 12044, 43295, 22239, 47229, 39242, 5625,
      39528, 6705, 16573, 24534, 29298, 47822, 36211, 21299, 32636, 12616, 45335, 28124, 5046, 39172,
      5048, 17351, 2436, 47479, 19012, 34895, 32914, 21647, 22877, 30910, 39638, 39586, 30130, 41122,
      21039, 47158, 36056, 48561, 6204, 44966, 40147, 40141, 42644, 18641, 32629, 49559, 48923, 21132,
      30899, 14501, 890, 46404, 25244, 20401, 16231, 16830, 31165, 13643, 17345, 7762, 20083, 9183,
      48986, 651, 25516, 20743, 42999, 44802, 36300, 5071, 47524, 6687, 8870, 33392, 39665, 10441,
      13664, 2554, 3714, 25730, 3918, 15550, 38685, 27726, 38283, 4976, 22476, 27792, 31342, 32013,
      28252, 45178, 37503, 22059, 5501, 43893, 31686, 9571, 36592, 29010, 38815, 47204, 42556, 6424,
      28683, 36154, 49276, 44213, 43690, 49531, 42110, 5653, 20046, 42283, 39925, 31134, 42739, 22565,
      30983, 10229, 45563, 33273, 16430, 37648, 2514, 4244, 42955, 40684, 14886, 13488, 20318, 22719,
      43495, 10390, 23623, 48292, 37760, 16751, 21722, 5987, 2515, 2726, 5010, 4859, 44993, 20296,
      49173, 20345, 24854, 10992, 15587, 17552, 19559, 35160, 48775, 36864, 38706, 34692, 39838, 49940,
      38441, 9008, 44047, 12824, 36672, 2900, 31536, 4028, 43657, 19140, 25079, 49078, 12528, 936,
      43263, 19045, 38105, 25742, 9022, 24516, 22095, 47696, 14558, 18209, 35229, 32997, 43064, 17436,
      24531, 1720, 581, 14700, 27679, 20254, 13651, 23314, 17890, 41076, 45528, 32758, 43036, 22175,
      22146, 15771, 4877, 35162, 25259, 24316, 32453, 23015, 770, 32647, 35286, 25047, 45884, 27568,
      47529, 26150, 48198, 12692, 25456, 16144, 37767, 10907, 297, 15004, 27143, 31281, 10476, 35555,
      41881, 10089, 10474, 12001, 26413, 1278, 47712, 28337, 18881, 22968, 5216, 8615, 20403, 31582,
      32986, 18166, 6529, 30829, 43836, 22652, 3308, 7251, 38021, 32859, 8040, 38604, 4273, 28373,
      7027, 16613, 38812, 3401, 16413, 38903, 48195, 47625, 34261, 43696, 41687, 15464, 41916, 32744,
      4894, 29690, 16049, 42843, 39798, 22856, 39848, 48205, 40368, 30423, 30179, 20807, 29727, 48362,
      35374, 11789, 20623, 3425, 3230, 24095, 44443, 46931, 19293, 35088, 14922, 29436, 34466, 49708,
      20576, 7122, 29865, 13326, 44100, 8962, 21613, 39163, 24468, 1077, 4128, 34279, 36130, 31907,
      34554, 25944, 21374, 3000, 36270, 13542, 21279, 10593, 29310, 14458, 7781, 29632, 43514, 38151,
      39031, 32679, 27644, 16276, 38208, 34770, 38371, 43339, 41504, 10723, 38580, 43164, 2417, 36775,
      26696, 6995, 4120, 22460, 41841, 36503, 5803, 33526, 22377, 43817, 49009, 2829, 5228, 14614,
      30205, 35677, 38269, 38654, 22685, 28910, 441, 24164, 23759, 33429, 10783, 30903, 195, 2705,
      24684, 18446, 10951, 13179, 44001, 33940, 41787, 37631, 12573, 28638, 45477, 5186, 30038, 17082,
      20629, 1470, 31602, 41442, 21890, 45010, 29936, 24517, 46088, 23802, 41072, 46300, 12733, 5921,
      31272, 21373, 35706, 10311, 30315, 15814, 36202, 11264, 1157, 18109, 47471, 44103, 39674, 43232,
      578, 29106, 26072, 30200, 32585, 3858, 28285, 4969, 30305, 39079, 29522, 30915, 42213, 14603,
      34769, 12457, 5847, 13676, 34422, 35151, 47250, 28061, 4519, 41451, 44120, 28284, 2740, 48419,
      44434, 12957, 31336, 28148, 28066, 4034, 12793, 30876, 28678, 31161, 40594, 13641, 18353, 14300,
      4982, 30611, 21342, 30724, 42181, 28181, 12555, 14748, 2081, 10733, 42231, 30368, 41713, 6013,
      12007, 23198, 42194, 28717, 21567, 30747, 40296, 523, 29462, 10639, 9433, 19242, 4362, 20124,
      19808, 31512, 43734, 11734, 13964, 30660, 43058, 30696, 5146, 18954, 26066, 45287, 3068, 29225,
      29738, 11634, 27187, 17403, 23646, 21538, 14240, 38471, 3759, 36796, 49919, 34247, 36367, 18846,
      44926, 12090, 47600, 49219, 27720, 26970, 45793, 15017, 26525, 30174, 45235, 42331, 32412, 22978,
      32741, 40698, 46574, 1182, 44907, 22038, 10970, 48813, 5946, 11331, 43924, 30585, 42638, 23654,
      24929, 11568, 39550, 9672, 43415, 39127, 20987, 3461, 22962, 35455, 38119, 11010, 12678, 2527,
      30939, 1484, 30074, 3270, 3610, 20665, 9908, 14044, 20179, 23374, 2464, 8337, 8440, 22330,
      42173, 28542, 13469, 49318, 11948, 14611, 29386, 32841, 6366, 15480, 28961, 20475, 6161, 28736,
      7538, 4377, 5428, 37795, 49509, 13625, 44841, 28191, 35336, 25903, 45570, 6420, 46730, 42769,
      25182, 48845, 43367, 4826, 38284, 21609, 17180, 25211, 46634, 22809, 28385, 640, 11753, 19452,
      40266, 44159, 2875, 15998, 38979, 32995, 23738, 23556, 47351, 47126, 18172, 35239, 5264, 1508,
      31696, 42061, 24943, 9792, 48682, 47949, 22902, 8755, 43394, 18126, 16617, 736, 3607, 10981,
      6347, 42907, 10533, 13529, 6948, 46485, 6111, 25086, 2624, 48559, 15232, 49266, 33606, 31725,
      41491, 16111, 27999, 26644, 24109, 7890, 13099, 9189, 30375, 8952, 34916, 36918, 36456, 43569,
      31805, 2211, 44488, 22103, 25015, 9381, 46122, 13475, 30457, 33138, 46603, 3288, 27305, 42765,
      8224, 13670, 9769, 40816, 25383, 8344, 49924, 407, 20822, 24307, 38537, 35911, 18871, 44910,
      43185, 2915, 37400, 11905, 30914, 5236, 13058, 343, 30645, 47896, 5222, 22227, 5707, 9405,
      46010, 45931, 9804, 16089, 39240, 46070, 30367, 33806, 40310, 19092, 9141, 45465, 47411, 37974,
      7442, 1048, 14350, 37140, 17411, 42048, 46565, 38797, 25562, 15529, 19901, 36317, 6684, 24587,
      29456, 13505, 38464, 40119, 19854, 22348, 37727, 40645, 37079, 14765, 862, 29549, 37461, 12753,
      8477, 19274, 40677, 20129, 19286, 7503, 3161, 7237, 19185, 36233, 1131, 46375, 9060, 21968,
      6354, 8034, 47613, 49675, 38785, 24872, 27129, 35345, 44901, 27616, 29490, 22764, 27662, 32238,
      39274, 47818, 26458, 38620, 34751, 17471, 45596, 41648, 6890, 2742, 3049, 49, 7456, 16895,
      41751, 27072, 7624, 31167, 14631, 44751, 24706, 49426, 27887, 12783, 7515, 7149, 39479, 39996,
      173, 26326, 13904, 28033, 42717, 29239, 36696, 419, 46862, 24129, 21286, 6576, 8385, 9084,
      9301, 10842, 6400, 30507, 27193, 17541, 42524, 39865, 45944, 3243, 800, 17479, 12680, 10417,
      30613, 34963, 13035, 19711, 41100, 47793, 10949, 12510, 44731, 32834, 12341, 18045, 49616, 24745,
      3663, 29133, 7327, 42810, 9931, 3707, 17851, 10393, 10591, 71, 4280, 3555, 24494, 16957,
      42562, 25388, 33699, 31125, 42398, 26774, 32475, 22471, 32432, 21611, 8200, 29942, 40574, 49796,
      37932, 41737, 17372, 49545, 13604, 16133, 9693, 34973, 49699, 20940, 25586, 13168, 10849, 47850,
      2799, 8528, 16749, 38466, 5211, 33479, 14856, 21156, 44801, 5843, 11605, 3788, 5841, 11327,
      29101, 32949, 29730, 46445, 48287, 49508, 5459, 29836, 1668, 17004, 21745, 43478, 45310, 9709,
      29170, 7497, 30572, 8760, 46144, 22321, 9165, 15236, 12498, 41887, 22051, 26901, 8658, 3486,
      11429, 19618, 49184, 354, 36141, 23294, 12557, 31539, 48863, 28905, 32240, 27040, 31877, 12622,
      24606, 7390, 19498, 18434, 8045, 48297, 46405, 49130, 32132, 2652, 42129, 5343, 17644, 49033,
      42455, 38768, 32566, 14050, 30438, 21298, 30501, 25718, 11220, 15999, 42214, 19820, 12950, 36594,
      29303, 42357, 16754, 36669, 23026, 9887, 5711, 28291, 34366, 32973, 35544, 14597, 41954, 32110,
      2000, 18221, 20956, 23784, 23848, 37483, 38824, 37318, 42726, 30443, 9957, 9040, 44533, 17354,
      26333, 34822, 12240, 12400, 14710, 21215, 18552, 42976, 19600, 20382, 15211, 24628, 32378, 26109,
      26822, 5227, 45303, 47382, 6888, 37084, 44881, 22018, 38906, 33240, 15506, 36566, 14168, 10964,
      40805, 43671, 4831, 42606, 14883, 42244, 31136, 11756, 46134, 15711, 9936, 1487, 37919, 22531,
      42985, 10422, 4336, 48785, 16814, 48627, 9506, 27030, 34883, 19473, 16759, 22859, 44335, 12266,
      28999, 45949, 48352, 1703, 37514, 13552, 3994, 8023, 25258, 4884, 3912, 43563, 24043, 15045,
      930, 12838, 41121, 23713, 21998, 15539, 861, 47715, 33707, 25869, 1594, 11119, 42168, 24772,
      38041, 41172, 12144, 49290, 14462, 20759, 11416, 17518, 15404, 19969, 10424, 8180, 39622, 11601,
      27985, 49206, 14704, 21317, 8564, 41253, 23105, 49727, 35521, 47403, 6361, 14073, 9801, 13315,
      225, 41636, 16826, 19663, 19890, 19397, 26130, 10630, 2761, 26645, 10439, 46032, 4538, 23700,
      20560, 39212, 12358, 32414, 20571, 6583, 45970, 21069, 30144, 33190, 44598, 29484, 44681, 14584,
      7180, 16264, 5598, 6232, 15388, 38852, 1397, 46412, 15962, 12671, 19822, 18083, 17311, 18778,
      46343, 1246, 38664, 12261, 10036, 15460, 47743, 43267, 13047, 32149, 23728, 19850, 3241, 19697,
      49299, 14832, 1413, 24261, 41013, 45619, 8677, 12052, 41586, 6926, 48478, 47582, 41012, 18606,
      43792, 19224, 18057, 1621, 25098, 34517, 2404, 30799, 16742, 15080, 6262, 49021, 29560, 43988,
      27896, 14095, 31121, 47641, 1784, 5011, 20701, 34486, 5762, 41063, 36551, 44400, 11209, 49408,
      17168, 17244, 16424, 35836, 44130, 16341, 40466, 17759, 23948, 44167, 17247, 14857, 1851, 32814,
      12370, 17041, 29461, 33476, 36440, 12372, 18843, 47134, 4181, 24076, 21982, 30925, 3705, 47236,
      19469, 49148, 18107, 29532, 8883, 48341, 33372, 16293, 4116, 40702, 25756, 5872, 15982, 24250,
      19709, 4550, 10859, 27779, 44892, 35469, 2746, 9733, 49743, 8850, 17933, 18754, 35990, 23392,
      29687, 38341, 512, 6994, 43507, 27917, 26075, 15125, 41826, 15215, 48215, 1976, 27443, 42454,
      16927, 35893, 33114, 23789, 5876, 26650, 30187, 657, 35076, 27714, 26934, 17052, 27432, 8939,
      31214, 6129, 17172, 48139, 24224, 40971, 45565, 3899, 48622, 44656, 41101, 41287, 19533, 14355,
      7205, 38344, 31306, 34856, 42692, 7708, 12515, 7822, 7772, 42725, 48307, 34792, 36360, 44360,
      316, 729, 9125, 6224, 44741, 1841, 2386, 21347, 7499, 39034, 36764, 15361, 12117, 10926,
      11594, 7024, 43237, 22996, 38568, 15280, 40286, 14829, 24350, 31011, 17446, 19658, 3002, 45579,
      44019, 3953, 47225, 29078, 17649, 10123, 23349, 28825, 48982, 20525, 14092, 5729, 35249, 28104,
      12966, 13996, 1458, 29288, 14065, 40751, 4845, 8690, 38153, 34567, 43093, 19316, 25458, 13033,
      12858, 37172, 7638, 17692, 35913, 5977, 22374, 21421, 9266, 15917, 48860, 28143, 31994, 10157,
      31464, 41379, 32910, 33963, 40926, 26942, 25415, 16750, 34691, 816, 8665, 49438, 7359, 31092,
      20815, 5253, 37581, 38567, 11667, 33727, 45275, 30555, 28361, 27778, 25134, 23036, 35154, 44944,
      18248, 31465, 44852, 19625, 22349, 49448, 41558, 40889, 21544, 3378, 18528, 15297, 42081, 26852,
      37739, 49865, 7142, 36274, 26892, 23463, 40605, 15483, 40244, 37093, 26664, 42306, 35526, 44143,
      3028, 8451, 10675, 39406, 14449, 32851, 10075, 14653, 5864, 25576, 38330, 6433, 43419, 23313,
      28573, 39652, 31631, 12986, 18607, 9604, 7468, 46041, 4988, 22373, 16662, 24979, 18686, 33224,
      24197, 6199, 15130, 46779, 36391, 22020, 25691, 2296, 3831, 41134, 47218, 23619, 37188, 29397,
      3434, 13966, 3077, 1107, 16657, 40575, 37693, 21505, 12447, 2146, 36667, 24867, 14644, 46780,
      26348, 40920, 41372, 25670, 6483, 8442, 49622, 40440, 36627, 43316, 24291, 24454, 16356, 28157,
      26482, 5165, 14608, 1675, 38521, 4146, 33179, 44515, 4707, 2585, 35669, 19825, 31621, 31119,
      22583, 28501, 29827, 22248, 30845, 44058, 33186, 47946, 12292, 35874, 31986, 37659, 16933, 29221,
      34122, 5121, 15073, 2820, 34025, 1034, 233, 20005, 31873, 20036, 30749, 23214, 36677, 15681,
      1319, 28724, 38608, 18169, 11886, 20351, 31429, 36890, 28175, 756, 28358, 22639, 49981, 47383,
      35264, 5042, 29987, 7753, 9722, 32960, 9194, 39581, 28150, 12732, 12187, 20251, 811, 18555,
      36416, 13983, 22683, 36652, 35203, 10490, 41633, 40176, 5572, 16286, 9225, 2630, 26689, 26757,
      29551, 1618, 47648, 21247, 24844, 44858, 37602, 29234, 27014, 24906, 36437, 11541, 47903, 17201,
      38691, 4222, 47636, 9207, 21570, 41234, 15809, 19713, 45811, 18480, 26409, 6427, 49222, 18663,
      24863, 17598, 47437, 34385, 5966, 10289, 21631, 45279, 10280, 9555, 210, 37592, 32134, 41683,
      42293, 37618, 47745, 45398, 3022, 4110, 47758, 15030, 15910, 41279, 5865, 14514, 41246, 11069,
      39458, 16812, 9590, 46103, 35650, 48453, 36816, 43604, 40186, 18149, 14341, 41149, 6079, 46579,
      44998, 27619, 35250, 19308, 3031, 14524, 17683, 116, 42170, 29229, 43388, 24559, 3795, 7687,
      23356, 12418, 44202, 13400, 8383, 24438, 19013, 44075, 9273, 22648, 41097, 36749, 9036, 47193,
      15699, 17248, 8239, 17452, 26840, 48939, 5929, 8194, 16368, 30070, 36755, 6943, 75, 32816,
      34309, 27121, 1124, 14874, 11426, 18495, 14632, 32840, 17561, 42416, 46602, 12223, 28216, 6467,
      49526, 43639, 27098, 31452, 18517, 47611, 48646, 194, 28119, 10506, 38882, 23912, 2813, 49432,
      27591, 2664, 22858, 47796, 2952, 13321, 32687, 29211, 40432, 10378, 23702, 13307, 25249, 38550,
      23629, 33016, 9725, 5504, 32155, 33413, 20516, 24012, 13687, 12959, 34023, 45997, 48311, 42784,
      43743, 1631, 28241, 19193, 47774, 48474, 16224, 839, 15566, 14261, 30880, 39424, 8274, 10491,
      31547, 48639, 15226, 12728, 22077, 25220, 38875, 29746, 30295, 34061, 28697, 2517, 23367, 19827,
      10586, 8647, 40778, 1846, 45677, 21412, 14575, 16000, 44359, 47711, 30381, 34830, 12750, 33162,
      3197, 2865, 18246, 39547, 42389, 14916, 1736, 32255, 44338, 11761, 15724, 38180, 14276, 33681,
      33602, 26683, 34848, 26254, 34914, 24859, 1930, 30299, 1126, 14237, 9057, 27110, 13082, 44689,
      31963, 15731, 44512, 37108, 15119, 2888, 12423, 48191, 14606, 45312, 43340, 17663, 8692, 27011,
      19221, 9055, 31397, 23101, 28045, 39115, 32898, 27683, 42448, 13252, 25430, 28498, 5200, 38427,
      20120, 29244, 43283, 21813, 5662, 33735, 16372, 48171, 41112, 46977, 36254, 49850, 61, 48805,
      12913, 29871, 27271, 32594, 11821, 11337, 14982, 1808, 38363, 6429, 20186, 37914, 29847, 10989,
      31755, 9829, 34213, 17638, 27039, 10636, 47264, 3489, 45184, 29474, 32610, 23034, 40399, 16854,
      27063, 44392, 35353, 48074, 32867, 16050, 41280, 26637, 9712, 38795, 42975, 1572, 23754, 10045,
      11742, 19916, 22654, 34522, 32682, 939, 31473, 34756, 49313, 29830, 46527, 35211, 27517, 42006,
      22855, 46720, 3460, 49941, 44780, 44318, 39628, 38475, 47498, 43080, 31398, 37223, 30883, 35511,
      40170, 7949, 27955, 3021, 3220, 38723, 15158, 150, 12617, 46451, 35928, 22041, 46369, 16290,
      4678, 13573, 29046, 30345, 21993, 42836, 49961, 31020, 28987, 3929, 39203, 31651, 3298, 35876,
      43440, 1489, 48969, 28462, 18370, 47416, 21752, 25072, 8191, 8537, 27548, 39844, 20821, 46669,
      38400, 37801, 21030, 47147, 15176, 19621, 32823, 19591, 283, 47750, 5070, 19272, 25608, 37026,
      3633, 20712, 43352, 49916, 31895, 18874, 13352, 37787, 36549, 12092, 33904, 38966, 6194, 4036,
      47578, 38611, 4609, 28990, 29457, 586, 14200, 39358, 3789, 11214, 1697, 27620, 37171, 15027,
      43197, 32429, 34962, 14381, 13826, 44144, 16492, 45537, 23879, 11014, 27198, 20937, 8745, 46921,
      16419, 8780, 37070, 21332, 31158, 13069, 46955, 7511, 19204, 10855, 26759, 14356, 34572, 3504,
      39570, 49991, 34983, 5329, 49032, 32261, 46078, 42276, 35759, 41822, 27506, 29107, 40126, 10388,
      36251, 3189, 26763, 13399, 26529, 29952, 5260, 29785, 47367, 42585, 19006, 2265, 25486, 6526,
      29819, 38114, 15298, 6656, 37322, 42167, 8525, 49665, 8293, 23974, 48901, 8858, 42294, 14143,
      23727, 7212, 45658, 22229, 48385, 17391, 45419, 34449, 40077, 44342, 46594, 19373, 9478, 20076,
      44688, 40908, 44428, 38240, 12083, 20146, 26845, 23670, 31307, 19388, 18938, 19175, 40873, 17795,
      30463, 24084, 2582, 15832, 31103, 26574, 17990, 46052, 44248, 25267, 42766, 37737, 25526, 17150,
      47717, 25085, 42787, 46966, 46110, 39724, 30120, 12923, 13310, 27196, 36599, 9444, 25845, 42095,
      10735, 34658, 42394, 45531, 15854, 29941, 33875, 42336, 26985, 1534, 8394, 35058, 11807, 48438,
      9480, 27439, 39283, 29864, 17782, 32855, 16404, 20259, 37024, 1139, 44704, 41322, 47825, 20438,
      45058, 3618, 45413, 45414, 10577, 45397, 962, 45424, 42732, 35301, 34014, 1975, 14769, 27348,
      11532, 25790, 14543, 48197, 26360, 41642, 48746, 6193, 12947, 47792, 13972, 5055, 24026, 2678,
      36983, 49733, 27473, 46947, 47238, 23469, 2762, 8596, 13253, 11313, 29735, 18137, 19354, 34717,
      7544, 43196, 42867, 10324, 38865, 16170, 6904, 18730, 25481, 39398, 10012, 42859, 6835, 1417,
      47552, 8409, 18597, 41829, 21026, 30770, 28116, 29464, 29609, 22779, 18701, 28565, 1486, 20544,
      30091, 2111, 48402, 32346, 26474, 11890, 29980, 3131, 39860, 913, 47157, 10339, 11037, 27879,
      21254, 40203, 26874, 39636, 27870, 17324, 16432, 19511, 17867, 4082, 1331, 28911, 11897, 15283,
      11029, 35350, 13926, 48204, 24856, 41775, 10098, 31459, 32739, 16169, 49066, 7321, 43933, 19085,
      47786, 17009, 11436, 13371, 4199, 41499, 38834, 13610, 7229, 8368, 31258, 43692, 12123, 17856,
      19339, 26823, 23319, 12662, 42774, 30042, 6648, 44086, 46394, 33245, 17662, 43089, 39431, 24449,
      7481, 630, 49478, 2276, 36502, 27283, 43366, 34921, 4272, 6, 2145, 32401, 44232, 38378,
      1699, 47331, 6939, 34382, 16269, 9192, 34760, 14354, 29852, 44079, 12492, 28121, 33530, 40346,
      7143, 49315, 32714, 9353, 3455, 6266, 2735, 31988, 34266, 11072, 3214, 19387, 7650, 20966,
      17690, 47205, 20184, 1721, 19220, 20218, 49410, 26729, 32897, 20279, 47549, 2094, 37232, 33432,
      6029, 1864, 8161, 26881, 32044, 24024, 19434, 14131, 7003, 22397, 6132, 22647, 1402, 536,
      5822, 43714, 42900, 24864, 47150, 10074, 25632, 12229, 1993, 20983, 11771, 13847, 6788, 5377,
      2399, 17577, 13618, 45163, 36471, 47164, 17922, 39663, 27218, 16921, 6156, 2298, 39626, 13129,
      6046, 7982, 47884, 4265, 24032, 43566, 38804, 4165, 8085, 6567, 44282, 1956, 24947, 27361,
      40848, 1731, 20958, 49841, 9694, 36553, 25603, 40525, 35719, 42134, 32477, 20112, 24744, 48142,
      28772, 48844, 36073, 33830, 31851, 20376, 24115, 9159, 24246, 34483, 33711, 8404, 39747, 37963,
      41340, 7100, 27661, 13757, 9877, 1166, 49836, 42319, 37354, 13206, 21052, 47899, 46961, 22126,
      39234, 22932, 19103, 37935, 33093, 26117, 2269, 14169, 28540, 2445, 8961, 24072, 42302, 36037,
      28665, 19235, 36326, 49853, 5407, 2348, 26363, 10214, 43061, 47206, 10996, 48206, 27539, 6340,
      12725, 39142, 40655, 32736, 8901, 30406, 35138, 28407, 46457, 38299, 22479, 1788, 46918, 22895,
      892, 22278, 12140, 37568, 28624, 18432, 33809, 430, 35703, 25113, 12712, 48985, 15274, 36655,
      41769, 17998, 1616, 2864, 252, 7976, 39496, 676, 24348, 29366, 12659, 28528, 18239, 8786,
      31404, 1670, 27024, 14277, 48423, 2644, 34405, 40654, 32650, 18794, 20945, 38385, 10500, 43018,
      40424, 12757, 33942, 34282, 37282, 9026, 24006, 38873, 33770, 12184, 39995, 34230, 14750, 30895,
      21266, 10239, 36259, 43407, 25679, 43163, 37750, 33494, 49556, 23967, 35982, 48550, 22599, 1053,
      12425, 866, 1974, 45843, 4071, 18218, 22862, 16540, 21995, 16235, 26719, 28883, 49067, 18063,
      5734, 12371, 16247, 19227, 9205, 40827, 42583, 43683, 32417, 23127, 28612, 10945, 27544, 30050,
      48253, 45077, 22109, 46759, 36904, 22016, 37747, 21794, 10993, 532, 27456, 686, 8825, 27298,
      45461, 18106, 28010, 29064, 4699, 31863, 31865, 15849, 6434, 624, 37527, 22591, 47068, 26394,
      18056, 49808, 38544, 928, 47679, 3673, 49790, 24965, 48348, 47493, 5537, 33202, 13534, 499,
      14084, 6916, 32802, 46978, 10189, 5954, 6231, 16109, 46292, 1673, 27447, 29501, 47251, 23029,
      34021, 45346, 18111, 40023, 48432, 20624, 9985, 32572, 43143, 7289, 48752, 28590, 11210, 29219,
      37818, 15686, 11321, 23812, 27787, 30468, 49878, 39870, 47466, 18427, 44195, 32054, 35388, 32387,
      40966, 36466, 25404, 8059, 45378, 12422, 20292, 32783, 2467, 32246, 261, 11427, 26351, 33974,
      15191, 40762, 46980, 9925, 20486, 31304, 48041, 21056, 25238, 16048, 49317, 21622, 25758, 23452,
      10803, 38999, 47041, 25124, 39975, 29643, 18091, 48313, 21245, 39066, 5854, 39093, 8781, 18180,
      14409, 32197, 11483, 18094, 16993, 24620, 49434, 7881, 46529, 17362, 40241, 49353, 1033, 593,
      39541, 27582, 9683, 27994, 28052, 28209, 47603, 30944, 12212, 24875, 16822, 32729, 46483, 48589,
      9531, 20755, 42007, 2916, 5604, 49698, 1291, 3428, 4766, 46491, 39909, 873, 44430, 42307,
      4537, 25024, 1819, 41603, 15020, 14865, 36857, 2022, 9846, 14500, 27837, 24782, 16429, 15680,
      17049, 24377, 39589, 34871, 26632, 49704, 13298, 1928, 19236, 7264, 46001, 24839, 38823, 30051,
      12532, 46436, 19789, 35100, 33239, 30433, 47115, 16530, 1661, 48043, 31485, 3734, 33531, 19706,
      27372, 2549, 14526, 36424, 4104, 5068, 7200, 43999, 39055, 20397, 30822, 34711, 8474, 37202,
      33022, 39347, 44066, 4981, 11192, 35072, 47978, 43711, 30364, 38588, 49037, 2305, 37978, 14359,
      9932, 15889, 8057, 7029, 4785, 38048, 6985, 18367, 44846, 26858, 44004, 39270, 49281, 8248,
      6573, 38982, 6178, 584, 11247, 46879, 5326, 12475, 28968, 18238, 26722, 39508, 32613, 12899,
      30037, 423, 24870, 28042, 22975, 15936, 46683, 39402, 17456, 42188, 31592, 5747, 4741, 22312,
      29726, 31391, 18421, 250, 22494, 40652, 6418, 44583, 49804, 27515, 40897, 20579, 15188, 38,
      30365, 2692, 18219, 44021, 2255, 16711, 39459, 36895, 25049, 22649, 41421, 33644, 44000, 19386,
      29500, 26749, 23075, 39073, 11100, 32791, 21582, 505, 27359, 11972, 11401, 1100, 15079, 46414,
      8920, 14545, 32321, 30419, 41400, 25612, 1608, 36841, 46171, 15382, 20520, 20870, 23562, 5382,
      24069, 13814, 42786, 33051, 28131, 9625, 28676, 14889, 27325, 41446, 6431, 35752, 48174, 5925,
      11921, 23755, 14146, 14875, 1430, 36063, 7984, 28051, 43311, 14509, 48073, 38129, 621, 8042,
      21265, 33280, 38270, 14224, 13312, 22085, 11189, 26422, 47248, 10936, 12800, 8241, 10820, 748,
      13609, 217, 21934, 17937, 35603, 45314, 36459, 24822, 21072, 8445, 14474, 23001, 35158, 28023,
      23014, 27954, 39667, 20060, 49547, 33543, 11751, 32721, 39245, 27058, 17805, 30904, 7530, 2943,
      34859, 2616, 7055, 28117, 44643, 44836, 7094, 26991, 40420, 38202, 6936, 5923, 1859, 25829,
      26695, 12179, 23436, 26061, 32212, 6536, 41774, 39880, 9317, 29556, 45422, 5697, 40002, 33789,
      12481, 42010, 38511, 4152, 30863, 31448, 44255, 25331, 14180, 2603, 20602, 26225, 33364, 28347,
      38490, 42116, 48466, 33399, 16981, 33497, 49272, 21679, 46429, 15632, 10824, 8489, 1850, 3799,
      18662, 43862, 28445, 33113, 39604, 30745, 26203, 26414, 39899, 38500, 7441, 14948, 32778, 7401,
      39704, 47950, 47452, 42980, 10822, 44274, 27436, 39979, 13758, 41640, 16295, 48779, 42657, 44382,
      29159, 17712, 15368, 43048, 12136, 42349, 29635, 30196, 20512, 20268, 34086, 29719, 39361, 9093,
      40428, 43722, 35508, 41368, 41444, 29903, 17664, 20418, 27565, 18410, 34508, 41579, 35495, 49551,
      6196, 30618, 14279, 47309, 14518, 40357, 23859, 7379, 19698, 46973, 38421, 1227, 10054, 21397,
      36954, 25686, 32472, 35695, 31050, 5080, 1183, 34970, 279, 8586, 17609, 18152, 41852, 21114,
      40468, 10746, 28875, 43993, 31029, 2830, 5341, 2034, 35279, 44565, 46287, 2326, 48745, 3693,
      49553, 1400, 42802, 33759, 33478, 3916, 13933, 24269, 49581, 43287, 41801, 2730, 7298, 30396,
      5411, 3640, 37121, 43916, 46808, 21829, 4277, 40313, 48129, 17432, 31309, 6311, 49182, 7268,
      12058, 32719, 8454, 41690, 19245, 2181, 10284, 28360, 26208, 22964, 28813, 45467, 17252, 25341,
      36874, 1165, 42715, 22334, 4157, 34096, 28818, 19809, 43187, 9064, 1952, 8844, 49649, 26656,
      35514, 9621, 11024, 30882, 34641, 6631, 6390, 6650, 48008, 31636, 30043, 24167, 20084, 10598,
      43180, 30634, 7964, 20137, 12619, 26959, 16382, 36085, 30082, 15520, 16541, 28685, 11098, 10064,
      35833, 30602, 10126, 31487, 39670, 27993, 3105, 11834, 41413, 12589, 23980, 15557, 49064, 26888,
      46341, 2331, 18142, 37451, 46449, 579, 48259, 47036, 7201, 40448, 33835, 37454, 23494, 37364,
      49608, 36299, 46941, 24103, 43291, 5994, 37294, 44176, 26773, 1317, 6809, 8375, 44234, 36403,
      9331, 13152, 41204, 8322, 42260, 23063, 48587, 18844, 18775, 16721, 43506, 14784, 12065, 7414,
      28978, 18718, 22130, 4180, 31327, 17258, 24132, 46421, 33978, 38310, 13356, 3115, 47128, 33456,
      36297, 4422, 8899, 14029, 34720, 49382, 11208, 11521, 43053, 43612, 45770, 32498, 2150, 24539,
      40352, 43322, 9620, 25884, 21867, 13247, 3843, 36720, 40393, 1271, 26223, 26494, 10444, 2069,
      40106, 38407, 16618, 29561, 5875, 26850, 44483, 41717, 35090, 20139, 36262, 5115, 16778, 16690,
      19022, 2731, 8570, 5541, 7560, 13059, 12285, 25948, 16392, 33415, 20160, 33824, 7568, 28158,
      37049, 40526, 16916, 1503, 10453, 49300, 902, 26457, 21856, 47288, 10115, 12110, 40959, 13066,
      647, 21043, 38833, 43636, 28626, 23037, 27578, 38566, 12668, 11915, 9951, 13835, 34673, 9199,
      10399, 13943, 46572, 28723, 48861, 45256, 2544, 6839, 5855, 38077, 17834, 18200, 31535, 46566,
      45693, 7270, 48065, 24588, 32390, 24053, 6415, 10915, 9532, 39720, 171, 23215, 36030, 9105,
      46012, 21528, 29681, 34981, 49896, 15296, 32012, 13034, 42509, 36969, 35591, 45980, 45598, 9538,
      43978, 48359, 43519, 14977, 18572, 2680, 12263, 47415, 26057, 44293, 46128, 42050, 14709, 35581,
      317, 30538, 36243, 39817, 23496, 23242, 4896, 4564, 23842, 45205, 41057, 37150, 17521, 5718,
      33436, 31837, 31260, 25509, 1912, 48522, 14802, 38926, 31141, 21345, 21255, 5205, 43376, 38791,
      47769, 40065, 30317, 44726, 31772, 48471, 17066, 27113, 43359, 34639, 25327, 11987, 33350, 11668,
      11875, 35027, 1681, 13431, 34842, 2279, 35487, 36979, 23415, 24010, 13656, 41015, 46548, 9685,
      44091, 28530, 18237, 38012, 521, 28122, 12993, 27225, 46534, 5657, 11562, 48388, 27479, 734,
      7330, 4241, 16476, 35804, 44493, 20650, 29230, 15806, 36192, 29603, 13459, 47987, 20635, 20227,
      12248, 9128, 29626, 13473, 22067, 19528, 20153, 40, 3029, 48704, 20094, 42954, 10901, 44433,
      18957, 19964, 19700, 22645, 21393, 30764, 24602, 19437, 21671, 40811, 46131, 3946, 15662, 14825,
      48268, 49662, 11762, 23751, 14475, 35116, 18650, 9413, 21214, 26501, 12376, 37010, 1045, 44037,
      39362, 12831, 10609, 6202, 45319, 19879, 30377, 19062, 32593, 8517, 29449, 32677, 6184, 5360,
      23838, 7596, 45649, 4503, 2362, 25828, 15984, 22328, 17962, 42209, 42502, 11113, 14828, 42888,
      9459, 40737, 17117, 35812, 26063, 2817, 17546, 40335, 1583, 43802, 38488, 22814, 42246, 3619,
      3900, 21273, 40284, 33284, 19451, 37557, 44056, 6927, 10259, 25767, 70, 2965, 21925, 20212,
      22917, 32943, 5139, 45393, 41497, 5342, 27003, 21744, 7155, 36760, 42709, 409, 20777, 45950,
      25704, 1680, 31178, 45469, 1490, 31733, 47005, 7565, 49169, 29728, 19490, 20668, 12547, 6432,
      46615, 14782, 34164, 19287, 30558, 26362, 39960, 36886, 24280, 48214, 34666, 4518, 4730, 214,
      17204, 39302, 37889, 49950, 6166, 19696, 3594, 13655, 21382, 18376, 28222, 46519, 33057, 47909,
      41726, 19679, 40413, 8784, 21726, 45847, 5199, 37926, 20726, 3933, 6978, 989, 40807, 28636,
      6267, 27688, 5003, 16658, 21082, 19762, 48389, 13370, 44749, 34398, 39252, 32183, 36043, 31436,
      18110, 36215, 8971, 41317, 24688, 24344, 5517, 48661, 34408, 47008, 4207, 8406, 38933, 9987,
      40354, 10536, 4419, 33091, 1829, 32248, 47224, 4630, 16948, 26419, 34851, 37677, 3818, 22182,
      14009, 21405, 26306, 7678, 9561, 24823, 40799, 48266, 25696, 46028, 41835, 41457, 16172, 24582,
      3462, 22134, 12805, 7217, 25663, 28329, 40588, 5478, 35834, 29699, 38731, 8178, 22053, 48391,
      31784, 9523, 24645, 7033, 36740, 22532, 40794, 7267, 16152, 16039, 29403, 31731, 36521, 41052,
      14286, 23962, 33579, 2907, 15853, 40289, 3482, 5677, 14398, 41632, 10791, 46917, 31790, 41271,
      21632, 49374, 29564, 41377, 45894, 14697, 16063, 28447, 21229, 35075, 25286, 12440, 49915, 2104,
      26473, 27148, 27927, 2007, 35352, 9549, 1707, 15703, 24850, 44924, 13723, 7262, 24787, 30837,
      21963, 3923, 2344, 15971, 45640, 48947, 25149, 22172, 29370, 41006, 32392, 46960, 35965, 13506,
      10600, 40974, 12335, 13236, 7064, 6541, 48917, 22718, 11607, 38219, 3861, 30956, 29293, 43227,
      6699, 4647, 28589, 30322, 2457, 21327, 46868, 3125, 34676, 14032, 9242, 16028, 23094, 42473,
      12465, 2571, 11262, 2286, 30169, 24978, 3609, 4193, 34974, 36590, 21361, 16610, 46512, 14971,
      17407, 19375, 673, 12691, 32507, 15532, 31319, 38065, 30407, 10499, 19847, 47432, 48946, 25013,
      42044, 28749, 13660, 31144, 28660, 8659, 41716, 35858, 36645, 7680, 40822, 45290, 49092, 11638,
      36849, 17779, 40855, 3611, 39328, 24878, 2946, 31888, 15618, 29399, 48885, 30127, 43045, 9451,
      41142, 44616, 22498, 7, 26184, 4095, 30145, 28217, 38557, 43300, 43027, 6969, 33517, 25796,
      34747, 10986, 43193, 28167, 39609, 34759, 20518, 1962, 34058, 47977, 36361, 7786, 7277, 1483,
      9536, 48802, 16157, 49883, 45932, 12792, 7364, 44587, 45927, 5100, 8113, 13293, 39736, 15142,
      16671, 19371, 655, 3118, 35708, 14283, 9287, 3382, 5457, 49847, 2908, 1895, 3488, 28751,
      28452, 6747, 11297, 19200, 34797, 32768, 25824, 45349, 40709, 36957, 35934, 41816, 24415, 26611,
      49491, 42019, 19574, 2755, 46200, 44030, 47178, 11550, 182, 21206, 24901, 1370, 47772, 32053,
      35120, 32078, 38881, 21562, 47499, 19020, 37832, 5688, 27379, 49320, 36279, 128, 25021, 25399,
      11923, 32405, 5354, 34005, 39222, 45262, 46988, 44827, 11096, 49578, 15800, 33772, 49992, 23787,
      4304, 110, 16947, 28017, 33918, 12640, 2836, 8617, 17280, 1557, 40227, 42323, 15946, 11993,
      109, 23166, 31950, 35815, 45937, 13294, 843, 21681, 2601, 8763, 15789, 28142, 20458, 21112,
      8407, 35420, 32900, 29431, 40949, 36165, 24185, 24778, 16594, 21189, 7540, 11729, 31985, 10821,
      10271, 16177, 2495, 10016, 6428, 9313, 49293, 21121, 46025, 42045, 22882, 18184, 3836, 35134,
      7616, 26055, 1826, 45733, 40105, 30103, 3910, 48234, 45578, 40587, 8777, 37092, 43724, 10512,
      31961, 24015, 2012, 43570, 33928, 7225, 742, 1671, 27336, 39069, 36750, 44530, 21457, 38479,
      21920, 41474, 28068, 33221, 29115, 31597, 41940, 39708, 6407, 38609, 219, 16946, 11933, 3702,
      6810, 14576, 39376, 26629, 16930, 2289, 11489, 30437, 41066, 27572, 5563, 15249, 31488, 46856,
      2342, 42651, 3905, 19936, 12894, 18865, 1786, 25304, 36436, 35541, 17293, 14273, 25071, 14363,
      29026, 20570, 45042, 37839, 29472, 24792, 12758, 6383, 41079, 14001, 40178, 8020, 7184, 17192,
      8875, 40365, 5881, 13256, 39436, 3305, 23876, 29496, 9920, 17894, 3064, 44960, 38397, 41902,
      8543, 6181, 13581, 46620, 34204, 15013, 23947, 34145, 25026, 23263, 47522, 324, 12630, 14513,
      19886, 46176, 37635, 39054, 2541, 49705, 25264, 43127, 11873, 44791, 80, 20050, 1803, 35808,
      7625, 42517, 33761, 1106, 16348, 20034, 19241, 40090, 18967, 20849, 21351, 11852, 46084, 40710,
      16635, 8919, 2992, 5181, 15134, 323, 18194, 22267, 27090, 8546, 17183, 15230, 13832, 41978,
      24169, 20217, 30338, 31714, 12848, 39024, 34294, 25328, 31418, 12802, 20882, 20585, 24168, 23575,
      30513, 24055, 39106, 49944, 27483, 40127, 1684, 47266, 24677, 120, 44973, 18810, 2744, 19492,
      950, 17841, 4062, 34843, 3510, 16929, 37095, 46526, 6425, 41454, 37697, 2325, 44758, 38662,
      34532, 45034, 37589, 32203, 39128, 41783, 1068, 18487, 24994, 21334, 6524, 44513, 8318, 23422,
      31244, 28858, 16307, 22929, 49138, 2778, 32952, 20413, 37014, 40617, 30938, 30512, 41925, 12710,
      42280, 9592, 10656, 25687, 28187, 37467, 31689, 3581, 40559, 26164, 26573, 11265, 37057, 39447,
      44225, 20295, 33858, 26988, 34459, 39101, 1635, 44772, 40833, 49879, 44581, 40666, 13802, 44750,
      11912, 35013, 15621, 20196, 37218, 11625, 3798, 40918, 31762, 11575, 29350, 14803, 32178, 46538,
      802, 8257, 16380, 31532, 11660, 39201, 45544, 772, 18683, 28356, 22949, 28296, 31546, 38100,
      5040, 20540, 31884, 5959, 30458, 30840, 12030, 22079, 17979, 42496, 22279, 35197, 42377, 7402,
      46212, 44458, 20457, 12687, 3944, 31374, 7305, 10262, 29524, 33628, 7563, 32831, 43763, 44138,
      45989, 10734, 25770, 3231, 23187, 19666, 12597, 22193, 43487, 200, 33580, 24191, 15433, 18948,
      31224, 36267, 48937, 39292, 49155, 42161, 10132, 3755, 27239, 23543, 26285, 45195, 27889, 41356,
      4296, 37653, 38037, 4750, 46785, 21324, 30597, 8331, 9384, 18537, 18451, 24669, 48718, 4556,
      8853, 28248, 29839, 45886, 35177, 47152, 857, 37969, 32901, 33347, 13254, 41712, 15837, 5533,
      36335, 37215, 34755, 1877, 29860, 28476, 24840, 11026, 43545, 6605, 42602, 21250, 45481, 967,
      16823, 747, 32805, 1032, 13941, 14972, 33874, 9679, 45135, 5270, 4283, 15943, 22230, 33532,
      9349, 28808, 6758, 40682, 4903, 6693, 10665, 27577, 29573, 6935, 33072, 14335, 29214, 24150,
      17596, 25750, 43062, 17926, 24379, 3075, 37584, 19038, 45459, 39717, 46860, 30515, 41046, 3563,
      43623, 33067, 3766, 10365, 2029, 23059, 36991, 44445, 7193, 41894, 17687, 9758, 49181, 30294,
      12082, 12761, 2627, 38593, 39543, 2499, 10829, 724, 45321, 3855, 13084, 32570, 28837, 15277,
      30765, 49658, 39804, 13154, 8220, 16649, 47842, 20274, 21231, 27687, 41285, 25417, 11661, 25002,
      33034, 49829, 15258, 31914, 45143, 37510, 4237, 46889, 22979, 3356, 22385, 22997, 37976, 23549,
      2662, 31081, 5102, 5548, 36123, 2789, 37786, 37753, 30752, 41329, 39000, 3548, 6082, 19361,
      33821, 33508, 18332, 42526, 28354, 49314, 38279, 22826, 47135, 34988, 43128, 13976, 23445, 42577,
      43008, 3452, 10342, 35991, 21176, 42971, 10883, 9389, 15255, 10708, 4337, 24057, 2245, 48915,
      48854, 15824, 39839, 43412, 36809, 14492, 18892, 28073, 37560, 35864, 33817, 33421, 37636, 25203,
      37231, 37956, 47962, 6920, 2304, 7974, 17831, 1653, 20973, 39572, 7117, 1243, 18849, 7679,
      11872, 5031, 35684, 8668, 24948, 21018, 8557, 35741, 40991, 42687, 42639, 35334, 19489, 8675,
      28877, 26856, 47754, 38726, 41071, 26996, 17608, 11335, 30045, 45787, 11591, 19453, 42982, 39660,
      16386, 17366, 24607, 7385, 7956, 27754, 28070, 35412, 8206, 3568, 15312, 39946, 19458, 46796,
      13911, 37342, 17995, 16768, 44693, 7947, 16181, 8909, 18143, 18233, 45204, 13004, 5225, 1544,
      47475, 34427, 44504, 19101, 1395, 26676, 35077, 20663, 4644, 44403, 21453, 42332, 39999, 10660,
      13282, 15983, 28479, 21099, 23399, 45502, 17961, 35723, 10817, 3507, 20549, 42423, 9632, 38242,
      46710, 46935, 29951, 24923, 30331, 38716, 19824, 5323, 4009, 22655, 27064, 24636, 10798, 4543,
      28431, 23261, 5595, 19055, 24004, 48255, 32336, 45924, 40253, 7449, 45856, 14290, 22060, 37350,
      40435, 48135, 16062, 45328, 30775, 12892, 33627, 46319, 45007, 13721, 48261, 36799, 6600, 45538,
      7861, 17121, 16077, 23745, 6552, 30894, 13729, 36660, 25648, 10279, 2300, 25560, 7173, 6708,
      26939, 15572, 38226, 13278, 4589, 16599, 8592, 32428, 13800, 24553, 24068, 40672, 32329, 10608,
      22980, 13167, 44609, 33299, 37908, 41715, 37925, 2824, 1647, 6206, 41493, 37278, 25769, 9654,
      48237, 13151, 740, 29953, 9118, 31491, 40378, 21480, 9667, 14174, 46000, 21445, 47725, 34472,
      34281, 21201, 39859, 5766, 28617, 23264, 47169, 49476, 25067, 8305, 2848, 36273, 20210, 39324,
      13263, 6863, 10436, 30481, 30754, 28762, 11670, 32691, 17530, 13897, 20844, 34861, 11902, 38050,
      24540, 40421, 31972, 28928, 29359, 1977, 26517, 5940, 10755, 36464, 33509, 8278, 21837, 30574,
      26159, 39521, 6592, 28135, 5303, 30524, 26581, 32811, 17398, 24633, 18828, 20231, 41942, 49892,
      41918, 1052, 1984, 18463, 38305, 13949, 19972, 48873, 7738, 34996, 15465, 46129, 17503, 16256,
      48644, 3945, 17620, 940, 11461, 10192, 23213, 24971, 14848, 13632, 46046, 16055, 46608, 24081,
      45288, 19620, 6675, 19155, 20790, 25960, 30578, 47723, 24510, 7745, 45117, 38940, 40079, 20406,
      35976, 7705, 34547, 26157, 23287, 18868, 32631, 22503, 35764, 3391, 29615, 14494, 43465, 32061,
      1521, 3076, 40911, 9403, 12928, 4047, 1554, 24615, 35542, 4915, 8582, 40092, 11960, 6312,
      30149, 14365, 23406, 13999, 10407, 18112, 14217, 47644, 3416, 25281, 516, 32532, 44894, 14192,
      15593, 24189, 25514, 24919, 37126, 5991, 9519, 31502, 29268, 23961, 37313, 15815, 8379, 14935,
      49554, 30441, 18674, 34623, 98, 47957, 31431, 10941, 21626, 48347, 36921, 9267, 15937, 45045,
      2388, 49904, 36501, 5426, 47543, 45412, 8276, 7911, 25840, 22594, 19105, 19985, 36479, 26317,
      3753, 42809, 45764, 21449, 10896, 8929, 15459, 2020, 45645, 49404, 9282, 20019, 31708, 8504,
      27814, 29640, 25858, 13902, 42490, 45336, 5893, 12969, 32325, 6350, 2507, 44125, 39858, 41303,
      4253, 5742, 38504, 40094, 38089, 953, 27159, 46162, 33264, 14471, 11797, 37238, 4012, 36050,
      22342, 10268, 2658, 24595, 36670, 49805, 15294, 33167, 24612, 39190, 4361, 2666, 15135, 29575,
      32947, 26077, 19034, 29959, 9303, 31657, 3893, 48231, 36417, 24560, 847, 10853, 38930, 27396,
      19409, 42247, 11527, 32611, 36671, 31841, 49165, 33842, 6757, 44479, 24732, 48300, 15599, 11032,
      46604, 39916, 26826, 30937, 20305, 40360, 46077, 17491, 8140, 34632, 38924, 29349, 14773, 34564,
      34043, 2290, 48609, 17196, 12487, 34891, 8132, 24166, 18275, 6981, 20029, 28459, 13511, 6119,
      42123, 27333, 23937, 46470, 49011, 39737, 14741, 16790, 15318, 23400, 21124, 12348, 1453, 11592,
      12865, 14729, 35970, 27972, 11487, 23149, 39312, 6404, 28594, 34500, 46380, 40414, 18679, 27320,
      4615, 41254, 34193, 8538, 19813, 47829, 11474, 28269, 35776, 29900, 2194, 24626, 37301, 24761,
      13611, 34745, 41747, 31003, 10632, 24138, 6730, 27806, 36312, 46258, 44194, 42664, 5787, 25114,
      45956, 31242, 3277, 21893, 47702, 23873, 31596, 40093, 31446, 26634, 33656, 21871, 32889, 14366,
      43113, 34873, 29731, 42621, 47500, 25558, 304, 35975, 25253, 36524, 152, 5862, 48092, 3445,
      41419, 24339, 43751, 1418, 4702, 39642, 15170, 5561, 31567, 7374, 14854, 28845, 20164, 10009,
      28487, 17804, 29200, 15418, 11666, 22510, 31648, 30275, 7815, 41188, 37113, 46147, 42335, 10421,
      42373, 8256, 21522, 8694, 6851, 4726, 3257, 45478, 23692, 35438, 24478, 13602, 28579, 27888,
      4832, 9606, 6133, 32684, 4500, 19788, 2942, 17624, 29554, 6872, 7397, 26772, 32381, 46658,
      20211, 25239, 37370, 33750, 43554, 5020, 29330, 9830, 42060, 37200, 10050, 33603, 29025, 37399,
      33300, 19998, 45611, 2901, 5352, 36728, 3628, 36306, 25951, 17874, 25589, 15159, 31754, 4201,
      11827, 25572, 42218, 16918, 9763, 35679, 40311, 6535, 37464, 9126, 30432, 48034, 2240, 13126,
      40267, 24988, 31288, 39682, 42792, 35125, 26932, 2237, 28249, 19587, 6902, 45702, 20260, 22777,
      18346, 6274, 44667, 28374, 40779, 4203, 18338, 18138, 41613, 27248, 28619, 30889, 12290, 30662,
      20610, 43931, 36453, 36250, 16332, 16298, 18598, 11832, 26158, 491, 22162, 15951, 48273, 33144,
      49537, 11028, 32085, 27730, 16707, 26266, 48792, 40744, 38154, 35492, 35646, 16655, 36097, 25162,
      48427, 7718, 14957, 38701, 35381, 2718, 25571, 7557, 5726, 19284, 33156, 18724, 7870, 49194,
      18741, 4364, 20892, 37984, 33036, 44045, 43257, 22400, 15956, 5170, 43373, 791, 30997, 26404,
      41295, 25320, 34018, 28836, 45385, 46793, 1285, 35402, 16620, 13301, 30548, 17113, 1043, 27104,
      39077, 21220, 29915, 43142, 14845, 15888, 3169, 46841, 19485, 426, 32630, 12313, 19632, 42979,
      38713, 42504, 15192, 1190, 3229, 47078, 42778, 26271, 932, 31109, 5356, 44161, 32923, 47439,
      26300, 17915, 27656, 4530, 2141, 43998, 9580, 35549, 13713, 37002, 32289, 38073, 46969, 19176,
      25716, 32868, 45853, 2558, 46853, 37106, 48331, 30730, 17583, 48309, 21401, 47923, 38030, 6885,
      31809, 46906, 40451, 9002, 957, 35545, 2760, 48920, 46233, 6314, 21844, 24653, 369, 24701,
      12695, 18475, 22892, 34219, 22434, 10530, 8871, 40249, 9420, 36525, 36207, 29459, 39540, 7886,
      17385, 20920, 9656, 27864, 23000, 35102, 5661, 3309, 19150, 3056, 1905, 12701, 4156, 943,
      31026, 27686, 44136, 47175, 2294, 6803, 23002, 11504, 45623, 24894, 39463, 13852, 32282, 42021,
      20919, 289, 36177, 22194, 30892, 8822, 19546, 45187, 41186, 5116, 25728, 43249, 41141, 39514,
      20436, 32131, 39223, 10552, 37836, 25030, 48771, 24554, 11165, 14926, 44686, 15978, 46749, 28897,
      43843, 38991, 9584, 26812, 12556, 49873, 31013, 16969, 6081, 24128, 22128, 1127, 27136, 28964,
      29949, 26089, 20363, 25224, 26286, 48364, 9235, 43918, 42216, 34638, 4851, 38835, 4093, 23379,
      35041, 9520, 6245, 32233, 27908, 1464, 12594, 9845, 30400, 32612, 13413, 18391, 13438, 5286,
      10595, 41191, 13177, 36168, 38551, 35467, 45075, 38977, 30674, 30610, 25578, 25314, 37975, 8879,
      29034, 36862, 26591, 45390, 46472, 40690, 43103, 46153, 34736, 23920, 24781, 41471, 12566, 8326,
      49039, 19478, 14858, 31702, 40040, 11466, 14572, 37662, 35023, 2299, 12896, 42334, 2186, 42536,
      18393, 36916, 22643, 32824, 34621, 32537, 31590, 30185, 4660, 6394, 648, 31077, 16904, 1392,
      6014, 24639, 24432, 4548, 19223, 21333, 6882, 44081, 24857, 48850, 33047, 27346, 6988, 9123,
      6205, 4402, 18502, 6233, 6253, 9743, 2990, 41995, 20078, 6739, 31742, 28193, 18596, 5262,
      16688, 30052, 29438, 9264, 33425, 42551, 45456, 26730, 16379, 25697, 20876, 38841, 26088, 44421,
      33597, 24414, 43250, 17161, 1442, 45179, 28053, 20280, 11813, 40156, 25922, 22665, 11081, 19391,
      21126, 22108, 35297, 27537, 23353, 25809, 8761, 25819, 5438, 37958, 13637, 7462, 19271, 11034,
      46290, 911, 2772, 31338, 2351, 38839, 35579, 30902, 49930, 17871, 3942, 27755, 10644, 38528,
      2595, 29544, 2442, 1295, 39476, 2649, 1807, 49801, 2861, 39399, 39538, 8897, 9311, 14585,
      49602, 32135, 1748, 19021, 24362, 47265, 12338, 43105, 17298, 4563, 45922, 4619, 8153, 7811,
      9270, 10146, 2158, 23144, 14969, 33232, 32251, 14339, 18216, 16870, 34668, 31442, 16468, 22438,
      7062, 28497, 14229, 8568, 3269, 22468, 18746, 8402, 46997, 19415, 5861, 43275, 34799, 7936,
      41968, 28076, 42525, 19366, 12736, 14880, 40898, 43721, 42945, 14664, 21714, 32385, 16166, 44904,
      5904, 34679, 22558, 30927, 38925, 37309, 48608, 18817, 8932, 6463, 20613, 49777, 37512, 49226,
      17050, 49210, 42541, 16730, 23598, 44882, 18175, 28458, 17817, 10689, 27998, 44971, 30942, 39990,
      42603, 3126, 35083, 20586, 47541, 26873, 33147, 20628, 26378, 16188, 21907, 45358, 10587, 8842,
      41158, 25424, 4520, 12141, 34539, 39135, 12033, 20089, 36605, 1289, 10276, 11444, 3935, 22014,
      42347, 14695, 22919, 9790, 1451, 1501, 33084, 35987, 29758, 2635, 31114, 44588, 31760, 29586,
      44563, 45522, 46024, 13671, 17757, 24712, 36330, 10881, 49506, 30814, 41668, 49228, 40715, 14321,
      47571, 38357, 10134, 30713, 20015, 5175, 3315, 31019, 8413, 30601, 30673, 13661, 2231, 4466,
      26233, 18044, 3703, 18266, 32941, 40235, 13791, 16529, 1884, 457, 46246, 20834, 12257, 588,
      43161, 45191, 22878, 15518, 6098, 24206, 1344, 468, 47125, 10171, 43703, 44491, 6301, 26821,
      19537, 37299, 18453, 3289, 41126, 4401, 10127, 44911, 42629, 31868, 45030, 35779, 16270, 2826,
      28472, 8374, 46346, 43504, 30661, 40647, 25850, 31701, 47446, 2993, 17582, 11578, 2088, 17278,
      45905, 45873, 10092, 24247, 23208, 26466, 20723, 27642, 9113, 43160, 32268, 23811, 43713, 10069,
      49639, 15602, 10743, 3547, 38060, 39746, 20833, 29282, 24640, 12843, 34362, 28537, 15182, 45775,
      41820, 43902, 31855, 20088, 36205, 10613, 39416, 29470, 48674, 38252, 11042, 40602, 24471, 13501,
      4010, 17179, 7496, 39471, 38233, 13053, 1992, 48991, 9097, 33851, 26487, 34752, 28215, 20275,
      5579, 20865, 8891, 26744, 8249, 45119, 38769, 18198, 1423, 436, 30073, 11680, 11836, 46623,
      31527, 14343, 23292, 7238, 26556, 23335, 34205, 44860, 43170, 28741, 10758, 5642, 2743, 7247,
      26377, 39623, 12130, 32558, 30912, 16776, 23558, 1565, 32228, 12233, 26259, 48149, 41500, 44189,
      3772, 5853, 33228, 34580, 43523, 13478, 23587, 20546, 45921, 7725, 10430, 31594, 14720, 43622,
      31023, 48303, 15521, 12956, 25541, 13980, 41390, 17628, 43811, 43953, 23153, 5129, 33292, 42537,
      38062, 32404, 3242, 35004, 36146, 49871, 43898, 5144, 38058, 14577, 979, 15864, 22086, 24106,
      46560, 18415, 6282, 15975, 39625, 18455, 41300, 5672, 12789, 46537, 27466, 7586, 20347, 13912,
      22915, 17008, 18618, 35005, 41877, 11500, 19842, 48983, 28192, 22971, 26755, 3074, 1078, 46298,
      37517, 41040, 5665, 2989, 19211, 45556, 13876, 2814, 7516, 20412, 18664, 961, 10629, 1791,
      41900, 4393, 22825, 45532, 24018, 25807, 5749, 33563, 27945, 43208, 46364, 16841, 37988, 26560,
      4262, 46758, 1800, 18521, 21194, 40152, 40946, 49423, 40474, 20391, 38007, 9233, 13464, 47111,
      17588, 29642, 15499, 19548, 48484, 38855, 6942, 35048, 44562, 33985, 47735, 5325, 29601, 43517,
      12788, 27123, 42572, 27921, 32288, 23768, 31879, 5857, 39088, 48382, 25088, 21690, 39153, 14337,
      19419, 15505, 27508, 38200, 49911, 21850, 29494, 24758, 24683, 46378, 48040, 19364, 30242, 7195,
      3579, 47099, 27767, 10445, 16311, 4204, 6957, 9163, 42861, 45560, 14836, 26878, 33046, 1,
      29117, 30906, 7648, 4217, 13097, 1185, 46089, 16313, 25066, 5386, 17353, 16581, 28819, 43054,
      10742, 42804, 3979, 7090, 22904, 34265, 17497, 41960, 14554, 42187, 26706, 45067, 43223, 24545,
      11097, 38657, 31220, 7104, 32637, 47965, 4056, 27427, 43981, 7191, 38079, 938, 18102, 18117,
      31662, 1072, 43349, 29105, 18121, 24328, 19792, 35040, 45571, 46381, 13659, 45252, 18380, 36353,
      39375, 47087, 90, 43961, 26344, 30359, 22012, 40449, 36642, 498, 25937, 36747, 23687, 13104,
      15914, 35532, 21753, 18551, 30504, 5145, 36138, 14539, 7487, 33924, 19730, 24196, 47335, 21768,
      21474, 6493, 22112, 46277, 49598, 30709, 41202, 17713, 4645, 21659, 25642, 31247, 15286, 5757,
      41436, 18853, 19884, 6140, 6912, 37088, 48141, 30726, 12790, 13867, 40064, 7361, 49688, 1457,
      5201, 19590, 21111, 39090, 25200, 44284, 29019, 1796, 30440, 18980, 3018, 12203, 19841, 39042,
      19260, 41756, 25911, 15081, 12216, 6703, 41665, 44952, 36356, 2645, 21796, 43145, 186, 49190,
      8106, 2166, 6316, 25278, 11402, 49910, 49386, 42857, 19683, 45630, 15785, 27560, 4932, 280,
      19466, 21746, 49339, 39719, 26922, 18983, 36856, 33070, 3723, 35093, 33250, 30778, 3281, 21581,
      23158, 31995, 7732, 14326, 26815, 9701, 35562, 27402, 6319, 10118, 38909, 2845, 25445, 44736,
      22303, 3578, 46568, 28823, 22492, 23927, 41891, 682, 48390, 4230, 5935, 33873, 12903, 33567,
      5001, 2923, 15747, 31773, 33286, 2691, 7827, 4811, 35557, 3446, 34417, 29647, 8156, 39393,
      31123, 28519, 46481, 14067, 28085, 28993, 11070, 44441, 46387, 19030, 1231, 7751, 108, 40331,
      26307, 35527, 23739, 32822, 3529, 3110, 21489, 27511, 32165, 45217, 15845, 38469, 12024, 45906,
      36184, 48933, 43124, 23794, 1396, 12362, 19603, 26961, 29563, 26833, 3141, 39934, 33834, 23568,
      16781, 7336, 25148, 30097, 4289, 40478, 6663, 15538, 36711, 16329, 3202, 45849, 25153, 17666,
      34659, 43401, 30378, 8288, 47146, 17836, 15267, 2323, 24037, 14158, 11359, 40871, 39036, 20944,
      49362, 6753, 8480, 25384, 38143, 19910, 16174, 28103, 41422, 31967, 25593, 14019, 46023, 28435,
      34128, 4546, 41810, 33577, 41915, 6149, 13748, 27562, 44467, 37031, 8632, 26175, 20705, 49846,
      26791, 17531, 31718, 48992, 35080, 35145, 19432, 12564, 1323, 35324, 24692, 43114, 26599, 24598,
      10351, 39980, 608, 30244, 16483, 15262, 41764, 18786, 38545, 40133, 48776, 32667, 49914, 383,
      15335, 10904, 45136, 39571, 14528, 19306, 29208, 20697, 42401, 475, 48615, 32249, 11744, 16345,
      1467, 38453, 6724, 19664, 39580, 47347, 36442, 14314, 8122, 20374, 7600, 36898, 44431, 19001,
      3303, 6342, 13591, 16886, 923, 40308, 3601, 11645, 3875, 6868, 7028, 26537, 4346, 25533,
      29741, 48651, 8541, 6006, 29276, 13451, 39783, 23370, 27194, 30392, 2625, 44053, 49171, 31392,
      14885, 22309, 45888, 28791, 28086, 22177, 26083, 20737, 24891, 31064, 49175, 28058, 31945, 32617,
      47698, 5784, 47763, 43476, 14304, 7989, 24049, 31513, 2357, 41857, 23677, 1398, 10565, 15278,
      18092, 29582, 9279, 45751, 14646, 41308, 12483, 21697, 37468, 30021, 47022, 36620, 470, 17020,
      25390, 9038, 35493, 20565, 29116, 37886, 26492, 7969, 39258, 25748, 13205, 44069, 19461, 23309,
      28953, 12505, 49543, 3643, 9724, 38099, 29444, 14759, 8501, 9392, 3248, 8913, 10427, 39184,
      25240, 25930, 10527, 49959, 10072, 34595, 33137, 28958, 11636, 18046, 181, 9206, 20241, 20201,
      38670, 11799, 1143, 25747, 19487, 32459, 37959, 15738, 43707, 27308, 29142, 37323, 48571, 17863,
      48512, 1008, 47291, 37176, 17672, 21707, 8147, 37587, 24989, 21739, 25101, 10308, 24985, 12169,
      15242, 27719, 20024, 41682, 49793, 37977, 42746, 26977, 37058, 10612, 28983, 4285, 45973, 39386,
      49567, 21232, 1623, 42328, 43780, 8134, 29540, 9737, 17212, 7609, 14411, 31350, 29260, 25109,
      36928, 2877, 33833, 16974, 44230, 34576, 16342, 6110, 36615, 4919, 22319, 20524, 43333, 42923,
      44770, 10178, 17723, 28279, 3704, 26851, 27294, 45526, 16545, 13375, 31344, 24235, 31230, 2259,
      1335, 44092, 40726, 9232, 13424, 16064, 21594, 34360, 2453, 26976, 22600, 42518, 35707, 15780,
      37133, 31209, 35566, 13013, 45554, 28855, 5038, 43206, 26688, 47086, 15387, 35896, 35860, 23983,
      26678, 23257, 4400, 45402, 40179, 16002, 42805, 39662, 8672, 31343, 46168, 40052, 45942, 3833,
      22021, 49429, 10059, 12350, 39126, 17496, 38747, 49295, 41064, 25797, 37482, 1284, 47695, 46285,
      21402, 36067, 42959, 19219, 38748, 1023, 46635, 28851, 32625, 38173, 7275, 37332, 44487, 36763,
      45103, 40515, 18430, 42069, 6197, 46508, 13150, 49769, 10894, 20321, 4160, 14757, 40858, 11546,
      40989, 18144, 27047, 2633, 44087, 32216, 46500, 9137, 31375, 11904, 4178, 44060, 30207, 30948,
      550, 46653, 11911, 17486, 32133, 39627, 20235, 25204, 20297, 24523, 28814, 48417, 23182, 4949,
      16094, 3316, 11463, 11863, 18289, 17880, 23012, 45223, 48503, 49502, 18304, 30576, 6237, 17024,
      22254, 3524, 18524, 23200, 46661, 21898, 30233, 20134, 48305, 38738, 41219, 10343, 41795, 41584,
      12124, 27133, 3719, 6355, 6521, 9288, 33499, 22701, 18400, 2284, 40343, 31956, 26585, 3503,
      12088, 24541, 40939, 42174, 31612, 27593, 46409, 38808, 41009, 10252, 44410, 15725, 34706, 40667,
      3287, 8661, 5394, 34009, 34022, 4159, 1240, 33702, 267, 47687, 39533, 33605, 19114, 8091,
      36131, 43279, 39992, 39906, 7611, 15219, 13519, 6543, 18399, 27991, 6860, 15039, 37142, 11708,
      29977, 43609, 22517, 10250, 44946, 13858, 48039, 28041, 38944, 41027, 18553, 13192, 36557, 24098,
      9398, 20568, 38774, 47870, 42366, 41105, 46351, 47941, 33344, 9562, 41722, 7080, 24571, 41990,
      32619, 42850, 41466, 21284, 47289, 11127, 4029, 47346, 44654, 17725, 37149, 16095, 41946, 42057,
      46903, 47767, 48528, 33671, 32111, 16426, 40746, 41270, 47558, 43542, 38512, 15207, 47294, 47784,
      33890, 25016, 2149, 30307, 33566, 35159, 36286, 11823, 2374, 32915, 17378, 41541, 2097, 34436,
      12103, 21841, 16989, 10037, 4764, 1410, 19832, 15617, 17802, 10007, 47106, 15363, 10802, 45254,
      226, 32663, 36305, 27611, 5128, 10337, 29747, 43603, 42397, 30148, 8628, 12900, 2949, 1174,
      7901, 22956, 21160, 20419, 37312, 2891, 18709, 12037, 41884, 11732, 42178, 25311, 34473, 41890,
      19780, 34222, 32171, 21541, 22739, 42196, 29065, 30681, 26628, 28515, 25133, 49187, 6551, 22513,
      19304, 37498, 43810, 1698, 17891, 16408, 5549, 26615, 7656, 32856, 40263, 27101, 43483, 41838,
      34151, 42157, 43730, 25434, 16696, 48379, 34280, 28433, 46891, 31641, 36198, 17987, 6036, 24444,
      1497, 24990, 30959, 35692, 44132, 39969, 34667, 3282, 33648, 29543, 25410, 49978, 20507, 18339,
      13360, 25044, 750, 44557, 44989, 28659, 29628, 32396, 43589, 24445, 311, 25250, 35500, 34599,
      4665, 35751, 41790, 13197, 1696, 7416, 47313, 6865, 28388, 44708, 5053, 14966, 23637, 14115,
      7599, 24263, 26151, 40361, 20402, 16840, 48265, 11076, 34046, 28822, 8304, 44237, 32673, 2489,
      19833, 35415, 16718, 4593, 47827, 14403, 20383, 1326, 41262, 5756, 35430, 35449, 28130, 42447,
      3350, 26982, 37413, 40384, 11839, 438, 38587, 6740, 15257, 30352, 5684, 42440, 32931, 1188,
      9994, 44372, 31234, 45564, 12791, 48269, 45650, 22035, 6649, 46929, 26779, 16164, 38395, 46834,
      7981, 9595, 39535, 35212, 39861, 773, 37395, 3394, 25872, 29479, 32315, 32119, 38370, 25031,
      43449, 10709, 32918, 25918, 49906, 26964, 22070, 43378, 34541, 11300, 5809, 48756, 24216, 29036,
      12815, 25193, 47345, 29710, 6222, 31761, 15420, 18649, 1426, 8101, 41477, 2754, 2617, 10880,
      13098, 21406, 17897, 36938, 46884, 37620, 1763, 45882, 31989, 1656, 8202, 2277, 49277, 33507,
      22581, 13471, 23919, 7747, 4559, 42219, 11846, 21211, 896, 24915, 42054, 2927, 15146, 31355,
      48744, 6561, 37627, 10243, 42026, 39549, 30642, 47402, 30088, 46316, 6401, 43812, 24814, 43329,
      44171, 49010, 37112, 42693, 16629, 34454, 29066, 26009, 41502, 36029, 34132, 4679, 5771, 47879,
      27183, 31687, 42991, 180, 15364, 42699, 25633, 34203, 10035, 10423, 46452, 8090, 26381, 35101,
      15908, 32957, 46844, 13, 4251, 8494, 3674, 8721, 29706, 41758, 7671, 29356, 13290, 47719,
      25512, 17023, 35309, 37664, 4496, 47472, 5460, 45337, 29854, 29183, 13556, 23520, 48573, 31743,
      46151, 13486, 10077, 35364, 29419, 49306, 27876, 41675, 27221, 1213, 27252, 10329, 31724, 29691,
      19753, 3683, 11917, 10237, 15671, 15666, 44236, 37159, 10287, 12200, 46573, 30385, 3914, 48931,
      49646, 30360, 20717, 49479, 14049, 47194, 33463, 41784, 14090, 43611, 40511, 39425, 44893, 44999,
      43429, 35711, 13005, 27391, 22206, 43650, 46069, 13579, 20075, 32526, 11225, 7020, 40072, 3442,
      631, 49857, 49900, 37248, 12604, 39140, 600, 38877, 47886, 9545, 31443, 17235, 26281, 21041,
      7945, 41244, 17940, 49093, 43397, 17714, 38832, 17963, 4219, 35937, 919, 11347, 43115, 8854,
      35639, 9426, 8943, 41649, 35582, 32654, 20580, 26800, 904, 33246, 12104, 15165, 25780, 8957,
      32509, 29162, 10538, 33670, 3318, 19770, 157, 21149, 4325, 42320, 26954, 5073, 596, 34627,
      8339, 15093, 48875, 5434, 28738, 41870, 16470, 29916, 14831, 10544, 1478, 34089, 34858, 19110,
      10113, 31118, 7707, 48010, 22199, 308, 23343, 471, 41684, 18337, 47555, 39470, 20909, 45200,
      24481, 9240, 46719, 37831, 13484, 26677, 41876, 5082, 24696, 36543, 43677, 9565, 9687, 12365,
      33234, 35907, 1270, 20123, 35945, 16228, 46621, 46807, 9806, 27682, 35768, 45914, 1339, 28829,
      23934, 27141, 16421, 24936, 41840, 40878, 30327, 8620, 23542, 29498, 19834, 28346, 20338, 5401,
      31659, 96, 46437, 47481, 34378, 4913, 5628, 32912, 11497, 49466, 26506, 13557, 36396, 1771,
      34597, 18087, 47436, 34001, 33773, 3349, 35593, 15851, 14054, 40886, 40723, 48648, 14100, 40980,
      27831, 1491, 21171, 13249, 3113, 30546, 49711, 45331, 49342, 21190, 21669, 23604, 39853, 6666,
      42853, 15601, 28881, 36406, 28203, 12181, 3835, 27145, 45438, 285, 37940, 18577, 25639, 33393,
      19662, 47976, 447, 4291, 17893, 38905, 48827, 28168, 8246, 18250, 28019, 16197, 38790, 10398,
      28838, 29979, 17951, 29223, 40189, 15695, 22587, 26596, 4737, 42937, 31916, 7049, 27978, 49585,
      204, 27368, 14170, 17566, 37377, 9981, 10277, 1562, 41851, 44632, 25798, 40754, 29998, 17377,
      1968, 45529, 7350, 27677, 24771, 8410, 21905, 11187, 32724, 34091, 19253, 47220, 37600, 36092,
      17901, 6042, 42325, 26064, 3922, 25910, 44411, 22338, 34310, 29247, 27031, 4149, 36873, 24051,
      86, 37414, 35888, 5273, 9633, 13504, 14840, 47358, 49436, 33119, 16659, 19168, 22371, 20087,
      45468, 31090, 32491, 6690, 21835, 12980, 2715, 11309, 41672, 16714, 18834, 46814, 23936, 24121,
      26980, 19312, 36088, 16253, 16467, 11838, 29771, 19570, 41470, 39143, 38433, 464, 9087, 3622,
      34156, 22938, 18747, 47570, 42163, 20033, 25699, 9572, 26741, 24001, 8765, 44856, 3200, 33111,
      37459, 5014, 21456, 30591, 39631, 30170, 38767, 23553, 17005, 33581, 24212, 30115, 37012, 34608,
      9172, 29776, 28714, 17820, 45110, 23605, 31854, 17730, 26052, 32529, 16305, 6118, 20634, 23639,
      44126, 3876, 33131, 16758, 1303, 17516, 31045, 16726, 2650, 17567, 29807, 6686, 40626, 6346,
      23344, 47141, 12387, 3441, 49242, 34099, 38209, 32433, 43521, 35852, 24060, 22575, 16051, 2133,
      13762, 10333, 14861, 5117, 41437, 33775, 48424, 21967, 4990, 6146, 38771, 15555, 28918, 27295,
      12146, 12486, 29103, 27471, 31305, 2258, 16604, 34900, 48556, 4420, 37735, 15673, 28238, 37628,
      31550, 18937, 18668, 2052, 45323, 49416, 263, 18303, 49189, 21955, 48117, 12796, 24108, 1194,
      20027, 48801, 3177, 38645, 22633, 45753, 1817, 25325, 38943, 31196, 26717, 8902, 33992, 36380,
      23719, 22186, 31553, 46809, 19723, 18397, 15384, 36614, 35084, 37617, 3886, 33052, 494, 24753,
      45617, 44748, 46612, 12653, 43608, 15486, 1274, 25441, 22033, 42402, 17537, 42238, 21275, 38561,
      47587, 43246, 40465, 4439, 42885, 33384, 7908, 25029, 8268, 810, 41544, 9294, 2308, 32359,
      10781, 12575, 24384, 5218, 10646, 517, 5795, 15381, 27884, 6482, 11118, 22365, 22518, 27038,
      44216, 22311, 27665, 5388, 46767, 22702, 40819, 2898, 10610, 38430, 30940, 14064, 31072, 27349,
      35750, 16817, 22291, 3615, 23701, 25487, 35672, 14933, 28416, 4185, 9037, 48493, 5489, 12496,
      8124, 23837, 41414, 23111, 12781, 24407, 32462, 49198, 27173, 4540, 11583, 17896, 30800, 22922,
      49989, 32187, 21100, 40382, 33524, 37788, 4939, 5189, 39411, 31441, 5989, 48111, 14293, 31330,
      28331, 8341, 11868, 42085, 45635, 26643, 6070, 33237, 21063, 49731, 3500, 7164, 33728, 47657,
      35926, 11713, 27522, 47663, 24460, 39987, 45833, 22832, 509, 4416, 16274, 45822, 17364, 107,
      18501, 13862, 34260, 966, 22772, 22237, 21419, 35956, 32893, 14934, 23329, 16344, 4608, 39006,
      2548, 18435, 20603, 16584, 37162, 30113, 37562, 16355, 44229, 11242, 1516, 39606, 1463, 25361,
      11031, 29108, 39326, 35828, 47764, 5941, 42273, 39712, 46016, 17702, 377, 5652, 23573, 5298,
      21531, 42488, 27731, 40491, 36033, 25806, 47302, 2867, 28664, 20168, 31560, 41643, 10385, 13883,
      27783, 12628, 15085, 24436, 30356, 37195, 26187, 48896, 43308, 47997, 14580, 46218, 9298, 6112,
      16647, 8372, 48310, 26176, 25012, 39260, 41532, 10930, 31917, 24768, 30490, 17237, 8357, 1179,
      17617, 21496, 1801, 20487, 23146, 42312, 33279, 47864, 17356, 49063, 46795, 16027, 26364, 19815,
      22224, 33076, 2043, 42925, 40220, 37764, 36438, 43648, 20230, 14740, 17002, 30879, 38533, 36014,
      2858, 39363, 9739, 13759, 29620, 40500, 18870, 43299, 1346, 40068, 18737, 9377, 3102, 5613,
      1427, 27838, 14936, 23285, 16887, 31456, 46090, 28101, 48552, 25276, 42996, 9842, 25082, 39319,
      21588, 34352, 13561, 6136, 48217, 5288, 32661, 48993, 33790, 14018, 40128, 7653, 37576, 10772,
      15760, 12955, 7900, 47791, 40861, 41135, 15124, 42000, 45426, 15466, 26768, 2935, 26335, 2232,
      3592, 42987, 32706, 21861, 21335, 46639, 27590, 4216, 20816, 8508, 14564, 7279, 18253, 24568,
      47282, 34183, 23923, 22083, 14658, 39515, 1332, 46690, 40175, 45041, 278, 6646, 26416, 13906,
      6352, 36722, 49539, 41588, 6275, 15603, 23220, 374, 28075, 2087, 42767, 9440, 36726, 26805,
      22271, 17220, 41154, 44784, 4900, 6514, 14320, 38586, 1146, 49177, 37668, 14673, 12994, 46648,
      37127, 38416, 46177, 19976, 27836, 45038, 45170, 20444, 10368, 37184, 10700, 23805, 34048, 48140,
      7281, 33360, 5137, 396, 15157, 25096, 16107, 22454, 12627, 49113, 49822, 16079, 4148, 32713,
      41032, 44102, 47296, 37990, 20989, 21068, 43126, 21558, 17689, 45239, 34933, 36520, 32738, 11778,
      36125, 398, 7567, 14505, 44178, 43556, 34927, 28705, 49278, 46848, 4214, 5183, 34298, 44778,
      13062, 14441, 46057, 13958, 33676, 37682, 6987, 48968, 5500, 4815, 31370, 43044, 4571, 34689,
      33325, 4183, 42831, 3602, 566, 10962, 13649, 48979, 34407, 12301, 14682, 10575, 6247, 21222,
      35666, 32545, 28198, 45157, 39526, 7605, 6024, 28662, 40209, 47199, 49119, 42800, 1638, 48469,
      31297, 28297, 17319, 8993, 41535, 41761, 3388, 32850, 47885, 30398, 9548, 29804, 24681, 8686,
      48127, 17012, 44383, 19732, 34425, 41374, 33626, 20554, 8768, 18826, 25986, 29497, 39130, 17416,
      4048, 33184, 18829, 23593, 37017, 42023, 37519, 5764, 5815, 48251, 7236, 37968, 38257, 46411,
      15940, 49632, 9103, 31780, 30231, 2679, 41941, 25795, 7375, 29331, 2505, 46317, 37785, 41765,
      47235, 17306, 33864, 35879, 36082, 2714, 46510, 9697, 44104, 4770, 9535, 33512, 23943, 19626,
      22336, 18490, 35770, 21701, 17018, 14956, 36504, 6375, 43480, 25205, 39445, 46858, 35149, 14625,
      437, 18191, 7315, 4928, 21860, 16935, 5242, 4471, 19602, 8047, 19166, 38951, 48262, 16330,
      30245, 17631, 32652, 16114, 40429, 4235, 13588, 38705, 8723, 19676, 36057, 45553, 29770, 29972,
      9409, 24096, 22613, 18326, 47406, 40480, 37355, 40520, 16366, 5826, 9619, 33438, 39998, 27905,
      17758, 45447, 45089, 43718, 28062, 34644, 25887, 40658, 11671, 36054, 23678, 33641, 24093, 9048,
      2622, 6334, 25866, 45082, 16125, 43891, 44798, 40165, 13988, 7573, 47293, 16614, 24803, 48717,
      7829, 17838, 8708, 3108, 1416, 12477, 48333, 42777, 43181, 3495, 17474, 36049, 30817, 43940,
      43847, 16723, 39446, 12472, 16953, 35237, 35630, 38434, 37295, 46688, 34107, 34242, 23159, 27210,
      23969, 33658, 46643, 28081, 42714, 32338, 22860, 2496, 43266, 40832, 35687, 11115, 38950, 10484,
      32239, 13203, 23725, 15633, 5775, 41702, 46644, 20667, 19802, 14014, 45958, 5148, 17815, 22001,
      6549, 15153, 47066, 40180, 9658, 10994, 34656, 13075, 12307, 28696, 27275, 17240, 17455, 1109,
      49487, 14401, 6010, 28292, 7555, 47958, 20399, 9299, 353, 1133, 26495, 23417, 47464, 10944,
      49771, 46516, 3011, 48496, 42881, 9229, 21585, 47607, 28438, 19347, 19939, 44508, 38476, 7640,
      12267, 14400, 18726, 38358, 45885, 10044, 2825, 36329, 22081, 4032, 22667, 48015, 2713, 40693,
      44712, 27673, 16399, 15469, 29333, 24635, 25421, 45606, 2856, 10085, 5536, 15353, 27449, 4077,
      16739, 5981, 30343, 43877, 9035, 22795, 48882, 28737, 11272, 41181, 49046, 479, 40389, 22883,
      45703, 30190, 266, 46781, 36732, 1090, 37165, 38836, 19671, 40055, 33219, 37279, 3193, 35964,
      30913, 22913, 2337, 1197, 21911, 7778, 9871, 29598, 14238, 5134, 29102, 29762, 43346, 3007,
      20685, 9568, 10029, 12702, 44820, 21024, 30553, 8934, 36802, 23689, 32236, 10568, 26341, 30928,
      44950, 5510, 34870, 6339, 29611, 43829, 48105, 15291, 6246, 36773, 2220, 34105, 20722, 3930,
      43535, 27362, 7030, 35536, 774, 573, 33664, 44600, 1465, 6167, 3367, 15311, 3438, 7492,
      19973, 12581, 29228, 31231, 10221, 23588, 33482, 25618, 48916, 19593, 13094, 9771, 34738, 30393,
      6797, 32180, 25300, 49297, 883, 7303, 45126, 874, 43970, 11458, 38376, 11, 31451, 10713,
      33871, 3645, 10448, 41970, 3813, 4523, 7231, 24652, 46649, 12551, 10917, 46261, 27942, 24731,
      43212, 31333, 13238, 7528, 28811, 4756, 43050, 1108, 11090, 42878, 28139, 26318, 8054, 5886,
      21779, 3542, 8359, 41802, 41002, 19530, 2333, 37769, 41231, 22896, 11790, 43630, 46852, 44485,
      14478, 44501, 23388, 5785, 41250, 5883, 34499, 7002, 8801, 25419, 24267, 34685, 44186, 23823,
      268, 3142, 4800, 16577, 7422, 23779, 4396, 2156, 22221, 26879, 1441, 25018, 25075, 18197,
      48035, 47963, 35894, 13909, 32948, 37862, 6527, 31619, 17735, 22464, 26927, 40604, 48446, 11146,
      18379, 1496, 733, 20290, 11903, 11129, 16796, 49522, 16156, 2330, 6328, 27943, 32066, 2072,
      26228, 19961, 24493, 15355, 3219, 19756, 23850, 13373, 25151, 4040, 15553, 26247, 10410, 41278,
      48927, 444, 32616, 11250, 20885, 36493, 40808, 13577, 26818, 37130, 13694, 1336, 6564, 4957,
      34250, 3973, 16113, 41834, 5964, 30500, 34345, 25719, 41088, 12724, 6991, 13095, 43706, 1474,
      15006, 26561, 8857, 10877, 1553, 36364, 46399, 14521, 18848, 45301, 49550, 6043, 43549, 42011,
      26668, 52, 13970, 274, 12231, 25659, 47342, 8490, 14362, 25222, 20204, 21569, 2119, 26308,
      26178, 31561, 45133, 32909, 30430, 13295, 10454, 15477, 49677, 33559, 42749, 5030, 24973, 14163,
      6363, 40769, 21391, 36896, 38519, 30637, 28815, 16123, 31387, 47354, 21887, 23673, 31049, 42495,
      29129, 15127, 452, 16072, 33103, 35066, 11206, 11269, 28872, 29922, 25621, 11690, 28359, 12428,
      40273, 12154, 17731, 22570, 1878, 46096, 47761, 12995, 23893, 29748, 8476, 49220, 34915, 36293,
      18469, 6465, 43943, 34930, 24157, 24381, 2532, 24733, 32731, 15750, 20349, 14495, 17164, 31215,
      24393, 42217, 12759, 12096, 39325, 39407, 9588, 40565, 47775, 27343, 23, 45920, 41882, 43312,
      17756, 17249, 9132, 49765, 2807, 14774, 7328, 45363, 30931, 26527, 21564, 19424, 6875, 6134,
      5944, 9527, 40254, 34727, 24764, 20574, 6216, 27502, 7654, 6442, 4508, 23346, 3600, 34371,
      41807, 29292, 42203, 6176, 12990, 27474, 4738, 1512, 33778, 9810, 48928, 9761, 31437, 20814,
      16922, 23364, 15269, 960, 34702, 43871, 49963, 5140, 27111, 43471, 2306, 26131, 40623, 39705,
      16338, 1839, 8500, 45025, 18203, 20930, 1563, 28008, 35570, 13585, 42112, 47243, 30401, 47619,
      24802, 7325, 35607, 46911, 46395, 14278, 19791, 25295, 42993, 27722, 34495, 2138, 40783, 49495,
      11887, 11511, 23254, 47338, 15727, 5643, 16875, 4020, 15868, 7380, 5450, 18494, 48787, 31970,
      7580, 34487, 12114, 47353, 33869, 43230, 15224, 44700, 2142, 28257, 10264, 20340, 2273, 21478,
      45869, 43154, 11086, 45159, 16785, 40314, 309, 21096, 25313, 1348, 28090, 42098, 23336, 43559,
      39676, 39161, 12829, 8482, 46260, 4387, 30905, 16507, 14424, 22305, 22926, 3639, 43435, 47828,
      48213, 10963, 27270, 23297, 16871, 1113, 16124, 24347, 45457, 29074, 4456, 13365, 42667, 11082,
      28752, 16071, 46017, 21945, 45535, 7721, 26209, 11126, 20252, 44499, 28712, 10107, 35616, 33845,
      36294, 47486, 31717, 45971, 2091, 39810, 49453, 30165, 43220, 47426, 13061, 22624, 43565, 32179,
      10065, 35485, 47907, 4824, 29999, 32829, 15821, 43568, 44317, 10307, 21964, 49597, 9010, 6456,
      33799, 20214, 7579, 17466, 42017, 15000, 44552, 36313, 4592, 7388, 44794, 6330, 8426, 768,
      21020, 33791, 15016, 41742, 41888, 14881, 37209, 27545, 41224, 47118, 42275, 13595, 33183, 7720,
      9330, 32812, 14005, 20490, 21102, 45559, 17104, 44242, 49415, 38594, 18765, 32903, 29067, 7755,
      32253, 43540, 23186, 39388, 43409, 46734, 23770, 9974, 27300, 16680, 46567, 36004, 623, 9281,
      13367, 31266, 2408, 23491, 342, 14896, 26359, 13032, 15647, 25804, 24610, 17571, 19497, 7685,
      34879, 17394, 15798, 44339, 28406, 7665, 17090, 30693, 36512, 35069, 43755, 42158, 24909, 21926,
      13717, 30605, 13914, 36835, 2960, 26848, 48964, 36580, 47511, 11551, 13871, 18762, 8467, 35936,
      29874, 19771, 5860, 11364, 33334, 41020, 1277, 24674, 28533, 10765, 33015, 18655, 8975, 3106,
      11128, 38080, 2676, 25631, 16409, 40921, 28436, 43228, 39552, 33807, 44927, 49334, 14311, 18465,
      9750, 41281, 20924, 23734, 11963, 34079, 2758, 49079, 46971, 15537, 22921, 7724, 38959, 1411,
      15024, 4639, 18842, 42388, 26764, 7606, 37937, 40204, 24528, 21994, 4526, 24422, 11710, 20993,
      27487, 36090, 31706, 741, 9052, 23894, 40303, 12574, 9641, 23540, 31199, 8165, 16377, 44526,
      16416, 10458, 12918, 15597, 23522, 21718, 45552, 30703, 11509, 30304, 36149, 13328, 29752, 20479,
      7152, 40265, 29258, 30517, 29895, 23444, 21221, 22636, 40657, 41440, 39806, 49674, 16381, 7873,
      4202, 2239, 25201, 1221, 1412, 26947, 38589, 6612, 21362, 5679, 3560, 9836, 44536, 6186,
      17520, 22249, 35608, 5878, 15168, 40098, 46250, 47598, 24543, 4097, 24114, 44896, 46342, 35992,
      45955, 34543, 6871, 46127, 9959, 8231, 47944, 14589, 38172, 11641, 43571, 3635, 3096, 42104,
      33762, 15561, 2376, 19959, 36688, 15578, 30520, 28607, 38161, 41592, 8450, 4514, 34071, 47337,
      6914, 31489, 39249, 31871, 32361, 41604, 43749, 11104, 49799, 35653, 4342, 28889, 21035, 46432,
      49264, 4998, 44878, 24656, 14747, 6898, 30100, 13019, 29041, 14399, 19896, 28846, 37970, 44889,
      38351, 48143, 17846, 26054, 42915, 31859, 35175, 7722, 13797, 1357, 26566, 2525, 16621, 9027,
      34161, 30919, 24720, 27604, 19295, 27745, 22071, 26810, 20375, 15102, 45756, 21600, 25466, 25245,
      11847, 19327, 11810, 22022, 28969, 20869, 8133, 5306, 2577, 35668, 16801, 39607, 28334, 40730,
      12681, 7978, 38624, 5421, 31363, 18716, 8982, 3998, 35329, 7409, 44168, 251, 39005, 17318,
      39492, 4819, 37776, 20285, 25145, 14871, 7845, 44664, 33470, 20003, 10261, 8860, 42508, 27895,
      47897, 19704, 42499, 542, 33089, 3852, 36271, 16339, 6002, 32225, 5198, 19761, 45439, 8354,
      35225, 22034, 40851, 14872, 12027, 43685, 30474, 17122, 35831, 42084, 18666, 39268, 46368, 25455,
      19414, 13819, 6326, 47982, 34491, 17775, 2917, 2229, 45406, 18956, 7963, 45930, 49541, 7744,
      24201, 44111, 26542, 43402, 46951, 5654, 3779, 10522, 41070, 3344, 46627, 19685, 15028, 10480,
      33265, 36119, 34750, 17724, 33117, 13700, 42274, 28200, 6633, 313, 19380, 13120, 12048, 49015,
      5961, 4635, 20342, 19051, 4457, 12172, 36375, 14711, 4194, 21517, 4497, 17860, 2780, 40350,
      46818, 38221, 23858, 30592, 42027, 27770, 4650, 8223, 48981, 20464, 10183, 33255, 24385, 20627,
      39022, 18684, 3063, 46697, 2115, 24023, 12650, 7880, 49507, 48595, 33929, 36710, 248, 20992,
      16158, 7627, 39165, 25356, 16140, 38986, 31044, 35726, 27854, 14068, 5231, 2668, 37765, 83,
      27026, 21123, 2053, 34461, 43162, 23176, 34649, 13398, 23656, 48134, 28125, 27995, 20562, 18959,
      45064, 32114, 6272, 36774, 27988, 16656, 15959, 15541, 26803, 42277, 35869, 47938, 48329, 19231,
      38085, 47336, 48637, 47826, 34569, 8713, 47227, 39612, 4191, 36492, 16178, 22561, 26995, 14074,
      32456, 12286, 45773, 26395, 22062, 26350, 41872, 8343, 5960, 43602, 32882, 3853, 48972, 15744,
      8741, 35994, 23096, 17149, 45019, 45807, 45854, 23357, 723, 12324, 30342, 20182, 5172, 49097,
      29701, 2295, 40653, 32326, 4640, 35061, 38428, 47216, 22782, 5570, 31291, 40831, 35244, 41078,
      41963, 23305, 39997, 35314, 13174, 6502, 23635, 21882, 5078, 14222, 43086, 18875, 37440, 35022,
      35118, 19433, 37577, 24542, 30069, 14104, 3777, 4974, 431, 21654, 14493, 33007, 30801, 17208,
      8313, 40109, 6324, 35094, 39475, 16674, 17135, 40264, 25644, 11195, 28240, 36084, 31237, 11238,
      31506, 22493, 24902, 16729, 37119, 46193, 44055, 34255, 44151, 48977, 5321, 27342, 40423, 31204,
      14736, 746, 9162, 10628, 47575, 44498, 21895, 38057, 49231, 4705, 8522, 32394, 29682, 24412,
      11764, 14898, 39235, 1555, 33379, 12887, 48833, 25126, 37155, 43881, 6513, 11368, 35140, 30159,
      48378, 39086, 1997, 27309, 49609, 23521, 26112, 38280, 43356, 19107, 9992, 9056, 36248, 25694,
      20873, 19291, 30347, 29966, 1558, 2578, 41210, 5081, 8201, 17295, 41083, 15190, 12322, 43134,
      30238, 32014, 738, 15767, 709, 9464, 39792, 35273, 38193, 13125, 5098, 47615, 22824, 13077,
      30141, 11020, 20178, 3585, 16889, 10921, 9786, 30414, 25248, 1111, 18998, 29995, 11180, 19119,
      11259, 13377, 35720, 19566, 49316, 16695, 34232, 25119, 6824, 20558, 29434, 3116, 19127, 23381,
      38720, 16828, 43437, 34498, 13997, 6956, 7105, 28375, 49424, 37256, 42166, 27844, 11000, 31713,
      13131, 42183, 28485, 7162, 35880, 2529, 29324, 4461, 32002, 1549, 38880, 16320, 39545, 17036,
      25895, 4068, 13325, 23298, 17708, 19174, 32853, 18924, 20356, 32877, 41190, 27019, 21670, 46257,
      21667, 41211, 14960, 11879, 3803, 3566, 5174, 26827, 39265, 20728, 26830, 31191, 6707, 34936,
      462, 15247, 17287, 10969, 35002, 37243, 6271, 34212, 37689, 10381, 5246, 1429, 11768, 34038,
      44853, 29458, 33, 27077, 33235, 49284, 5233, 21385, 25155, 1550, 1888, 21011, 10217, 40087,
      22379, 8670, 5221, 9414, 23872, 17967, 43184, 30599, 17363, 23323, 39714, 13226, 15132, 18035,
      16030, 33355, 2227, 5471, 48790, 48560, 24492, 48995, 2207, 32164, 26914, 24397, 26796, 9023,
      17224, 43662, 33975, 28629, 35472, 6165, 16839, 13924, 37491, 10048, 36414, 19499, 6454, 6052,
      239, 616, 9831, 13452, 28951, 8362, 36589, 3284, 21970, 24165, 13108, 3638, 27960, 17825,
      49928, 45158, 36882, 29901, 16026, 11141, 29666, 24156, 7278, 30729, 26793, 30947, 35146, 43,
      31882, 27900, 25485, 20818, 38326, 10137, 48539, 28450, 6700, 47999, 25891, 312, 38886, 15463,
      26787, 18054, 7876, 47165, 15177, 11642, 11378, 13517, 23114, 11131, 30821, 14998, 31678, 5278,
      49294, 6062, 5694, 33140, 8910, 6760, 43544, 42627, 26106, 39742, 2117, 15359, 39988, 35332,
      4968, 831, 20272, 25811, 32716, 8574, 7986, 21350, 30923, 1456, 40321, 19785, 28719, 30567,
      42313, 48082, 22571, 27735, 20330, 574, 38394, 41137, 45771, 36852, 7001, 15400, 14938, 5219,
      43818, 29447, 30494, 30278, 38558, 4330, 20440, 10671, 42082, 32982, 45380, 14182, 42743, 30117,
      5732, 3988, 19922, 2828, 5226, 196, 13658, 46181, 26434, 24499, 35816, 26303, 2725, 36301,
      20761, 27507, 8748, 40916, 22264, 6857, 25607, 30757, 38592, 1781, 48488, 44121, 2264, 9143,
      23498, 26538, 14707, 3530, 29576, 17239, 35749, 48335, 39187, 2971, 36201, 49003, 31751, 24993,
      16176, 31953, 827, 2448, 15056, 48147, 43167, 21820, 23423, 17102, 12153, 34173, 39052, 22091,
      16511, 43351, 43191, 37005, 14946, 16842, 31009, 38941, 17837, 25528, 40742, 14657, 15838, 24242,
      11570, 38997, 41768, 7706, 42625, 16539, 4776, 43235, 7174, 38302, 17703, 47365, 42124, 43209,
      35949, 19111, 844, 35021, 40909, 9880, 44387, 36237, 9291, 41478, 17072, 31475, 15145, 12163,
      36103, 10081, 40549, 31682, 36822, 43377, 3245, 17284, 14617, 10669, 18163, 23796, 10405, 8114,
      15871, 11470, 959, 618, 23503, 4308, 31581, 20294, 30688, 4293, 19463, 16084, 35346, 22451,
      21490, 23421, 14206, 30092, 43679, 44984, 12536, 19904, 27367, 23056, 18115, 26100, 38009, 44546,
      3337, 43906, 23683, 21504, 4771, 22960, 6399, 42198, 36457, 44476, 46453, 40646, 28661, 8892,
      26084, 754, 9072, 9407, 25987, 48654, 23709, 34835, 12711, 37522, 29123, 37254, 31293, 28146,
      38361, 32589, 48398, 23716, 27538, 20928, 7369, 40615, 26735, 14555, 16694, 28059, 7809, 8295,
      27417, 22723, 2254, 3403, 37421, 44665, 43375, 554, 19151, 48264, 35410, 43384, 45513, 37691,
      43880, 32065, 28701, 10428, 45024, 7759, 29306, 6870, 48487, 5041, 15769, 40826, 5882, 8735,
      12354, 5173, 36920, 43436, 42162, 26403, 33657, 27919, 22048, 42547, 29380, 17688, 1732, 12917,
      45622, 12474, 13337, 14299, 34956, 26978, 46236, 15712, 23403, 27211, 10414, 13024, 41706, 43496,
      12101, 36500, 46705, 23933, 45652, 9149, 986, 13993, 22988, 23410, 793, 19783, 41729, 16522,
      49670, 13345, 36008, 8021, 4921, 29173, 25998, 21978, 12160, 35580, 39827, 48534, 991, 23981,
      44113, 9698, 2129, 18068, 5535, 30152, 45821, 21616, 19058, 10091, 25635, 1889, 38266, 16266,
      32056, 44201, 5637, 11484, 2233, 5018, 48994, 23638, 8013, 48826, 32680, 28888, 5667, 11256,
      38132, 29194, 39632, 13816, 27558, 2974, 23722, 41469, 1337, 33331, 49308, 45545, 47512, 12250,
      39046, 11942, 48252, 30004, 31493, 49588, 28134, 6594, 1596, 4810, 7475, 41028, 38352, 44909,
      48344, 1717, 19898, 4021, 951, 1446, 16196, 12441, 45935, 4227, 4306, 29704, 2180, 47192,
      47283, 47812, 7249, 7250, 20604, 18968, 8398, 4955, 29580, 34373, 24211, 46502, 28868, 17704,
      16100, 779, 34027, 46692, 14540, 27741, 10653, 33652, 30583, 30838, 20283, 49052, 40323, 8475,
      26969, 43138, 18342, 27505, 38117, 19148, 48678, 31120, 10173, 27968, 43905, 7793, 42451, 977,
      17233, 19244, 17267, 20253, 28318, 30961, 12525, 45086, 20310, 47814, 27671, 32365, 48168, 2440,
      10475, 46499, 35242, 13314, 22393, 28569, 22351, 32181, 9742, 9591, 48386, 33850, 13619, 19130,
      38389, 34032, 30998, 39903, 37486, 40402, 17542, 34365, 31091, 21547, 39869, 10678, 33860, 47217,
      3761, 11451, 134, 26507, 2363, 241, 26857, 29736, 41468, 14815, 25588, 34944, 4783, 49484,
      26273, 44024, 13810, 48617, 10159, 49773, 22707, 47933, 32763, 6025, 48416, 45446, 14794, 18862,
      29311, 45767, 31518, 35606, 17132, 34175, 28326, 18698, 23269, 28194, 23884, 538, 10668, 4879,
      7578, 40982, 46360, 31210, 9169, 45755, 45953, 31038, 11543, 23156, 44349, 35271, 19736, 15423,
      22712, 46923, 42030, 37639, 31981, 25815, 4399, 47031, 20735, 35448, 25856, 43293, 11658, 16845,
      24693, 37230, 35883, 20582, 2398, 12064, 4380, 14944, 36231, 19660, 13468, 41305, 14000, 37936,
      14125, 14216, 26584, 1189, 15431, 25252, 19378, 927, 44755, 46861, 34180, 23904, 8327, 40758,
      17832, 43290, 47049, 25657, 35465, 14806, 49899, 46626, 34534, 17969, 0, 4196, 25354, 13946,
      36540, 16463, 34784, 26983, 38496, 30195, 38026, 26740, 14504, 47916, 47159, 29167, 36518, 9902,
      49029, 29452, 28382, 12315, 21960, 45259, 29931, 48027, 13841, 11056, 41805, 19979, 27650, 32777,
      27373, 36038, 22965, 3997, 3834, 33695, 47427, 44607, 4528, 46893, 36714, 4092, 408, 32502,
      19313, 10253, 42926, 15121, 18593, 13258, 43342, 8585, 3226, 9059, 19858, 6481, 49162, 20949,
      40010, 4768, 23276, 29205, 8841, 17581, 37849, 38629, 23885, 28418, 30489, 32104, 10135, 44570,
      4943, 33208, 10968, 48482, 22822, 24921, 11059, 20879, 12608, 5641, 35784, 34496, 12385, 11286,
      23008, 18861, 24358, 48052, 43486, 825, 12143, 8600, 21787, 31610, 39957, 8499, 28667, 15980,
      32891, 11893, 33056, 2487, 38728, 36425, 41049, 14121, 45132, 7419, 29724, 31586, 19015, 10874,
      33287, 3039, 37746, 22456, 29622, 15307, 46954, 4890, 20763, 23361, 5640, 6069, 38183, 42459,
      5292, 33003, 38166, 19429, 49931, 30427, 49048, 38928, 11997, 9682, 14712, 918, 8093, 32541,
      47801, 32213, 45726, 8260, 49683, 43025, 49086, 13774, 20222, 17532, 4410, 37426, 36118, 48238,
      20784, 22049, 24317, 42922, 38935, 49908, 41195, 38288, 22761, 5523, 22466, 34327, 32258, 5638,
      24629, 30842, 44830, 6742, 11958, 32819, 30269, 15614, 47290, 22909, 8590, 28857, 10571, 48181,
      42848, 40349, 27630, 32128, 32354, 5179, 344, 6702, 12642, 16852, 15644, 47730, 37833, 9263,
      26410, 28748, 17700, 43310, 37808, 20817, 29988, 33614, 17954, 42760, 27674, 8082, 42834, 17498,
      25460, 29050, 37852, 27344, 15292, 42628, 44669, 43838, 35280, 30532, 36153, 16134, 9844, 1024,
      47156, 47753, 45267, 26738, 34885, 26036, 31454, 2647, 130, 48945, 41906, 20779, 32234, 3605,
      47550, 20633, 22346, 24797, 31576, 21981, 46675, 44815, 25754, 29161, 28972, 45284, 28597, 2955,
      1092, 22512, 44263, 27824, 47002, 41209, 5646, 5085, 27893, 710, 1972, 12558, 23918, 32209,
      25050, 33748, 2756, 20154, 11981, 7309, 37328, 39738, 39473, 37523, 14668, 35305, 8889, 15046,
      9320, 17807, 41349, 9702, 24622, 5863, 49778, 38838, 16976, 15074, 30128, 6670, 12217, 21349,
      43296, 46344, 12854, 34074, 32295, 1588, 12739, 16398, 23921, 2375, 21848, 4046, 30387, 15075,
      25273, 41175, 45812, 28027, 35738, 1837, 21641, 30711, 32300, 35331, 37471, 31356, 20385, 22756,
      24999, 48770, 44373, 11571, 2437, 29338, 10005, 40070, 48399, 4269, 16201, 12340, 9378, 37530,
      23278, 43775, 47937, 16031, 1434, 28627, 36762, 4404, 49328, 14172, 10226, 31563, 44046, 20273,
      44330, 35028, 3483, 38204, 41728, 1318, 36911, 36897, 8377, 13705, 31420, 21812, 48395, 13496,
      15178, 9766, 44502, 24780, 29109, 10764, 37402, 23228, 32554, 39280, 49971, 29503, 39160, 15397,
      12845, 12645, 42656, 33846, 28236, 48112, 22833, 38311, 23046, 17112, 16861, 46239, 8613, 9929,
      30973, 21870, 28147, 32310, 40923, 22674, 28224, 1047, 37916, 47028, 27636, 38178, 7701, 24176,
      11418, 32319, 11245, 2709, 5494, 13752, 49933, 23607, 22364, 22716, 40508, 8290, 24621, 33520,
      28871, 23855, 33316, 39982, 44762, 34827, 36066, 40948, 993, 46953, 326, 12384, 48343, 4918,
      44753, 33317, 16112, 15331, 12988, 45474, 49474, 26121, 11627, 8552, 13927, 31388, 4335, 17780,
      18176, 10013, 48258, 21418, 3124, 3027, 13597, 44448, 23905, 42671, 20031, 31322, 5005, 8886,
      46557, 43347, 20155, 40973, 1321, 42916, 48443, 45327, 26443, 34653, 27727, 12637, 36708, 8166,
      16425, 46872, 17086, 33862, 20915, 41221, 43572, 22425, 13272, 30687, 13600, 14520, 11293, 6779,
      31710, 25284, 6723, 29512, 39444, 2857, 11237, 42039, 31654, 6480, 36733, 44259, 43974, 32753,
      7383, 28518, 49102, 23209, 33825, 18153, 44334, 40430, 3938, 26941, 25125, 11941, 3252, 47697,
      36156, 27666, 41601, 18049, 1510, 7729, 40285, 23657, 12050, 23389, 33587, 29363, 43795, 7335,
      10649, 36810, 19080, 45890, 15953, 6137, 6933, 13023, 4189, 17115, 45841, 3525, 15796, 12760,
      37401, 39012, 27739, 20744, 4880, 19269, 34876, 29207, 42193, 17457, 38095, 36016, 40356, 40899,
      41710, 28692, 34749, 33570, 42091, 41438, 6289, 674, 4339, 20492, 14111, 3826, 2883, 47108,
      15880, 8608, 1514, 44694, 16966, 2222, 7940, 21109, 21010, 19863, 7980, 44551, 35110, 38919,
      4058, 5220, 23661, 33946, 47955, 41355, 11011, 26435, 31482, 6315, 36280, 4045, 8829, 41338,
      6039, 18806, 31104, 43063, 9681, 28735, 10299, 44776, 42884, 41885, 49636, 33417, 43670, 29291,
      17814, 39616, 27377, 8986, 45229, 3004, 42385, 7730, 44913, 8087, 11102, 677, 12098, 46664,
      6698, 27095, 15189, 36401, 33032, 40732, 10397, 34392, 7454, 44574, 8602, 25497, 46049, 1723,
      13642, 3589, 20185, 23517, 33319, 32194, 47242, 31677, 6972, 31427, 2569, 35357, 44961, 40792,
      30742, 45713, 23747, 46913, 3623, 2350, 45675, 7537, 18014, 19392, 11674, 44405, 36186, 45182,
      25781, 35939, 37041, 19986, 6555, 44630, 11854, 35505, 31787, 27137, 38722, 21049, 29151, 732,
      29451, 30858, 7849, 14714, 38883, 11840, 49480, 11988, 44869, 2109, 13196, 42670, 33592, 2054,
      1057, 38051, 46066, 26304, 16954, 3806, 39684, 2075, 43991, 12421, 28679, 31747, 40302, 32565,
      39116, 32992, 44986, 4562, 2683, 25590, 30976, 2281, 46629, 9841, 20985, 18661, 18590, 69,
      2195, 18285, 11420, 9851, 34849, 4003, 35830, 21492, 35392, 6662, 30991, 23310, 15035, 25127,
      48963, 44531, 5508, 5511, 38125, 13728, 26687, 46507, 26030, 242, 11647, 32008, 35906, 18272,
      14667, 30, 40804, 10955, 27861, 36588, 36560, 28790, 12045, 11616, 21377, 20357, 13455, 21060,
      18341, 27986, 6911, 49692, 13825, 47085, 48077, 15742, 20468, 35767, 20537, 3957, 39635, 45808,
      11979, 32301, 19682, 10125, 11770, 8497, 9044, 6550, 16732, 4436, 13089, 26491, 44541, 31908,
      35073, 18362, 43381, 9211, 23976, 2592, 20258, 18264, 45954, 3950, 27351, 15350, 3790, 20912,
      44610, 45919, 6874, 41365, 40639, 2275, 17816, 1882, 38969, 11648, 21261, 8363, 17853, 48806,
      3286, 10812, 22265, 7998, 46910, 15714, 34887, 13240, 27317, 31483, 28079, 41608, 30545, 23024,
      19635, 27627, 29779, 48178, 49951, 19609, 13596, 12727, 20483, 9899, 30281, 1009, 9390, 19357,
      33462, 14573, 13461, 41548, 36371, 34198, 22708, 10017, 38845, 2383, 12737, 21091, 48063, 33473,
      21738, 34380, 24200, 40344, 2266, 33341, 5777, 7323, 43450, 11288, 11968, 16391, 18587, 6048,
      9285, 1350, 29668, 48014, 26444, 37124, 34740, 29976, 21877, 16323, 3474, 2312, 31796, 27291,
      16281, 25652, 17053, 35462, 32656, 28880, 48693, 33936, 46268, 649, 20859, 27062, 30390, 8966,
      30516, 3481, 10780, 25340, 45694, 14190, 8240, 16214, 35868, 48582, 10779, 34208, 46373, 31124,
      44591, 39333, 48572, 49907, 49747, 39983, 39610, 16115, 33197, 27089, 15143, 17965, 12272, 40268,
      45568, 764, 9129, 3847, 28655, 16284, 30946, 41958, 33088, 5873, 43426, 16053, 9948, 49848,
      42396, 35811, 38293, 21135, 29867, 25684, 47806, 26448, 13558, 20626, 8925, 16054, 34437, 31840,
      13524, 4443, 26260, 30781, 46018, 45291, 30357, 35389, 34953, 39493, 11239, 36290, 11878, 165,
      11515, 30094, 36544, 19891, 39802, 25764, 26406, 27638, 5551, 46191, 36276, 12570, 4127, 12471,
      38075, 21720, 21757, 17510, 40300, 42755, 49499, 18273, 43147, 28771, 32075, 23801, 18575, 11786,
      7154, 17299, 38295, 40409, 48050, 32270, 1944, 17203, 35106, 6459, 4445, 20503, 46190, 8116,
      13287, 17823, 39793, 11376, 28559, 41376, 43967, 15497, 38899, 3485, 22710, 10840, 35056, 403,
      29633, 31723, 46358, 23844, 11404, 6813, 41187, 44381, 1347, 41998, 2619, 158, 38124, 9448,
      8403, 12399, 48688, 13842, 12648, 18809, 23518, 39765, 34628, 37456, 45032, 20964, 28729, 22270,
      43358, 37695, 17612, 31557, 37103, 29913, 19512, 46314, 1632, 1176, 30739, 47035, 17, 30854,
      8821, 48054, 16315, 11884, 11343, 22341, 13576, 15679, 8277, 24710, 8641, 36430, 12506, 32669,
      7301, 16831, 2602, 14250, 43804, 39047, 1054, 47853, 46130, 33663, 3067, 45128, 2343, 24273,
      47388, 10063, 47301, 22992, 12508, 34002, 21238, 48254, 16670, 14733, 28007, 18365, 22029, 17419,
      9469, 16495, 39507, 32221, 32024, 28353, 27704, 6468, 29000, 27099, 41673, 2373, 39568, 23532,
      32962, 44642, 11393, 16297, 29950, 19645, 25952, 1065, 30182, 25545, 40680, 33655, 49305, 44490,
      376, 29641, 40095, 23432, 38777, 32420, 9051, 36225, 20237, 34390, 16420, 14083, 21721, 18619,
      15199, 27352, 36454, 15664, 11472, 48891, 38126, 16869, 1298, 22256, 43716, 43787, 32098, 15665,
      40114, 37100, 43704, 21775, 12522, 2126, 45848, 20638, 21680, 26640, 31523, 23141, 24907, 7647,
      45748, 35962, 18804, 34807, 13957, 44070, 38517, 5971, 10121, 5869, 40138, 6620, 26801, 48051,
      14771, 48470, 33423, 35649, 43897, 49589, 12599, 9577, 23407, 13969, 4602, 1593, 3955, 12929,
      29962, 49321, 418, 34582, 19740, 16098, 30026, 26770, 10545, 40530, 1260, 26697, 12949, 11514,
      2564, 8868, 15501, 15101, 34179, 20783, 7118, 34941, 18925, 1383, 31377, 36099, 36106, 27721,
      9296, 32700, 12461, 12495, 39017, 2518, 9015, 18917, 23966, 13954, 14207, 19908, 47686, 31251,
      833, 12571, 26769, 9258, 25674, 8618, 31313, 7183, 45601, 26454, 22213, 44955, 28089, 1991,
      14792, 31184, 43379, 9781, 26778, 942, 4212, 17707, 48643, 10071, 36992, 13274, 30701, 27395,
      8824, 5133, 14124, 8139, 19165, 40576, 49988, 48102, 31421, 27203, 29651, 32136, 8421, 24670,
      36718, 3842, 10286, 4372, 11759, 34301, 33173, 30265, 41404, 39594, 35980, 43158, 11974, 42645,
      23633, 44296, 39264, 21987, 626, 45230, 23013, 48179, 40492, 20864, 37612, 27078, 30293, 19444,
      2615, 35277, 19633, 1575, 3100, 46362, 5182, 1959, 34867, 22527, 4908, 39027, 45878, 33107,
      46476, 35715, 17291, 36467, 39202, 27550, 32193, 43688, 17777, 32797, 20868, 38917, 40517, 27161,
      31035, 13148, 952, 33819, 24172, 47664, 13590, 30310, 28650, 29296, 40951, 13474, 37665, 49774,
      35397, 14725, 18519, 18785, 31652, 5476, 21980, 7618, 21900, 42605, 42973, 44655, 42835, 34,
      18476, 48430, 16625, 46055, 17039, 36548, 40914, 25899, 40234, 42811, 6235, 28778, 4169, 18310,
      47778, 20453, 15209, 14310, 12744, 34401, 49682, 44061, 25004, 36879, 10111, 12025, 3023, 20787,
      387, 16810, 19482, 41257, 5436, 45332, 16106, 36229, 18905, 3735, 46383, 11925, 3584, 49690,
      7109, 28057, 378, 18483, 39189, 17549, 21660, 46631, 34211, 1793, 45909, 2165, 44817, 38632,
      40506, 4911, 30016, 35925, 19370, 37985, 47222, 28443, 1761, 6426, 35617, 14812, 42290, 31354,
      4060, 3470, 21268, 40969, 34626, 8352, 49860, 26124, 40670, 46466, 45069, 45938, 46406, 49965,
      34267, 48782, 29828, 45506, 37216, 28923, 14183, 33899, 32754, 17904, 33259, 22411, 24932, 49887,
      30872, 6726, 48406, 45121, 29891, 12036, 26126, 7569, 46896, 3043, 44340, 16147, 22216, 45348,
      40058, 19707, 3296, 29924, 17190, 4405, 780, 49673, 39487, 34999, 33141, 31650, 47760, 41510,
      14173, 8135, 2987, 49038, 18349, 30521, 35824, 25011, 3186, 24092, 1856, 23690, 28197, 37281,
      29246, 27284, 2588, 42257, 10838, 14214, 29347, 40191, 32431, 12389, 8561, 22774, 48156, 6671,
      6601, 14269, 10727, 7571, 42659, 18154, 29089, 9370, 35234, 9164, 11841, 48028, 21579, 25853,
      24962, 41528, 21167, 40161, 9937, 42686, 39075, 41645, 5157, 21843, 46727, 36881, 48563, 27811,
      32037, 13787, 17721, 9188, 12690, 33102, 46898, 12520, 1061, 17819, 5384, 12066, 5632, 18962,
      18923, 16503, 49208, 6532, 14189, 7696, 49732, 12168, 474, 32424, 697, 37366, 29169, 29824,
      5647, 43282, 27423, 14623, 48743, 1288, 7078, 32379, 1334, 35054, 24047, 46532, 47623, 3128,
      43702, 2896, 9000, 19382, 37447, 38686, 30235, 4341, 22526, 42846, 28550, 9918, 48557, 7123,
      34680, 40777, 44368, 8022, 1086, 14993, 35627, 12649, 22417, 12890, 19486, 13726, 28118, 23270,
      16591, 43314, 44038, 41074, 14470, 48824, 12108, 44651, 36488, 49282, 4292, 22924, 32030, 2449,
      26904, 37386, 25808, 27706, 24597, 38783, 26994, 18986, 21439, 46995, 9640, 7760, 36418, 24927,
      21688, 12768, 12534, 44376, 38801, 712, 42680, 9785, 16145, 29801, 34794, 43678, 6492, 24939,
      7469, 29261, 39166, 17811, 36745, 18671, 38711, 45320, 14313, 19839, 38708, 31395, 42433, 10850,
      14913, 13738, 39309, 35043, 7320, 11899, 45682, 22894, 20911, 18012, 29797, 46080, 43354, 20904,
      15273, 34558, 2894, 20082, 47039, 30621, 16849, 10792, 34013, 32958, 37343, 20427, 22125, 37694,
      6528, 18464, 8923, 15949, 33747, 6558, 1203, 37895, 10371, 20352, 20788, 1204, 6379, 41386,
      28907, 40028, 5467, 4322, 3820, 3614, 27441, 37448, 19067, 44559, 39068, 18911, 26906, 35012,
      35311, 9838, 12019, 48759, 39450, 21656, 17657, 3357, 42607, 19857, 47645, 32569, 15140, 48599,
      29650, 21937, 26837, 46827, 45871, 8170, 8687, 38375, 3660, 40750, 6225, 14453, 2510, 5916,
      37463, 21469, 5490, 18247, 29199, 1343, 18215, 24303, 49112, 36219, 15606, 11919, 36793, 15965,
      22681, 6198, 19536, 40712, 39336, 27857, 30002, 28608, 48449, 44831, 17348, 27813, 45466, 38858,
      11783, 9905, 44947, 41897, 45725, 37189, 46398, 5026, 15869, 8970, 1248, 25870, 34696, 25827,
      20713, 27520, 7091, 18627, 45872, 8049, 25160, 28405, 46400, 24266, 21634, 49354, 20277, 37556,
      7948, 42776, 19712, 5371, 10562, 7775, 10732, 15421, 6388, 30893, 44162, 22284, 36383, 35803,
      14921, 46281, 27700, 44822, 30272, 7602, 11105, 9564, 9576, 8439, 21081, 36197, 44783, 49824,
      39904, 8471, 10331, 38136, 17026, 23030, 31201, 35121, 48757, 48600, 18491, 33353, 12075, 10497,
      978, 10542, 25290, 45428, 3155, 2086, 33693, 16242, 26891, 39498, 3256, 36377, 17534, 9339,
      24650, 22989, 13991, 14651, 17524, 39591, 16971, 16213, 47247, 5559, 49604, 48788, 1500, 12299,
      24100, 13270, 25610, 1526, 37237, 31893, 43801, 44320, 28866, 43770, 11260, 35756, 32176, 5780,
      22783, 1758, 29853, 24755, 4801, 29235, 10946, 11930, 15341, 37190, 28403, 36245, 212, 27851,
      8795, 25725, 19044, 39822, 10362, 5821, 26384, 46179, 43097, 21822, 35528, 17887, 20649, 25334,
      30426, 15057, 22607, 37476, 46430, 15652, 32505, 20041, 35802, 3160, 17136, 16745, 9419, 12507,
      17827, 33191, 24155, 13849, 7577, 43745, 12513, 9975, 12484, 24181, 42100, 18245, 44012, 8111,
      7698, 4428, 1433, 20207, 29417, 35429, 3109, 45711, 18439, 10865, 44556, 2879, 2750, 20513,
      31929, 47392, 43131, 36151, 43094, 1904, 11635, 7769, 37475, 19032, 21434, 24912, 13353, 29912,
      30379, 28332, 33585, 13548, 45990, 7326, 8483, 21484, 22872, 23020, 43100, 121, 46788, 16003,
      11052, 7215, 963, 16612, 2847, 1147, 36349, 36947, 26405, 19855, 13384, 6889, 1251, 5281,
      36266, 23454, 45710, 37378, 13209, 45376, 26633, 3480, 40503, 35809, 14680, 43460, 47622, 16510,
      22225, 19007, 46065, 30867, 4411, 27618, 31494, 33322, 44449, 28206, 45501, 8729, 3451, 2628,
      43574, 32297, 38382, 28934, 49493, 43909, 10245, 13143, 35127, 27602, 47404, 41056, 25604, 34000,
      16728, 17972, 18124, 35841, 32205, 3354, 27841, 48748, 9116, 44205, 48414, 14091, 35647, 17555,
      31287, 13008, 16542, 48900, 40611, 11849, 7840, 14454, 14968, 2071, 19243, 19460, 9358, 11488,
      19828, 44158, 33914, 264, 25299, 25959, 20072, 18916, 12654, 8725, 42697, 43547, 14777, 9029,
      48942, 29352, 38633, 40609, 43651, 41896, 4641, 21227, 39356, 9042, 41306, 17781, 30296, 1719,
      34559, 49463, 18821, 10718, 7119, 12527, 4483, 35306, 35003, 30619, 46467, 41268, 12798, 38700,
      30978, 29365, 3662, 8560, 11677, 14447, 38018, 31268, 34935, 42952, 6053, 5890, 6746, 8388,
      15129, 22344, 15069, 762, 10200, 33645, 13831, 41561, 27535, 31101, 21599, 6768, 16504, 4634,
      7438, 32215, 6879, 42978, 10984, 15392, 27816, 12784, 26231, 48072, 38254, 28869, 41415, 25990,
      49532, 47632, 37382, 13938, 6596, 48997, 48271, 12893, 40219, 42521, 19967, 40173, 27531, 6000,
      37086, 9508, 38103, 3965, 12220, 48387, 11257, 21431, 23339, 22563, 28126, 25834, 27849, 35558,
      30189, 22819, 4480, 44377, 6264, 36933, 7594, 45735, 16185, 6814, 6725, 45947, 21240, 16019,
      47610, 20589, 33390, 6003, 17155, 40984, 26540, 42688, 31777, 22572, 34143, 28195, 3406, 26396,
      5557, 26463, 42773, 6597, 12249, 5992, 9238, 4430, 35319, 43865, 11370, 3165, 8105, 39286,
      31117, 38399, 48286, 20965, 47881, 12097, 5824, 4197, 38139, 36288, 4126, 43653, 31591, 37891,
      34163, 41120, 16880, 36753, 22295, 25210, 243, 21368, 40592, 22864, 39678, 12730, 15751, 36134,
      47554, 42305, 703, 18729, 42427, 18466, 43529, 8340, 16337, 22096, 5976, 39762, 1896, 31756,
      35800, 16239, 4254, 17294, 44929, 39053, 23477, 9753, 852, 34150, 11733, 8845, 16780, 23256,
      37179, 28532, 38444, 17047, 7581, 3839, 43917, 22935, 2310, 12327, 11865, 21617, 44219, 37404,
      31043, 44221, 40188, 36619, 4268, 5261, 9997, 48002, 24547, 18612, 33534, 43502, 36698, 27512,
      38306, 6604, 7792, 37152, 27267, 28107, 1296, 28159, 48856, 33852, 41326, 49579, 4667, 37362,
      1026, 21046, 30717, 36448, 6018, 23686, 43935, 5740, 45562, 19550, 43807, 18527, 20262, 18442,
      19365, 5336, 4717, 22408, 29817, 47412, 44774, 28786, 39583, 19849, 25292, 41170, 5858, 17089,
      32199, 43873, 5107, 20795, 24199, 43092, 21535, 8969, 23460, 20021, 21842, 16441, 36411, 13870,
      45969, 1564, 17900, 20996, 35780, 38721, 12276, 26861, 39102, 32653, 39179, 19011, 29663, 41145,
      23676, 48479, 40250, 21758, 37039, 30650, 14756, 41618, 2001, 38647, 41389, 775, 40538, 43973,
      25449, 983, 23865, 1387, 39438, 46079, 14150, 10446, 19474, 7285, 39799, 47491, 37725, 1815,
      30918, 139, 18736, 38626, 35973, 9473, 45194, 14703, 32790, 5915, 31383, 37586, 12277, 24353,
      41133, 38974, 27319, 25713, 13533, 6580, 38690, 28686, 29597, 5686, 32191, 1794, 27010, 5531,
      22283, 49876, 38387, 18151, 46873, 20398, 32730, 8867, 4620, 7643, 455, 12241, 14134, 16296,
      33116, 30708, 41809, 10818, 11976, 12080, 24296, 20190, 3033, 43580, 23129, 1613, 12246, 14649,
      46138, 6169, 119, 17599, 33198, 13198, 44622, 2041, 26931, 21954, 46183, 33880, 33829, 33749,
      9525, 23578, 44297, 19607, 46919, 28493, 37901, 21208, 5705, 41808, 48247, 20506, 37062, 47631,
      38942, 37856, 48164, 8707, 24428, 26476, 1275, 10354, 22306, 29675, 16041, 2215, 17919, 39744,
      2009, 48886, 48442, 22944, 22914, 15885, 23945, 14218, 37537, 8637, 25045, 36275, 5162, 48890,
      8832, 19826, 33304, 16811, 45430, 38122, 15482, 43411, 49843, 15878, 38291, 32109, 41177, 8918,
      29112, 24411, 34423, 49122, 15670, 19331, 28733, 40934, 37644, 4170, 43624, 46288, 44828, 40716,
      37056, 11149, 15968, 31329, 37611, 44868, 22272, 12774, 43493, 10383, 40619, 14592, 871, 3580,
      4709, 41939, 17912, 990, 25438, 27303, 122, 48853, 27455, 17317, 9094, 19036, 3208, 42285,
      45974, 2074, 25655, 40856, 33920, 45403, 20097, 18335, 47127, 41725, 27118, 18591, 12325, 13626,
      37740, 19026, 14722, 40153, 13128, 34481, 11501, 48808, 26700, 40625, 44303, 29446, 35658, 10843,
      32218, 43144, 15122, 25768, 1994, 11895, 18178, 10797, 26642, 26313, 16596, 10650, 7589, 14734,
      1662, 12629, 28932, 17185, 9556, 30361, 26430, 44572, 6996, 23217, 48519, 42185, 4450, 16132,
      24702, 8099, 20364, 7057, 35288, 43042, 19649, 49577, 49167, 19608, 12459, 41016, 37429, 45752,
      2390, 1520, 13985, 34146, 9747, 16985, 15801, 20916, 10603, 22657, 30975, 40627, 45087, 32474,
      40089, 45048, 38431, 34586, 6934, 1871, 25353, 46067, 13839, 18027, 47186, 8814, 29271, 21846,
      36761, 36623, 6252, 38432, 21623, 33420, 11558, 3725, 12378, 48194, 9919, 22947, 47573, 15002,
      11858, 40965, 6148, 12309, 26214, 10854, 16797, 33217, 43505, 2656, 26275, 46304, 6977, 43467,
      26071, 42617, 1311, 17808, 39248, 15706, 7723, 34709, 44182, 21365, 27363, 8019, 2153, 30046,
      7842, 4952, 35087, 21216, 36959, 27131, 17078, 3250, 30197, 18481, 1149, 40436, 17983, 31386,
      36428, 42361, 32280, 47451, 31074, 47606, 36264, 37435, 12478, 1305, 9539, 1981, 20395, 34254,
      1029, 6899, 39576, 14077, 1730, 33916, 41022, 21027, 15061, 12337, 23829, 12073, 32722, 2078,
      33983, 10863, 32895, 38076, 34776, 37087, 22753, 39397, 6219, 4751, 16233, 14058, 29131, 18841,
      4463, 3163, 9802, 24039, 25615, 42251, 14057, 37547, 26242, 12063, 20370, 21897, 33859, 37064,
      43786, 49852, 20073, 1142, 7448, 45036, 43659, 34026, 1918, 10138, 33386, 32550, 45482, 30191,
      20424, 29385, 25810, 13260, 38177, 39841, 17914, 23280, 2168, 23780, 17697, 45610, 44527, 28703,
      13559, 37539, 3682, 6603, 22047, 45060, 9375, 31185, 19261, 18707, 1202, 26222, 8732, 3198,
      31571, 24360, 41530, 22261, 40894, 44015, 19031, 27074, 34505, 22376, 34141, 382, 22288, 14137,
      49445, 22011, 33151, 5623, 21854, 2884, 5532, 8312, 47040, 31277, 23514, 12804, 43767, 35885,
      5191, 4680, 41174, 2653, 39655, 23414, 19983, 2733, 40582, 28848, 27156, 837, 12889, 2752,
      25283, 34901, 29307, 17222, 24564, 26257, 7403, 20145, 10008, 21798, 47020, 3386, 49090, 11166,
      2435, 45618, 30442, 28153, 16359, 34788, 36715, 12880, 37837, 23982, 36376, 40341, 18148, 1513,
      35251, 24961, 6451, 30900, 9779, 13817, 46108, 29391, 5092, 40964, 48670, 27695, 38542, 361,
      37221, 40082, 16294, 16844, 7302, 35791, 45620, 43380, 13063, 21761, 13984, 2346, 4468, 4208,
      48611, 5346, 4636, 33674, 24268, 27154, 37462, 25729, 4472, 38042, 7714, 33416, 29585, 39357,
      41655, 45572, 13827, 41476, 15112, 32660, 16898, 43756, 15427, 38789, 7102, 23025, 28711, 8980,
      18750, 42609, 3954, 5911, 43826, 49233, 10695, 22140, 42546, 30168, 10097, 45382, 19882, 40395,
      47986, 12833, 11395, 44385, 9855, 21003, 10752, 10030, 32068, 38403, 42663, 36869, 26893, 18127,
      17281, 42706, 18647, 48103, 1677, 27847, 92, 42899, 14655, 3915, 27254, 29206, 12042, 20480,
      44771, 39423, 36121, 49948, 23695, 3891, 2252, 13204, 2391, 3781, 39967, 1292, 42531, 5735,
      89, 29925, 8028, 33013, 40954, 18307, 31606, 12660, 48724, 23376, 16190, 43210, 42424, 25626,
      26137, 53, 47244, 34379, 5484, 5910, 38408, 22197, 20853, 47508, 23968, 17381, 27132, 48601,
      32715, 310, 1886, 39329, 13250, 1247, 26280, 40720, 25468, 45867, 25975, 875, 25902, 7623,
      11277, 13633, 12245, 41456, 39774, 44183, 35792, 26383, 3038, 39555, 26316, 27087, 48500, 14508,
      18129, 26007, 14208, 32185, 19496, 3904, 33888, 6005, 47939, 28821, 42106, 4140, 27625, 41146,
      34732, 29174, 187, 8948, 48714, 35519, 4638, 40601, 33118, 48835, 40521, 40198, 7355, 16899,
      1712, 11898, 11181, 17242, 29918, 5897, 24501, 21073, 41416, 32208, 2236, 46143, 16207, 16572,
      27957, 2547, 19384, 25265, 25932, 31399, 15403, 16474, 32796, 42580, 13308, 8285, 38123, 30796,
      35380, 17126, 20177, 21028, 28048, 27646, 32601, 24463, 24576, 9674, 39306, 35947, 18955, 46021,
      8944, 45628, 334, 8408, 22930, 81, 12518, 15924, 7787, 6164, 19214, 20346, 47876, 21723,
      48473, 42489, 6138, 16431, 22898, 39409, 7794, 35065, 4970, 1066, 25882, 27918, 48218, 48463,
      22090, 21339, 22156, 39750, 16036, 34443, 36907, 18795, 8190, 18739, 43814, 34553, 44220, 12908,
      15435, 2834, 5238, 40450, 36926, 13801, 3294, 29923, 34170, 38272, 35238, 14989, 21436, 38368,
      39587, 23077, 19927, 2931, 12776, 43188, 16336, 14154, 25942, 25660, 42068, 18424, 48815, 49942,
      18695, 39003, 30839, 44730, 9827, 32676, 27243, 13804, 34825, 16268, 31741, 44266, 31193, 35037,
      22269, 1729, 46687, 43736, 41614, 33127, 38854, 36230, 34874, 26742, 49870, 35347, 22629, 30560,
      28782, 34821, 4177, 7937, 46775, 3254, 4910, 6593, 41806, 5859, 30658, 31946, 21495, 28056,
      11798, 6278, 18294, 5513, 19793, 31763, 18633, 17250, 8671, 16951, 15390, 41086, 45690, 47,
      16325, 21095, 27231, 20841, 26073, 13064, 35789, 12310, 12983, 25777, 27697, 48516, 38962, 15171,
      34078, 42869, 9876, 17011, 17048, 27004, 5076, 39557, 18392, 10281, 15347, 46522, 33323, 44150,
      37028, 22637, 22461, 1540, 2958, 35071, 49417, 19599, 20192, 3013, 40691, 39204, 12085, 34602,
      16917, 39833, 17930, 21956, 40891, 33684, 23317, 37780, 45153, 32866, 33486, 43874, 44844, 44945,
      19413, 33738, 41044, 8425, 5291, 10323, 10285, 24865, 5357, 23541, 5331, 8731, 30451, 19516,
      38232, 27852, 41921, 24017, 46334, 15018, 46723, 34615, 6187, 17646, 34535, 1366, 20333, 35855,
      12320, 27880, 46329, 47544, 18276, 38805, 980, 30862, 12914, 46667, 22573, 19025, 14607, 21420,
      20189, 22589, 9041, 3058, 9021, 46056, 48989, 36325, 4238, 28580, 23038, 5160, 8612, 29415,
      27448, 4066, 29800, 14228, 9003, 16609, 26374, 14754, 8416, 20696, 14827, 790, 49529, 23773,
      36719, 27612, 26192, 44509, 17639, 45739, 3069, 29264, 31507, 47847, 20304, 16996, 31990, 42322,
      31447, 11699, 49518, 42278, 1897, 19454, 21270, 21479, 44043, 8141, 22802, 11513, 34909, 28547,
      5980, 48883, 49600, 30459, 40107, 5838, 5485, 44244, 6897, 31255, 25609, 20063, 26302, 13648,
      23822, 33346, 5669, 14914, 19027, 49560, 35587, 2876, 14884, 27057, 9082, 45165, 6117, 4085,
      6826, 26674, 31296, 35805, 35861, 23079, 33624, 29201, 31496, 41776, 7954, 22605, 26229, 1931,
      8447, 19811, 20794, 7752, 5986, 24228, 1953, 38332, 44646, 7362, 32564, 12538, 38661, 23028,
      42159, 44775, 42099, 88, 22535, 31766, 32523, 21628, 32525, 39488, 21131, 21166, 34853, 36164,
      47910, 13011, 22722, 38901, 41547, 8840, 16734, 27375, 34323, 34992, 12412, 21824, 19182, 10257,
      25623, 30163, 30789, 34031, 12611, 41452, 24801, 42829, 18659, 44747, 41589, 5066, 13925, 42404,
      8033, 4653, 13316, 46315, 85, 7539, 41911, 47458, 39821, 48276, 45575, 13277, 37731, 21888,
      17636, 22879, 21880, 3091, 39183, 18960, 3941, 15743, 16963, 38984, 25949, 21407, 37762, 28032,
      41658, 39679, 32639, 49939, 29981, 39170, 39849, 3264, 7317, 23529, 16961, 13101, 16836, 28471,
      36769, 23815, 9579, 42735, 18080, 1229, 33135, 8651, 7668, 46751, 3176, 7863, 9774, 23900,
      21728, 19258, 9150, 12162, 48095, 41573, 38207, 35137, 17447, 321, 21512, 7010, 15570, 49744,
      28891, 3383, 10959, 18082, 42425, 36127, 8610, 25506, 9248, 2140, 45177, 32444, 23571, 35943,
      7223, 42179, 39700, 36511, 41393, 27936, 1530, 28254, 2929, 5799, 26658, 11204, 44140, 6754,
      29625, 12902, 3508, 21122, 5358, 38071, 10320, 33348, 9704, 30631, 35747, 37446, 35174, 7834,
      18508, 42303, 13681, 41277, 20564, 24120, 39057, 23935, 47878, 32393, 16168, 11405, 32827, 25177,
      30738, 25627, 4061, 21203, 298, 33054, 12839, 43098, 6281, 37752, 48967, 31197, 2498, 28263,
      44416, 19534, 1338, 293, 40226, 32160, 4072, 16153, 13522, 29015, 37104, 36285, 21735, 17925,
      26079, 11626, 27229, 34290, 20018, 47640, 4916, 10546, 45868, 18123, 18378, 26712, 29353, 46694,
      34690, 11567, 9016, 380, 7713, 12188, 10747, 26814, 49576, 27401, 34972, 12954, 49898, 43207,
      11355, 37591, 26070, 28233, 8186, 35372, 48705, 40155, 26067, 49515, 14826, 27059, 28189, 29085,
      43491, 9152, 6071, 36462, 11462, 49394, 15842, 42469, 32064, 41698, 27481, 34244, 9328, 8355,
      18903, 24897, 37608, 6343, 1610, 21789, 46590, 24446, 31294, 37881, 25268, 31365, 9954, 14594,
      29528, 45122, 8978, 35701, 23467, 27217, 34536, 48579, 42142, 6058, 16435, 33788, 29584, 37594,
      36379, 31649, 21296, 37989, 29588, 42974, 39503, 37488, 5814, 31519, 41060, 7218, 13931, 36470,
      47084, 7542, 14223, 39713, 2926, 12107, 2697, 9382, 30655, 49851, 11198, 30267, 32410, 6384,
      31607, 28259, 40129, 459, 10560, 17623, 7074, 3082, 36999, 12921, 14907, 25335, 24663, 20840,
      38922, 16452, 26262, 5327, 43398, 19557, 13364, 3353, 6327, 32494, 34991, 37582, 36465, 32825,
      25170, 17444, 1385, 9547, 5963, 11367, 33267, 19545, 36421, 25132, 43392, 933, 26967, 32058,
      12832, 40051, 8217, 25569, 38617, 8324, 35837, 3410, 46410, 22046, 113, 6777, 2771, 11784,
      10370, 29910, 7651, 28941, 46628, 3511, 17784, 3119, 22816, 29557, 8237, 11964, 35194, 10697,
      2320, 38786, 48138, 12782, 3122, 34284, 27334, 31132, 12434, 29843, 45791, 40610, 37871, 35922,
      28271, 895, 19764, 43454, 34544, 10090, 1830, 21539, 21908, 7241, 39816, 4728, 27872, 11856,
      45736, 21080, 19655, 40444, 18479, 25778, 13962, 40076, 49312, 38642, 17243, 3921, 43831, 31248,
      39658, 13166, 49275, 36654, 21915, 42263, 32364, 1351, 21428, 39150, 104, 25260, 40648, 19018,
      4825, 42873, 14830, 10730, 35895, 4972, 19543, 24625, 48604, 26753, 47536, 21477, 1459, 30751,
      47742, 5083, 15315, 43090, 8575, 34110, 38322, 18363, 1494, 47255, 30679, 39377, 14796, 4929,
      16819, 27911, 46984, 31155, 34439, 16595, 38325, 5330, 17099, 12068, 28427, 16846, 33841, 30371,
      5427, 42210, 38849, 22750, 2318, 46184, 4984, 43750, 996, 38732, 28384, 33206, 6037, 15252,
      4502, 16255, 19532, 20847, 29137, 39482, 22632, 17484, 18396, 23647, 29623, 3362, 30384, 31245,
      38130, 21940, 47317, 40418, 20938, 9418, 24708, 43698, 16686, 30000, 44073, 22868, 35678, 12071,
      17547, 46231, 32979, 30855, 13630, 9858, 7387, 31720, 20417, 35748, 31574, 24957, 25962, 48421,
      3701, 46496, 8215, 20149, 27310, 31298, 39823, 45876, 15527, 37286, 10031, 21297, 6636, 23330,
      12135, 36477, 19652, 47042, 5309, 1103, 21070, 8555, 16798, 9898, 783, 16343, 45584, 2521,
      34446, 23201, 36516, 18603, 38423, 9778, 2932, 7620, 25577, 19529, 14942, 18042, 10432, 6462,
      1255, 25414, 43216, 34201, 2280, 13754, 36884, 39656, 30001, 19876, 47271, 48934, 30963, 32388,
      35190, 27149, 11684, 31934, 11045, 29578, 43281, 32025, 11598, 9345, 42426, 45979, 27006, 48099,
      17228, 48219, 47105, 43889, 39559, 17647, 24793, 43644, 8622, 1330, 32292, 9512, 47675, 42393,
      7545, 20361, 41543, 751, 42995, 30411, 34066, 22865, 15931, 34809, 15568, 31904, 31614, 21840,
      32718, 14918, 37499, 11775, 5575, 41536, 16136, 34789, 44362, 7931, 7476, 36433, 27865, 31466,
      10501, 12600, 25732, 13021, 43614, 22664, 43765, 21163, 13208, 1660, 29652, 8119, 30627, 18692,
      3848, 22598, 44059, 8985, 4945, 4266, 29596, 18673, 13834, 16936, 6127, 7864, 16367, 3687,
      35540, 24695, 28675, 24751, 46388, 19100, 20679, 32552, 10260, 13492, 3047, 25546, 19699, 26102,
      12607, 29909, 38764, 5016, 2371, 48691, 16221, 19217, 14117, 49859, 9708, 10888, 32927, 12148,
      41033, 8067, 23058, 35164, 31801, 31517, 14917, 29095, 24562, 44804, 127, 26981, 23326, 24270,
      32138, 40664, 26601, 43914, 6657, 10359, 45653, 14879, 20433, 45389, 4349, 43849, 21713, 31180,
      29868, 841, 27653, 32765, 4977, 4565, 40391, 47510, 37872, 25638, 42315, 13144, 20715, 43607,
      4406, 10876, 3456, 26789, 9897, 35839, 39561, 23628, 47785, 29929, 45700, 41866, 11106, 19303,
      15011, 20482, 40579, 17034, 44833, 17605, 26820, 18872, 32105, 6679, 48852, 15308, 47779, 29702,
      38816, 43190, 29890, 42442, 34979, 48906, 19634, 35085, 47602, 39215, 44497, 27552, 2471, 41485,
      21115, 7026, 46493, 20959, 44819, 1455, 37966, 19113, 44233, 22955, 22136, 18921, 10580, 30221,
      32953, 17935, 31393, 8387, 4312, 10714, 19568, 35534, 10080, 8664, 38866, 8688, 32549, 4320,
      20392, 40815, 10551, 17028, 42863, 40820, 1201, 33901, 31352, 2724, 48366, 41720, 2406, 33915,
      38980, 5300, 782, 27080, 11215, 41624, 8898, 17511, 8038, 7346, 28177, 15163, 16792, 20731,
      41264, 23917, 26343, 26484, 20510, 29614, 10882, 4350, 30479, 15243, 24192, 12304, 2492, 37478,
      3655, 31278, 4869, 33596, 39228, 26781, 20355, 19408, 7922, 33104, 43501, 26743, 9653, 16537,
      12357, 37917, 40755, 49335, 19345, 49685, 19145, 28434, 25715, 22280, 44890, 4287, 11965, 46830,
      4744, 15415, 12016, 19766, 45169, 12234, 15638, 20495, 9723, 36922, 33917, 4007, 21619, 23835,
      1254, 17439, 33027, 20416, 49628, 22698, 44710, 35884, 21595, 23222, 27297, 43236, 40459, 44733,
      9601, 38331, 6263, 47153, 43977, 172, 5479, 11815, 45473, 33514, 7875, 23468, 37283, 43464,
      26253, 3448, 32436, 19892, 4625, 30198, 33199, 13340, 49544, 11222, 35014, 33668, 28591, 8014,
      48663, 23475, 39038, 38627, 40740, 9397, 46420, 1615, 33925, 27237, 27834, 18235, 36193, 38260,
      27614, 3397, 6410, 28303, 45240, 45948, 34605, 3694, 37615, 2393, 15375, 30964, 13374, 35128,
      18090, 22000, 9965, 22160, 26595, 894, 2903, 8310, 38915, 10452, 13415, 35486, 9839, 1087,
      48334, 15556, 41014, 11243, 44886, 36748, 34271, 34877, 1215, 5825, 346, 23651, 9396, 4418,
      38335, 29636, 47651, 31604, 33994, 40711, 33098, 12260, 43451, 4937, 26195, 26794, 5810, 10943,
      14978, 44026, 44107, 44325, 47376, 16606, 20322, 36987, 3808, 44453, 18838, 47445, 39206, 42516,
      38995, 45695, 22489, 26387, 41803, 2278, 19104, 35832, 4106, 31534, 45340, 10919, 41641, 39173,
      29772, 1060, 5124, 31233, 29121, 23615, 33075, 6607, 133, 47618, 9559, 47447, 34490, 10062,
      14553, 23302, 33201, 37934, 35905, 5259, 8737, 12119, 35423, 20442, 379, 25369, 5252, 13401,
      43520, 6812, 1937, 33739, 35039, 21092, 5282, 45945, 1676, 7473, 22181, 5689, 40083, 32397,
      30147, 46302, 44463, 26153, 23909, 49730, 43584, 2626, 9550, 40004, 37288, 18492, 10043, 16804,
      30685, 5150, 19120, 29637, 6395, 29905, 28824, 21666, 45269, 18941, 41922, 23994, 42221, 7341,
      2405, 35473, 30370, 43070, 37059, 8211, 46686, 18876, 32457, 40353, 9049, 22790, 49081, 37489,
      15559, 10353, 2414, 2262, 19670, 43857, 31609, 10152, 43457, 39908, 14958, 49736, 38648, 17218,
      2540, 48476, 41854, 32937, 6525, 8544, 11155, 41545, 46219, 37390, 40824, 1568, 18943, 20850,
      4936, 41005, 8513, 36222, 36474, 2967, 49650, 30727, 30639, 21413, 28566, 11644, 19302, 41226,
      11191, 15322, 45708, 1672, 14600, 36961, 2546, 36204, 34040, 42968, 40454, 7825, 19232, 21356,
      25472, 27907, 2536, 3588, 15718, 19421, 18321, 14452, 549, 18358, 49096, 41953, 24238, 19431,
      41511, 32478, 41880, 16824, 48068, 12871, 48128, 13015, 32699, 26885, 4004, 37479, 42128, 37902,
      44661, 41538, 49213, 22358, 49917, 11990, 41150, 48633, 26813, 19690, 38655, 35117, 345, 27800,
      35483, 16334, 14612, 30246, 32845, 46869, 39344, 12383, 30551, 37575, 10312, 9334, 33973, 8830,
      42206, 36633, 14442, 15113, 6147, 41617, 29198, 49568, 35826, 13014, 18579, 3746, 43432, 46569,
      7688, 27752, 35978, 33900, 33908, 34047, 28009, 28611, 1755, 28277, 17321, 2501, 6291, 31864,
      24050, 27931, 31332, 39564, 20465, 30952, 38449, 12821, 46528, 32936, 28863, 18652, 39677, 10861,
      12705, 32883, 39383, 34140, 4376, 34109, 18076, 44862, 22818, 48952, 19580, 41242, 11060, 35621,
      29051, 43742, 45460, 34515, 44436, 24699, 20631, 388, 46554, 33781, 19143, 38472, 46365, 13381,
      14156, 137, 17728, 24046, 40208, 8018, 41763, 14699, 4143, 10581, 6958, 34952, 7293, 8987,
      43315, 26438, 44991, 45993, 15287, 42399, 32124, 22907, 33378, 43475, 36970, 27953, 819, 46,
      25580, 35207, 39680, 30503, 28603, 20066, 43828, 47692, 603, 5393, 43691, 48897, 19048, 49468,
      16230, 31577, 17994, 222, 25961, 24869, 33907, 4989, 49327, 40930, 27634, 397, 15345, 29216,
      18513, 36422, 18605, 46996, 18808, 10622, 32438, 31640, 2639, 46051, 21750, 19714, 2046, 32517,
      8667, 8282, 20255, 20240, 36094, 46956, 42997, 22541, 29803, 12560, 10987, 19805, 19353, 46713,
      11788, 12960, 44649, 16590, 2456, 28336, 29254, 4812, 36528, 29982, 14428, 22508, 14469, 33863,
      34114, 36894, 31992, 40571, 46366, 14265, 25726, 19592, 33619, 14438, 26163, 46009, 15156, 40200,
      20718, 4505, 13514, 7165, 43479, 17989, 9893, 6770, 21674, 16183, 19741, 47620, 19949, 20984,
      7186, 41626, 22188, 31206, 5155, 35348, 4467, 22528, 31799, 17433, 19234, 43374, 46810, 22901,
      6562, 32538, 46547, 46198, 23307, 1152, 40539, 1192, 19160, 14412, 49648, 24420, 34637, 32614,
      17982, 3379, 11696, 45492, 16200, 40272, 42917, 45304, 48130, 37314, 39013, 25624, 12989, 39141,
      38844, 45778, 17980, 45088, 47548, 21454, 43975, 47940, 46031, 24828, 41620, 272, 12138, 813,
      22147, 6195, 7628, 45581, 4084, 24895, 48118, 37300, 18160, 20339, 43781, 43219, 16851, 29555,
      38741, 38863, 5550, 16068, 3341, 31595, 28035, 8903, 29180, 40400, 19902, 32033, 32143, 15637,
      10670, 46770, 19538, 25206, 28169, 3690, 36246, 23584, 33343, 10032, 36697, 19205, 1686, 31372,
      9220, 23115, 44767, 539, 32587, 48173, 2685, 49953, 15929, 537, 12311, 43049, 31906, 1006,
      33169, 27214, 4534, 33454, 15241, 25863, 30058, 23841, 36499, 15912, 48279, 36393, 11791, 5527,
      48809, 33764, 5464, 23074, 32932, 7996, 40110, 28289, 5332, 45255, 12745, 35220, 8809, 27504,
      19688, 49995, 15822, 46599, 9124, 12841, 15826, 21366, 18251, 31716, 15974, 14113, 35470, 38970,
      43846, 43468, 26949, 9499, 30424, 2707, 29539, 47674, 32403, 31041, 44264, 34548, 20903, 1921,
      35330, 46217, 16262, 32034, 13330, 46826, 14490, 34774, 3964, 2855, 6626, 12398, 10198, 15205,
      13085, 42595, 32139, 15220, 1527, 14798, 18387, 49016, 36702, 49157, 39396, 41879, 15488, 13639,
      9089, 23240, 21476, 47766, 24456, 13617, 14943, 6239, 38602, 20532, 49044, 10601, 2764, 19383,
      23870, 11448, 29875, 7574, 29147, 48773, 7742, 49268, 46020, 12885, 47081, 22876, 7993, 45730,
      37877, 15342, 20740, 45289, 47596, 17120, 32904, 31903, 31737, 41741, 24749, 41825, 10124, 10186,
      30223, 46238, 31411, 44257, 14627, 27318, 6504, 35269, 38435, 13332, 37675, 33832, 4220, 2545,
      1482, 45278, 25915, 39320, 42701, 11922, 22780, 48320, 43136, 2950, 7510, 48055, 44110, 38112,
      16155, 19367, 22167, 45245, 27366, 22255, 41206, 20813, 26923, 3014, 8634, 48515, 33878, 17146,
      27554, 29387, 13241, 1280, 26951, 26510, 3819, 16807, 20716, 48763, 18488, 2292, 40274, 16502,
      31164, 2973, 15265, 45455, 13070, 36314, 28188, 27088, 33883, 6045, 21186, 31228, 17668, 12079,
      34093, 25501, 25969, 39109, 28944, 47306, 9363, 19990, 32223, 11469, 49108, 28623, 1838, 17902,
      2341, 15865, 8184, 9350, 36641, 45405, 8873, 38772, 27166, 3313, 19348, 26043, 31249, 21155,
      32896, 15490, 47083, 36673, 3427, 38615, 22985, 7395, 32445, 29547, 40567, 28012, 40823, 30732,
      42464, 40829, 12093, 26702, 13940, 46696, 33028, 42871, 33620, 36104, 11430, 4498, 36596, 6494,
      3234, 20986, 22986, 34024, 34551, 47384, 21210, 44437, 14349, 15519, 4774, 28503, 3874, 18699,
      24498, 42115, 6285, 35491, 8509, 12684, 36058, 7570, 34737, 25584, 47395, 10455, 7889, 42549,
      6419, 22363, 41035, 41418, 8422, 47752, 23006, 23473, 5337, 28534, 47101, 1805, 9177, 28959,
      26060, 6249, 32473, 8591, 12133, 48990, 11234, 34646, 24556, 23041, 12519, 45508, 15877, 34556,
      42146, 28870, 2127, 8051, 25111, 2572, 7934, 18244, 48444, 8151, 32374, 14844, 34670, 36137,
      8146, 49223, 5168, 7178, 4184, 25812, 45859, 12493, 10721, 25171, 46520, 42860, 48719, 34537,
      20877, 27184, 18860, 27177, 30017, 9252, 47184, 23288, 11935, 32863, 42477, 39872, 8432, 355,
      14106, 42542, 32836, 43214, 33897, 48494, 44954, 28616, 27070, 7011, 41644, 21022, 28849, 49574,
      8395, 10356, 19860, 27652, 8979, 23493, 31975, 17442, 10836, 32040, 33814, 9090, 35432, 42591,
      38294, 33275, 7898, 44365, 22937, 6126, 8459, 40071, 42387, 42345, 47804, 14445, 49427, 36083,
      12013, 5786, 16642, 39935, 28108, 18899, 7204, 38730, 34511, 29286, 30833, 29313, 44477, 36105,
      14236, 6909, 17265, 20038, 26936, 43330, 40910, 9154, 7979, 10925, 30093, 29445, 39879, 37035,
      37513, 7171, 575, 7348, 20366, 47407, 24697, 34683, 30773, 15895, 6906, 36354, 9707, 44914,
      18900, 10088, 18003, 35210, 4209, 32206, 41467, 38131, 29413, 39295, 27743, 36675, 12709, 38483,
      99, 7859, 36532, 38463, 25636, 31460, 45754, 3903, 47171, 31189, 33327, 14243, 38693, 24580,
      9295, 34259, 32519, 43417, 6867, 41527, 9193, 5658, 10470, 22329, 3787, 4688, 24876, 30994,
      3966, 28397, 21488, 14654, 45892, 40174, 48807, 13445, 9153, 25141, 18644, 34726, 29970, 19328,
      38872, 35035, 15710, 36687, 46100, 45661, 22848, 49074, 44432, 35417, 42648, 8866, 5477, 40573,
      47729, 39947, 39370, 31672, 17512, 14324, 43455, 29502, 42683, 35363, 18306, 49530, 42935, 46829,
      29934, 24958, 14483, 11339, 46072, 21610, 45391, 2256, 35178, 10710, 14020, 12430, 27580, 36892,
      37719, 2948, 18034, 22670, 25722, 31785, 25403, 32005, 31160, 29138, 29043, 8462, 44680, 7924,
      38318, 28674, 16627, 41526, 22430, 48408, 30192, 7872, 45234, 30079, 10594, 29468, 3989, 21640,
      28455, 46303, 20771, 10887, 29833, 41230, 26085, 13772, 48145, 5416, 19292, 19678, 49977, 47253,
      14422, 7495, 7022, 12221, 7103, 43867, 3496, 15406, 18833, 14882, 24955, 38146, 47650, 17191,
      5547, 30777, 27963, 25180, 32633, 5514, 39924, 1873, 3637, 45923, 28938, 32485, 33810, 28266,
      30318, 20902, 36238, 49654, 5317, 47211, 29136, 18920, 30606, 4716, 23818, 5472, 14615, 37638,
      7917, 41498, 21523, 43470, 10174, 42390, 40291, 42630, 36986, 270, 45174, 23951, 27061, 48922,
      33109, 39913, 24333, 32195, 49042, 41236, 6455, 13402, 1923, 11510, 25873, 10642, 33666, 32688,
      23204, 4109, 14723, 49364, 32640, 8213, 43168, 25164, 35290, 43405, 8292, 30488, 29439, 6436,
      43215, 44752, 4121, 46864, 14647, 7075, 2033, 25779, 685, 4375, 44611, 25209, 4002, 37748,
      12361, 27393, 49935, 19470, 11800, 9517, 7136, 48211, 20999, 6248, 45839, 6744, 7850, 18759,
      41432, 4802, 3517, 27576, 43439, 21743, 45326, 10160, 2361, 19864, 16660, 3478, 17720, 15503,
      20404, 28304, 5659, 2201, 20314, 44521, 10314, 12346, 32156, 37249, 18039, 20861, 269, 49591,
      31538, 43065, 177, 24372, 33976, 26217, 32418, 46731, 35260, 27205, 46673, 25237, 31962, 30934,
      20913, 4842, 42226, 48535, 32641, 14072, 5135, 7768, 40869, 40844, 34713, 32241, 29664, 22171,
      32079, 912, 26989, 10061, 44792, 19582, 33552, 32087, 28165, 15336, 6876, 41065, 12585, 49262,
      622, 36758, 27904, 49246, 49145, 8878, 2287, 45976, 22089, 18470, 9703, 37669, 16175, 8514,
      12584, 36658, 28437, 25057, 44307, 46925, 223, 23757, 41383, 45836, 30792, 7553, 2208, 48740,
      26795, 10425, 31764, 18523, 18217, 12374, 45662, 29906, 14789, 10990, 34303, 33622, 29044, 37450,
      15319, 22382, 6992, 18772, 8532, 5556, 37047, 23845, 26952, 3752, 8094, 32461, 28908, 34376,
      2190, 21410, 46174, 46679, 47024, 46338, 8928, 20832, 15741, 39401, 44424, 22529, 45723, 19946,
      18788, 5716, 45374, 35344, 6578, 9383, 34070, 25667, 49855, 21006, 41518, 17678, 12898, 42780,
      43984, 32798, 41980, 8852, 42753, 48988, 19268, 878, 41587, 31960, 7767, 24190, 45660, 42897,
      17114, 25598, 47208, 10231, 35494, 359, 8136, 35914, 3132, 48024, 40243, 10379, 15947, 44728,
      40802, 11455, 31407, 48066, 31325, 34902, 37857, 24808, 22642, 14652, 27555, 43231, 18776, 48450,
      1328, 26011, 10771, 30060, 40213, 21499, 19189, 6951, 35704, 27760, 2796, 30790, 16536, 13549,
      18766, 7196, 11681, 5706, 21799, 32723, 1356, 42205, 40221, 43446, 20111, 411, 44675, 16387,
      42887, 40787, 34748, 286, 28935, 31861, 4161, 34431, 28727, 31951, 33876, 49998, 43200, 23458,
      31974, 26497, 45208, 24321, 19912, 43739, 41778, 38101, 49191, 37851, 48530, 30787, 48454, 4258,
      30372, 45057, 37205, 35276, 18560, 5844, 6300, 31775, 8096, 31542, 37191, 24431, 12509, 10182,
      44934, 4584, 38320, 42807, 24899, 25555, 10084, 13544, 18438, 39273, 17556, 1261, 19170, 38840,
      9085, 21416, 26182, 213, 30864, 34456, 4174, 6341, 5414, 15097, 24608, 27269, 1117, 47449,
      32623, 10696, 28111, 30057, 10569, 19000, 4525, 24508, 514, 16552, 46619, 2584, 39950, 47800,
      2425, 22530, 9875, 32712, 21013, 30541, 34240, 32108, 14945, 44146, 25243, 5634, 25665, 38902,
      34302, 19716, 39414, 44319, 29193, 25678, 5132, 46355, 48180, 43869, 15622, 19099, 45131, 6422,
      8511, 46468, 29859, 46802, 16699, 45992, 2918, 21916, 15268, 5554, 13159, 38526, 2533, 16401,
      6460, 42047, 34987, 30167, 48838, 9477, 37319, 30537, 45907, 35401, 49686, 12127, 32287, 4590,
      13078, 29861, 10879, 10468, 33506, 49075, 34882, 13405, 11816, 40476, 12799, 16681, 8487, 2497,
      16634, 38956, 8518, 3103, 23964, 12256, 32978, 900, 8813, 34990, 15547, 16394, 18207, 48431,
      33633, 41791, 6292, 34665, 49137, 41794, 14264, 19957, 7885, 1650, 31684, 140, 44718, 37472,
      38237, 29280, 31310, 13743, 29897, 39481, 26760, 18340, 45591, 16548, 38128, 34097, 27116, 39875,
      21430, 22714, 37712, 35632, 49821, 15260, 5588, 13554, 7047, 47660, 25454, 34869, 33464, 13388,
      43840, 44398, 27442, 34195, 15672, 30047, 16505, 4577, 16906, 1148, 19931, 3459, 16837, 15180,
      18760, 35182, 14280, 11318, 22367, 14927, 16104, 22069, 36530, 12116, 10517, 41962, 49172, 42548,
      17307, 25985, 41229, 8138, 2937, 14120, 3559, 3528, 18541, 15988, 32592, 10982, 30568, 20481,
      31096, 49383, 46442, 18859, 33459, 15454, 31200, 6258, 15705, 23861, 520, 45845, 38739, 28839,
      23260, 27519, 18763, 38614, 49133, 21154, 30010, 14353, 21979, 17501, 40412, 39453, 41095, 49439,
      4749, 11857, 2878, 37783, 348, 4847, 3469, 21802, 17590, 3706, 37757, 28322, 16598, 3634,
      46117, 29322, 14420, 1664, 14186, 13836, 30485, 2842, 18507, 43028, 1450, 47590, 34453, 17742,
      28093, 2242, 24208, 35546, 43074, 4628, 4343, 25450, 15137, 19500, 38159, 41463, 5807, 21862,
      7137, 10290, 36111, 22238, 33647, 13693, 32050, 34181, 513, 24735, 1101, 23881, 25837, 20907,
      10795, 43854, 15713, 46596, 18568, 13169, 35209, 22458, 35355, 44461, 47048, 5390, 34601, 28648,
      30243, 22204, 12503, 12535, 37580, 48278, 12596, 49783, 22157, 26963, 4282, 8542, 35889, 24439,
      36729, 3984, 7185, 32794, 28592, 32678, 21712, 14807, 27012, 49901, 401, 32732, 43948, 13638,
      33720, 47088, 12480, 30999, 14149, 19774, 30250, 35384, 9498, 43075, 46192, 30860, 19069, 8710,
      24294, 46158, 41201, 32531, 43204, 42616, 35248, 7871, 18005, 45597, 7828, 30625, 41222, 26012,
      19188, 11176, 8846, 33263, 8025, 36398, 27134, 3144, 30577, 35648, 48999, 12904, 45404, 18884,
      3740, 2130, 30366, 6983, 48877, 27789, 33233, 8771, 17339, 43019, 32331, 33867, 23931, 36350,
      47405, 46384, 42790, 37911, 44624, 40512, 12494, 19398, 34435, 31240, 48396, 40924, 9962, 37658,
      43800, 16069, 42934, 34520, 1836, 14983, 8175, 36844, 5047, 38120, 13593, 30325, 1604, 15676,
      12156, 36611, 19305, 1475, 44625, 1145, 15894, 22037, 10906, 1235, 44454, 4907, 9660, 4545,
      5006, 6694, 18725, 30683, 18202, 35641, 45383, 30476, 21363, 25089, 33014, 37073, 679, 41000,
      11177, 32120, 4848, 31051, 29821, 18305, 20699, 48720, 18851, 21396, 47355, 3268, 48676, 2873,
      38167, 10884, 38468, 39796, 45056, 36513, 3135, 16056, 11490, 101, 26834, 22808, 31069, 19196,
      12152, 63, 30252, 2604, 33811, 9787, 49779, 22019, 13837, 24774, 5224, 28113, 24025, 37565,
      24646, 4391, 45967, 5138, 11754, 27707, 3012, 29156, 7575, 18134, 39028, 44395, 42381, 7107,
      21055, 40743, 24786, 31229, 9302, 24711, 30756, 37613, 42456, 23847, 9333, 23262, 44145, 49331,
      33128, 44905, 21847, 1569, 39430, 1715, 18997, 30229, 40766, 31409, 29275, 13096, 36460, 49500,
      572, 39372, 38842, 31412, 28499, 18267, 11389, 795, 37798, 2157, 5673, 21429, 30308, 33060,
      13302, 20535, 39084, 34359, 5417, 6445, 3417, 37535, 35829, 21239, 31928, 28232, 16486, 17355,
      29278, 39371, 12545, 7051, 32224, 4953, 44429, 44782, 48943, 28245, 39723, 4612, 48019, 23090,
      49229, 29083, 41634, 48737, 23783, 47846, 1220, 9198, 28581, 48370, 39715, 30339, 28787, 6011,
      7050, 19509, 49356, 30178, 2481, 48843, 44439, 28040, 30487, 11507, 142, 1056, 46295, 37649,
      17747, 12035, 3179, 34767, 25508, 26559, 4101, 26388, 40933, 28409, 32382, 29395, 37566, 30439,
      45357, 2090, 15314, 45263, 42649, 18167, 17181, 3901, 42071, 38480, 26305, 44793, 39769, 25001,
      40075, 49564, 613, 40836, 46575, 7534, 32466, 14928, 14406, 27737, 28424, 18525, 17949, 13951,
      4363, 29319, 40956, 35844, 14920, 46887, 23347, 14838, 13376, 20926, 49292, 19767, 45858, 15883,
      24592, 28600, 18819, 14841, 34860, 13202, 14177, 42909, 8579, 36562, 41455, 24905, 718, 10376,
      44943, 25175, 13968, 49387, 42554, 11533, 38755, 12343, 28651, 49897, 29898, 22762, 6712, 14775,
      36707, 14377, 26765, 25859, 4398, 4659, 34826, 5934, 5507, 26021, 7823, 23720, 47262, 35176,
      1598, 24421, 33753, 37432, 8779, 2657, 30263, 17909, 33406, 18516, 33285, 10042, 15841, 28468,
      10087, 11743, 48116, 21328, 13640, 8751, 4051, 26186, 18190, 10716, 9109, 22178, 9870, 15579,
      36771, 19951, 1890, 41048, 39948, 20801, 17845, 26669, 36255, 22132, 28644, 45716, 18181, 18602,
      19301, 34939, 42540, 37324, 25548, 8332, 42252, 2444, 16229, 4794, 11717, 18774, 13028, 29028,
      34814, 31936, 38188, 39467, 35504, 2319, 20152, 37816, 49005, 25941, 13525, 18742, 705, 30989,
      32168, 31838, 12408, 7484, 31302, 35360, 45835, 42353, 15862, 20899, 17000, 12795, 20988, 13574,
      43746, 18356, 1523, 23442, 7757, 36608, 16118, 3778, 15289, 1547, 27163, 41030, 18334, 24986,
      27226, 3246, 46003, 49325, 18009, 29080, 48626, 25847, 13320, 45999, 27975, 7603, 2798, 37000,
      25695, 27337, 44095, 6124, 16818, 880, 20336, 20745, 45022, 13532, 23942, 49672, 8856, 16872,
      48200, 33733, 38426, 2805, 8356, 17021, 32051, 5425, 31623, 8008, 8453, 10579, 39238, 28366,
      15967, 33404, 17859, 26894, 26846, 1612, 42282, 18985, 1706, 47569, 41596, 27034, 26323, 11714,
      27108, 43661, 9970, 48069, 31152, 30036, 44174, 22543, 39569, 17766, 12284, 11602, 35583, 7221,
      30589, 29273, 8604, 24613, 18628, 20166, 18357, 41788, 38911, 32035, 12962, 44940, 20197, 25315,
      46241, 23433, 13564, 36937, 30786, 39599, 25637, 35857, 8000, 22596, 42020, 19372, 10493, 22691,
      41525, 46441, 31666, 6883, 18789, 8371, 18139, 42201, 44495, 14641, 576, 37236, 2924, 46930,
      27119, 29787, 2411, 32928, 29716, 49117, 33679, 31580, 2947, 45009, 5601, 47537, 44326, 35067,
      29209, 5161, 36316, 40501, 11040, 11289, 28421, 27335, 5599, 18918, 44532, 45908, 14275, 42428,
      3183, 24521, 28218, 12438, 4164, 22533, 40239, 17944, 10535, 43773, 23626, 29729, 4200, 15992,
      48078, 29262, 11068, 8228, 10274, 47381, 48199, 42232, 48296, 4796, 3757, 8815, 12029, 38613,
      47322, 30571, 8742, 7420, 33153, 38296, 18025, 24349, 5781, 21276, 43159, 42646, 28915, 4762,
      47366, 22946, 30081, 8283, 33472, 49258, 18571, 40913, 26125, 40145, 19786, 22690, 17828, 12844,
      13771, 43157, 37815, 2070, 40202, 15783, 22577, 23219, 43081, 11609, 30230, 11387, 31462, 18441,
      9274, 1691, 7921, 9534, 27749, 1693, 28474, 995, 43459, 14912, 41738, 26889, 47530, 12369,
      11013, 23622, 36628, 9573, 18559, 29141, 22550, 25375, 37470, 24461, 17217, 33136, 21465, 42599,
      5584, 13680, 22847, 44744, 6831, 21237, 20494, 17892, 9816, 40032, 20188, 23311, 20228, 49891,
      27828, 21974, 14930, 3398, 49180, 36261, 38516, 31150, 12972, 4080, 21016, 16858, 33568, 16186,
      7007, 629, 27493, 14344, 47861, 290, 50000, 21766, 28043, 4211, 19806, 21519, 1173, 24581,
      36017, 28306, 10334, 46114, 8189, 30044, 17088, 47633, 43420, 11779, 33188, 17119, 45827, 48632,
      36114, 47026, 38957, 3678, 3897, 23992, 28628, 47070, 27438, 26948, 24922, 9222, 31697, 4444,
      37794, 48053, 39618, 26288, 32527, 35086, 44990, 24526, 4778, 25140, 26554, 9423, 22114, 11175,
      42452, 2677, 22792, 31997, 29884, 45345, 42696, 30054, 12308, 3745, 48016, 33330, 31438, 18609,
      42631, 34762, 21724, 14108, 14221, 9009, 8227, 20935, 24651, 39113, 30762, 37272, 25550, 46932,
      6606, 45861, 21879, 14040, 39801, 22137, 35960, 31617, 14634, 37197, 32648, 37416, 26047, 17025,
      49920, 25799, 30376, 4713, 3387, 24959, 8157, 28100, 34044, 33277, 28031, 44426, 26647, 18751,
      38491, 15777, 13792, 27669, 18515, 32776, 29552, 22292, 39615, 42337, 8757, 13896, 2538, 2605,
      14839, 43424, 39894, 14197, 6223, 19003, 47463, 34997, 28652, 28055, 14133, 30853, 27465, 7199,
      30809, 22675, 43508, 16534, 36889, 45175, 27400, 48148, 22396, 35451, 36865, 11585, 5379, 21501,
      39021, 45401, 9365, 41721, 20772, 6489, 36126, 31143, 28338, 1471, 32772, 15092, 36805, 4673,
      12280, 485, 7791, 12740, 27976, 11736, 6068, 3977, 20680, 478, 1266, 42118, 13185, 19406,
      26575, 14787, 6241, 42145, 27969, 8010, 28847, 3949, 32665, 44068, 18282, 44742, 37607, 21319,
      38920, 40637, 36086, 1259, 49068, 31726, 49767, 26524, 4344, 24137, 26480, 18887, 22952, 1804,
      1844, 10980, 24433, 19467, 47018, 37453, 32671, 44636, 49234, 26533, 24666, 9995, 7913, 34648,
      6332, 14929, 8589, 48710, 7412, 41392, 43915, 35745, 5671, 41197, 37724, 30369, 28654, 451,
      483, 11931, 20856, 16278, 20994, 24301, 43634, 35416, 28681, 36563, 487, 26690, 31999, 39210,
      45996, 31939, 45266, 27046, 5444, 1042, 43102, 49680, 32503, 6619, 43962, 14093, 19335, 31793,
      14613, 47409, 29184, 24135, 25326, 19594, 17574, 36789, 21272, 47994, 563, 27485, 20250, 24234,
      29832, 25418, 33230, 3166, 22603, 48966, 15395, 10623, 11414, 13724, 16735, 13974, 9489, 41745,
      26059, 17984, 36064, 35762, 48062, 6713, 14890, 23744, 3475, 46722, 6280, 5953, 28092, 6101,
      20163, 13164, 11973, 44645, 49580, 1380, 47534, 18665, 44672, 6087, 42111, 26607, 11792, 29694,
      43416, 48959, 31039, 49772, 31544, 41038, 27013, 10039, 21533, 41824, 38904, 2394, 21716, 38263,
      607, 5420, 20353, 28886, 10898, 45828, 39878, 17060, 30199, 30623, 4195, 20639, 31570, 29572,
      10809, 44253, 42912, 29329, 7429, 12106, 41901, 43337, 11358, 46489, 48944, 14869, 13583, 38406,
      35623, 22823, 40293, 19958, 12014, 24258, 43195, 17139, 10726, 48229, 46506, 39834, 4718, 7700,
      23846, 1309, 7912, 2397, 14783, 3050, 8715, 40332, 37235, 506, 42793, 10788, 2136, 36825,
      42184, 19905, 36242, 9098, 39432, 28994, 4755, 43562, 11379, 4365, 20136, 15576, 44017, 24676,
      31267, 23820, 10513, 35700, 42854, 15300, 10509, 21198, 25846, 24716, 6627, 17213, 3710, 16902,
      34458, 14742, 38447, 22274, 29733, 44098, 28945, 23668, 40003, 34220, 40401, 42076, 8281, 41697,
      30326, 21693, 38470, 31208, 12978, 47624, 18468, 24324, 1399, 38478, 6616, 40410, 9075, 6709,
      9307, 33023, 43684, 7060, 2430, 15348, 13756, 22557, 39168, 44470, 23665, 44969, 45542, 27069,
      13113, 29595, 4440, 22747, 33696, 41147, 17975, 30470, 28201, 10201, 18578, 24249, 47252, 12694,
      23315, 16884, 44968, 47873, 36691, 26004, 38313, 47732, 21525, 7819, 48553, 26232, 33008, 30491,
      29880, 3266, 39484, 16827, 22866, 37352, 8505, 18966, 46909, 36452, 38135, 27179, 42310, 49566,
      47145, 49498, 47765, 37373, 46121, 26441, 48904, 30309, 49763, 41659, 2018, 26530, 7042, 26518,
      9362, 46160, 19917, 16410, 13088, 8233, 32961, 14583, 35387, 44364, 43362, 11229, 47393, 16784,
      11718, 9900, 12244, 13815, 9513, 13736, 27629, 21633, 16716, 36510, 28917, 45916, 38121, 33345,
      9642, 43719, 19102, 13953, 15370, 32447, 46521, 15902, 30236, 28002, 37398, 13961, 3498, 46382,
      23732, 17292, 38631, 17440, 15788, 41412, 30843, 6377, 17236, 4490, 41019, 3978, 38282, 22621,
      9938, 34805, 10786, 28171, 35850, 39440, 21985, 39644, 23788, 7113, 9809, 25928, 42382, 30059,
      37308, 33446, 39314, 11216, 3911, 2803, 42820, 20838, 28785, 44371, 14659, 34798, 45614, 18904,
      41723, 27175, 41944, 36915, 2120, 27802, 45366, 4024, 41799, 42453, 12762, 31915, 13916, 44051,
      6286, 39824, 22871, 20819, 25202, 13354, 4871, 17431, 26816, 26817, 17847, 21085, 18973, 24505,
      7690, 20871, 20068, 31006, 13594, 34350, 39296, 18712, 47091, 2173, 19993, 19411, 46004, 22384,
      6257, 10070, 46073, 37868, 11793, 27951, 37897, 18873, 9250, 12022, 32773, 2819, 33533, 4105,
      18262, 45678, 31082, 14876, 13735, 13390, 48973, 45815, 1302, 43017, 4964, 16736, 6637, 14360,
      25374, 39544, 18531, 25787, 2006, 8603, 29887, 32032, 43850, 33498, 41288, 46307, 48345, 26896,
      36363, 2447, 19687, 5871, 44983, 12113, 3995, 1198, 3473, 7695, 9138, 16894, 583, 26010,
      4808, 38717, 45435, 17660, 31991, 37779, 30061, 32146, 15491, 42087, 17414, 39379, 49993, 39316,
      872, 44790, 42463, 39043, 35391, 11263, 13741, 22287, 19137, 6453, 9644, 6208, 38150, 3213,
      29021, 49398, 36216, 4993, 5736, 23250, 47744, 29518, 40225, 37793, 46806, 20647, 26032, 36624,
      27899, 49274, 46102, 40027, 10429, 34950, 1874, 20894, 14416, 8653, 39703, 7644, 36372, 29971,
      36956, 650, 32440, 39237, 38319, 7740, 48662, 12562, 45488, 38859, 38253, 26024, 41677, 36167,
      30594, 34116, 41433, 14480, 45879, 7000, 13589, 30467, 17055, 22646, 27996, 30646, 257, 23441,
      3045, 11994, 31565, 38168, 37549, 49041, 47880, 43895, 1939, 4236, 47672, 23338, 47079, 2468,
      29111, 38040, 6531, 23249, 2184, 4223, 41546, 43882, 46842, 14315, 31187, 17067, 46747, 31867,
      19407, 46291, 7472, 31264, 15476, 38522, 38016, 5094, 31295, 13915, 15986, 24330, 14307, 31732,
      10631, 3620, 12706, 26330, 24705, 48420, 33475, 41935, 43945, 18636, 32304, 522, 37166, 19628,
      19640, 43096, 9946, 26716, 39087, 46169, 23791, 30710, 46700, 13199, 10305, 48407, 49366, 45146,
      24987, 9139, 45107, 16815, 34845, 47469, 4037, 14099, 9775, 35482, 21093, 26101, 29014, 35214,
      41408, 17195, 25897, 16362, 34896, 33573, 45220, 16602, 13244, 48445, 18084, 37987, 1011, 3026,
      38025, 33063, 19082, 38817, 44218, 40906, 48372, 13763, 16067, 4065, 4991, 29676, 29242, 41865,
      25672, 12095, 37365, 33238, 20242, 17340, 9626, 22247, 3157, 11295, 36040, 49844, 11132, 30670,
      44709, 48230, 15126, 20515, 46927, 24742, 1834, 37559, 34527, 20386, 14132, 11828, 38334, 7271,
      42067, 6438, 35742, 22567, 31632, 35638, 15117, 27613, 16908, 24304, 11473, 49273, 46201, 27282,
      45214, 36392, 23878, 3509, 23372, 31484, 22500, 18401, 23125, 5096, 24480, 14666, 30155, 12785,
      26864, 19794, 38515, 44696, 6672, 28335, 8197, 44573, 32067, 33795, 28713, 1290, 49232, 2688,
      45164, 28425, 45699, 25217, 24141, 11291, 36910, 47762, 44093, 37859, 46372, 39775, 22807, 43243,
      9853, 38457, 4186, 7046, 19098, 26142, 8174, 4345, 15468, 18373, 28160, 24954, 42062, 9379,
      14176, 22835, 22678, 13634, 40369, 6775, 3518, 35171, 32041, 40408, 44842, 22803, 20414, 25078,
      47073, 48918, 22969, 29453, 4547, 3677, 40881, 46209, 39639, 16010, 25505, 37759, 14075, 29795,
      3463, 11326, 27495, 17655, 14853, 12549, 34951, 13173, 34292, 37981, 49309, 8121, 19108, 18654,
      45805, 33401, 13430, 1123, 41369, 2904, 13086, 42029, 37754, 31084, 6260, 31303, 23251, 35034,
      11325, 4888, 10203, 36461, 32285, 38509, 14386, 34210, 8516, 33256, 10322, 40862, 10661, 3864,
      29789, 23413, 24202, 9210, 8127, 3079, 49248, 48098, 25561, 49651, 11506, 42458, 11581, 36381,
      33794, 40668, 10722, 35382, 44011, 6830, 12281, 5334, 49304, 28970, 11928, 37830, 37676, 8534,
      2214, 30525, 46934, 39558, 48467, 21375, 19606, 10705, 2249, 31744, 38781, 42702, 6836, 8185,
      32748, 701, 10914, 30452, 15755, 43658, 36554, 11629, 13823, 31190, 46186, 11693, 29018, 16833,
      28816, 6534, 14531, 36794, 9504, 4978, 100, 36803, 42892, 28622, 44995, 6151, 5403, 11199,
      7726, 49397, 19132, 3440, 19638, 11316, 49207, 49257, 26237, 804, 43273, 30718, 49217, 19992,
      4624, 27419, 40006, 28461, 11679, 18634, 38388, 38227, 30547, 1966, 5621, 39208, 11727, 39592,
      31382, 17428, 34497, 10868, 39722, 40464, 30887, 3062, 29335, 18043, 34943, 33196, 6673, 13387,
      1322, 17947, 789, 32451, 44160, 3187, 30202, 43927, 16461, 41103, 12228, 27461, 14171, 4294,
      3865, 21559, 2061, 45317, 39647, 1964, 5402, 32211, 29594, 4446, 16664, 9156, 20341, 15875,
      40230, 24664, 1690, 26593, 8862, 27406, 32434, 10235, 37931, 26903, 2641, 46885, 11631, 34708,
      2063, 16550, 16384, 31031, 9071, 22982, 46904, 26782, 9973, 38339, 47968, 8999, 41733, 12837,
      12405, 7505, 17953, 16637, 14805, 38820, 30861, 49121, 12255, 156, 44302, 10443, 13935, 14383,
      35425, 23109, 48048, 33632, 42586, 23986, 36555, 7929, 2478, 6639, 6064, 47300, 27833, 1393,
      18611, 2959, 10154, 38610, 47738, 28046, 47656, 41651, 21828, 47314, 49601, 46745, 8887, 37214,
      32042, 4961, 36052, 14046, 29944, 25386, 43386, 21620, 10266, 31858, 4902, 41858, 14053, 3355,
      39318, 10767, 1625, 34893, 47132, 33903, 23072, 25927, 46625, 44692, 12034, 14730, 40553, 23597,
      38201, 12456, 30475, 47707, 12548, 31729, 39442, 46552, 34184, 32116, 37843, 41465, 5429, 21765,
      23691, 42992, 46370, 30076, 6842, 35609, 18723, 26608, 21340, 34134, 9676, 38668, 6815, 14903,
      3015, 35594, 10155, 21278, 49624, 30277, 2241, 39254, 47400, 15326, 34672, 47942, 22234, 36253,
      42195, 33460, 14151, 38651, 4596, 1038, 4206, 22974, 34092, 36690, 49792, 18078, 3562, 24632,
      27174, 4999, 10149, 27786, 28986, 6795, 48166, 23614, 46220, 33608, 26496, 14867, 16787, 39415,
      14675, 45913, 4736, 34062, 14660, 47991, 43399, 21914, 17505, 34606, 9185, 33283, 20952, 15009,
      34363, 40904, 19777, 35930, 47574, 30455, 29360, 23832, 39275, 11787, 42707, 7013, 34662, 39688,
      43851, 40884, 30779, 33025, 4618, 15001, 8011, 36505, 905, 23327, 46064, 19161, 37709, 24896,
      41611, 45813, 20797, 4167, 40950, 41704, 45615, 23018, 25504, 7997, 38473, 3322, 26612, 27819,
      43253, 40976, 45394, 3741, 30405, 34482, 23073, 32945, 247, 11188, 34357, 5422, 10004, 23890,
      31938, 27259, 41343, 29920, 39523, 37811, 9081, 47368, 47688, 1716, 26294, 7430, 26968, 31176,
      9181, 45975, 41572, 36478, 8885, 10023, 30533, 11112, 49746, 36344, 28376, 32685, 27292, 48029,
      27717, 29368, 22155, 43557, 37654, 33854, 49111, 49269, 6557, 7068, 26459, 3172, 34669, 11361,
      31428, 11271, 10112, 2479, 3769, 41760, 7486, 8911, 35180, 49019, 5979, 47652, 27845, 30675,
      26662, 4706, 21491, 34243, 28632, 12657, 17538, 31722, 43928, 14970, 44595, 34095, 47597, 35846,
      28098, 49395, 49251, 10856, 48706, 48272, 29031, 318, 38133, 13952, 26876, 13348, 8072, 28321,
      2508, 24391, 5496, 46224, 44671, 39, 38576, 49158, 1371, 15564, 36823, 29786, 288, 26594,
      3492, 10185, 17405, 47635, 832, 24177, 20232, 21370, 25376, 20394, 31479, 49781, 34251, 31328,
      42622, 25042, 36431, 44462, 41724, 37511, 16975, 28571, 26037, 21884, 4484, 35972, 19616, 22939,
      46908, 28563, 34197, 21664, 36318, 5699, 15337, 48393, 20533, 17296, 4840, 41967, 7129, 28567,
      17460, 34796, 20100, 40301, 34368, 47120, 1035, 35963, 8, 29364, 30053, 23771, 31642, 8762,
      29773, 941, 23455, 15661, 13692, 43331, 38581, 28843, 25355, 45108, 34912, 3522, 9799, 42770,
      39392, 7261, 10288, 21440, 5044, 13369, 4742, 46337, 23271, 17035, 7992, 13950, 17931, 29420,
      715, 15575, 5383, 8553, 6790, 9607, 20040, 48750, 17315, 18898, 14544, 45416, 43325, 40621,
      21928, 41319, 43774, 8255, 47577, 19651, 10038, 43371, 16236, 37942, 34050, 9393, 40907, 13319,
      22122, 21938, 27162, 15920, 9251, 34264, 24759, 32290, 31080, 7467, 49301, 29469, 1857, 8323,
      13766, 18879, 31426, 19862, 41399, 20459, 12749, 4987, 45972, 7520, 39418, 46417, 14672, 1420,
      39835, 29927, 22524, 23245, 30760, 19519, 18505, 46656, 5431, 28613, 3319, 37949, 33442, 45470,
      48797, 49663, 19695, 36517, 25285, 37101, 27902, 49488, 35390, 27791, 44568, 22404, 47912, 40853,
      34863, 41241, 26046, 4424, 15560, 16583, 4560, 41375, 32504, 8236, 1352, 17822, 26139, 46835,
      39653, 36388, 20769, 25036, 15238, 25690, 12105, 47526, 37147, 34477, 15609, 30691, 2218, 23685,
      8805, 25723, 4228, 32579, 1945, 37182, 568, 25387, 47673, 17741, 45816, 30616, 39226, 30258,
      26051, 46019, 17798, 48728, 12166, 17056, 31083, 38481, 8992, 44933, 27060, 8336, 4022, 27771,
      42073, 21530, 44177, 1050, 31435, 36026, 24013, 14684, 16942, 24148, 14813, 17614, 37284, 13555,
      22830, 19448, 544, 16443, 42199, 1887, 36407, 10010, 32425, 25336, 28212, 39097, 31525, 41151,
      9502, 27440, 36564, 9655, 13135, 2477, 36968, 42957, 8338, 40024, 4821, 39124, 9080, 13930,
      35147, 33363, 33388, 19801, 48840, 34307, 4115, 6051, 26146, 17367, 12142, 49701, 32189, 31671,
      34127, 18050, 27204, 8086, 31146, 21000, 13710, 12206, 38678, 32077, 33713, 41161, 41113, 27660,
      7255, 820, 24877, 46350, 45049, 42130, 10408, 27486, 5210, 45231, 17751, 37858, 36804, 25270,
      42443, 12077, 27623, 45180, 13158, 22166, 9507, 46920, 34337, 47287, 48978, 16587, 19297, 39843,
      5251, 44854, 44628, 46039, 19172, 17539, 5720, 49923, 10373, 27023, 23113, 10328, 25542, 4113,
      49160, 34354, 48324, 46943, 8218, 35008, 28739, 284, 5093, 28698, 30466, 38798, 24757, 44348,
      25503, 40784, 5917, 19318, 16046, 39962, 22900, 47474, 21571, 41506, 30156, 47017, 19425, 13789,
      22732, 6498, 43641, 28005, 10645, 48593, 48282, 32084, 43652, 17042, 32522, 656, 25070, 36693,
      23998, 33667, 20563, 7085, 3413, 5456, 13482, 38056, 33877, 38954, 32644, 3532, 38033, 12195,
      15306, 37431, 41933, 14810, 49979, 43613, 48429, 43577, 29384, 12553, 803, 13485, 2784, 25886,
      47090, 26895, 29110, 23431, 230, 202, 43414, 16096, 2334, 13607, 17873, 31894, 49536, 44050,
      38888, 22767, 9214, 39091, 9558, 34494, 7417, 31878, 18749, 33484, 46611, 37027, 45035, 32096,
      15475, 14752, 24447, 40548, 39646, 45210, 20640, 40699, 29383, 19024, 14897, 15461, 44013, 22585,
      367, 32242, 42593, 26938, 13020, 48509, 8319, 7554, 11623, 12754, 18186, 28417, 35559, 42911,
      29035, 456, 42271, 33786, 36559, 42703, 30584, 18189, 16210, 26198, 31727, 33797, 16414, 47748,
      2137, 13137, 8306, 3162, 34793, 23679, 15834, 13339, 28348, 18085, 17389, 2700, 30896, 39429,
      32204, 42612, 9112, 3695, 49885, 33694, 4171, 4687, 24743, 12590, 18770, 299, 29558, 7587,
      18355, 31583, 7124, 27290, 47507, 42120, 1840, 20162, 10602, 25900, 26235, 1718, 24924, 36792,
      10739, 964, 49586, 13913, 22129, 17869, 40692, 7839, 47502, 30943, 1581, 47380, 47848, 10953,
      40482, 2566, 33820, 22586, 14272, 20303, 34655, 2183, 10319, 46813, 24334, 9570, 49460, 36061,
      47130, 33112, 43238, 23530, 8029, 42326, 36423, 46359, 35019, 21487, 35619, 49332, 6635, 42321,
      15770, 31691, 29326, 41969, 26152, 44106, 7488, 13875, 753, 21997, 10833, 10205, 21306, 43518,
      41096, 34059, 45353, 4125, 2788, 21451, 41054, 43259, 44599, 40556, 3371, 40453, 31827, 29308,
      23268, 18204, 26156, 15351, 36712, 39272, 34957, 21929, 47032, 34239, 43578, 25214, 18855, 14415,
      43640, 9646, 28759, 23363, 3544, 48107, 3347, 41871, 11388, 1714, 39147, 42483, 44420, 9933,
      46455, 43189, 24488, 49357, 35691, 2583, 36152, 12951, 38671, 18113, 23300, 2957, 3971, 24441,
      2559, 27651, 6180, 20826, 25065, 26371, 41228, 2684, 30409, 31620, 4935, 47677, 44289, 12410,
      38372, 27152, 13218, 40839, 32071, 9456, 27135, 47352, 24062, 47001, 12764, 9509, 39241, 38750,
      48337, 5284, 14638, 37046, 35942, 33553, 48697, 3334, 2060, 26915, 7457, 23662, 15276, 15528,
      43233, 2171, 40445, 29671, 42822, 41394, 26609, 30967, 29266, 12891, 5521, 16317, 27589, 38733,
      28340, 5973, 22623, 35838, 45548, 32358, 31628, 14702, 41354, 22887, 25453, 23965, 30495, 44375,
      48434, 23978, 49590, 45271, 46289, 17125, 21310, 16487, 8650, 35274, 28102, 42233, 24728, 32142,
      6745, 13271, 7558, 41327, 18963, 29624, 32039, 26241, 33373, 12268, 17607, 37590, 24784, 1642,
      26860, 3686, 291, 44714, 2085, 49057, 37110, 43606, 11747, 34295, 47516, 36120, 32476, 24975,
      30068, 1765, 35411, 32342, 47759, 36522, 36838, 20687, 13292, 22711, 28508, 29232, 48941, 22262,
      689, 36905, 49788, 19401, 24810, 5894, 43245, 36102, 31683, 20488, 7926, 48397, 49411, 41339,
      40584, 2797, 34630, 12236, 23609, 21466, 31959, 44240, 33582, 23277, 39512, 4885, 1216, 18933,
      11773, 46595, 38628, 23724, 5605, 2089, 4739, 4286, 22584, 35810, 16088, 46660, 47268, 46985,
      37270, 12139, 30142, 4438, 7202, 35782, 46094, 21086, 1827, 5453, 21878, 29003, 18408, 28507,
      1870, 49440, 41238, 25429, 34287, 19960, 31925, 14317, 11524, 12209, 24239, 36429, 5927, 37951,
      45150, 26907, 188, 14893, 49932, 31402, 33468, 16554, 12273, 34056, 28578, 30588, 30032, 41575,
      12232, 48868, 46551, 43757, 20846, 19126, 25484, 31850, 35940, 5648, 9514, 48241, 30007, 14257,
      38199, 12583, 42890, 14696, 17365, 30667, 19039, 40406, 35129, 26034, 44685, 34065, 41908, 9053,
      20362, 13215, 24694, 43084, 40248, 714, 31522, 33818, 23582, 26503, 9811, 23124, 26699, 31046,
      12530, 24429, 33059, 27989, 38061, 18970, 34671, 27165, 5164, 2221, 6538, 48634, 32162, 21769,
      45762, 43166, 29993, 48832, 2687, 8704, 13592, 36868, 2178, 48694, 20476, 17083, 37736, 31396,
      48881, 39381, 21936, 12825, 31537, 18952, 13404, 17526, 29600, 11891, 44048, 2976, 12672, 49124,
      19417, 27421, 14843, 29608, 5589, 45962, 47706, 6755, 6632, 10933, 12842, 22653, 16326, 49807,
      21012, 11147, 30536, 7106, 9173, 24779, 33935, 37090, 30714, 24841, 3101, 38147, 21901, 19146,
      16009, 26798, 4807, 29128, 34488, 32869, 124, 21075, 24800, 2704, 8759, 43813, 25786, 45333,
      14535, 11391, 7962, 25129, 47162, 1705, 9434, 49265, 46799, 35045, 47459, 5678, 17854, 13812,
      47547, 7322, 6999, 24847, 33352, 9212, 15693, 18026, 14127, 47103, 15413, 43789, 39289, 49008,
      38894, 22405, 49738, 22844, 18308, 10325, 37561, 44537, 21105, 24375, 47462, 40945, 38175, 35299,
      37139, 36100, 48064, 28243, 42411, 44204, 14251, 8485, 6120, 7459, 14003, 2485, 18290, 14833,
      25309, 16683, 21783, 9904, 47904, 49028, 25229, 4509, 39772, 22846, 45109, 3668, 10971, 24019,
      42840, 13790, 6947, 5985, 8865, 13960, 33808, 48722, 29683, 6517, 7930, 23995, 25877, 41472,
      19866, 39301, 14525, 34465, 8696, 13981, 49062, 7556, 752, 26133, 15818, 36241, 46211, 10572,
      47720, 11740, 9926, 48574, 38929, 9805, 45112, 7286, 612, 34075, 15856, 41793, 39510, 7098,
      27971, 12850, 46513, 41023, 5406, 49467, 23448, 20379, 20042, 16318, 49471, 17305, 3552, 10228,
      43055, 48907, 14864, 9818, 43177, 12806, 13355, 37980, 37718, 29343, 9542, 43694, 13333, 25581,
      7662, 7138, 9406, 1586, 46950, 3711, 10462, 19776, 14822, 32483, 49433, 4397, 26721, 5106,
      22546, 7517, 5952, 19668, 48044, 3884, 19078, 30888, 3658, 9813, 27815, 46613, 49329, 39794,
      42284, 31366, 21117, 43996, 21791, 9249, 44866, 28989, 30477, 13730, 32257, 24465, 47488, 2991,
      49178, 25349, 32389, 35793, 41565, 14465, 24424, 17977, 21853, 45094, 28909, 16303, 49330, 43728,
      45676, 47097, 1947, 15933, 46137, 10018, 36024, 23810, 28614, 45925, 2293, 13887, 24158, 35564,
      35626, 17670, 48036, 17410, 14247, 12860, 22475, 28722, 35302, 21098, 2535, 19501, 33590, 31944,
      46188, 41128, 31284, 35, 18114, 13133, 19564, 28298, 19865, 38831, 30478, 49151, 47210, 34256,
      9614, 18717, 36742, 3152, 31626, 13899, 33503, 36340, 349, 48318, 29390, 5731, 24898, 33148,
      8063, 5461, 49927, 2038, 4323, 31674, 33041, 23836, 27901, 45090, 7790, 39862, 19553, 41943,
      47124, 5968, 30590, 45296, 2870, 7748, 25490, 42175, 22416, 40014, 10605, 16141, 35958, 14262,
      12756, 502, 24011, 45361, 3505, 23083, 22744, 24777, 23342, 24799, 35727, 29662, 41180, 32560,
      26361, 22235, 35551, 34688, 22619, 31053, 11794, 42234, 10291, 36573, 43418, 15546, 18979, 44500,
      43175, 31935, 38848, 47565, 22622, 48962, 48114, 41260, 14004, 31001, 16597, 24110, 32582, 31588,
      208, 42931, 6886, 38983, 40531, 48804, 11276, 48201, 10330, 49715, 8232, 1747, 4147, 31794,
      44809, 2703, 25448, 16471, 24390, 9272, 26842, 5437, 6115, 33079, 43047, 45306, 14338, 34055,
      34995, 1666, 27390, 3993, 45757, 12772, 21077, 10117, 19654, 44156, 29284, 13499, 3888, 15543,
      12129, 27450, 221, 48660, 25617, 30350, 37593, 24007, 6586, 11983, 45134, 42795, 24577, 33812,
      30736, 13090, 42510, 12992, 17877, 36028, 42269, 38527, 41740, 22121, 35589, 6162, 12778, 4075,
      27339, 14112, 25803, 29673, 33685, 24302, 31800, 30741, 43034, 34257, 43353, 25889, 2250, 40252,
      47616, 3139, 9789, 31102, 32938, 7907, 41441, 1628, 9939, 41509, 20086, 45065, 3523, 23612,
      611, 49348, 13122, 8030, 8143, 14107, 49087, 49263, 22285, 42245, 1265, 8137, 11829, 23613,
      28423, 38008, 2316, 34011, 44184, 20780, 18059, 19351, 33134, 34104, 47420, 45850, 3329, 37023,
      9593, 49905, 12332, 14698, 45031, 3794, 13667, 48441, 34918, 26992, 23898, 31569, 12490, 16888,
      47655, 5025, 16643, 25919, 21896, 39989, 38035, 38770, 2815, 49149, 40316, 31660, 5800, 31079,
      32871, 32484, 33408, 40163, 45222, 38415, 40062, 47496, 29325, 24713, 47813, 4554, 24748, 38323,
      23062, 45436, 38410, 965, 22183, 12669, 40488, 33823, 41382, 29957, 30247, 36893, 43655, 4187,
      26136, 29499, 44322, 40749, 47868, 12008, 10415, 33599, 6488, 32964, 29519, 9151, 40540, 32771,
      14464, 30735, 1592, 14950, 41730, 13425, 46105, 27249, 10643, 6986, 30420, 37455, 21648, 44415,
      12723, 32448, 41895, 6290, 7518, 31439, 9355, 17559, 7391, 45315, 43262, 34419, 5880, 11557,
      8351, 31700, 34533, 5405, 26053, 24448, 24964, 5727, 25759, 36324, 9944, 9019, 28186, 4163,
      40532, 23539, 5118, 2170, 49722, 20335, 20578, 7071, 6035, 17943, 21426, 22682, 38224, 23632,
      29879, 15685, 8941, 31900, 16809, 44112, 39374, 4224, 45667, 31477, 36866, 12463, 34971, 44260,
      7316, 11508, 12032, 27556, 43119, 39782, 32555, 4388, 25055, 47473, 12131, 24479, 16349, 48673,
      18484, 29678, 48246, 35255, 421, 49968, 3595, 2694, 12238, 2905, 41249, 11502, 29054, 29579,
      937, 18345, 39502, 23152, 21079, 9030, 44099, 23774, 29646, 5578, 36786, 37302, 27085, 27637,
      21668, 14375, 13184, 32497, 2045, 43433, 38946, 23746, 12293, 40144, 19525, 49084, 5804, 17382,
      8364, 48025, 24601, 22055, 38538, 42660, 4501, 11883, 41176, 16684, 15740, 21943, 1946, 21482,
      47269, 19279, 39780, 31920, 42258, 36148, 27287, 34102, 42740, 4670, 25980, 12826, 37898, 48328,
      27451, 45417, 27212, 40245, 36644, 2424, 2131, 37774, 45127, 33048, 32010, 26516, 27462, 10711,
      13808, 15212, 29567, 7012, 32129, 42479, 35537, 39485, 14155, 48208, 14808, 45646, 25440, 40103,
      503, 21483, 19579, 17371, 7559, 47889, 7988, 47757, 41607, 13361, 43252, 15201, 32318, 36260,
      8405, 33175, 48492, 35882, 37585, 24641, 34519, 8300, 18949, 5338, 6386, 2099, 31142, 22519,
      15272, 2706, 34562, 11866, 40036, 46618, 24048, 43944, 10525, 49225, 49630, 5982, 13567, 46148,
      49247, 45718, 40063, 20970, 21036, 2082, 5708, 11842, 35227, 15425, 32107, 19124, 30302, 15616,
      20371, 25865, 45244, 19565, 15530, 546, 37359, 43327, 43271, 27458, 25955, 31148, 46377, 46517,
      3844, 28962, 1020, 23060, 8769, 27029, 23081, 10094, 44378, 11027, 15175, 48912, 30737, 3365,
      38064, 14556, 7774, 25661, 2455, 8390, 24409, 13764, 19208, 907, 13977, 14268, 43023, 40967,
      36076, 33274, 35403, 28387, 35295, 3080, 10298, 26682, 22314, 13622, 42122, 24721, 2609, 6145,
      6214, 16328, 8540, 26194, 34694, 39162, 26332, 26731, 10300, 49834, 15746, 26048, 8342, 6811,
      47866, 46791, 11311, 23516, 44663, 1654, 38936, 43261, 12700, 7985, 33483, 47960, 22170, 24980,
      42989, 44291, 41359, 3099, 48723, 20720, 9322, 13157, 34124, 49150, 36699, 28166, 29392, 47787,
      3816, 25393, 12445, 19153, 29760, 23601, 1790, 25495, 32059, 36900, 31599, 34819, 46817, 33215,
      22236, 5468, 27699, 27416, 14436, 21989, 37604, 23426, 19907, 44621, 547, 40756, 46325, 39002,
      40748, 13874, 3468, 48769, 13194, 35870, 44922, 38569, 27797, 4793, 40554, 315, 33884, 32905,
      20006, 9115, 1915, 25478, 450, 44006, 5760, 20244, 16847, 39702, 46833, 26453, 47936, 38913,
      6362, 46761, 12811, 19237, 27732, 44404, 19471, 34746, 36709, 41293, 10309, 1237, 19197, 28294,
      46235, 40768, 10606, 26606, 19320, 20263, 18567, 39768, 26679, 25529, 5196, 6547, 15014, 41050,
      13891, 45329, 44324, 8900, 48527, 556, 20380, 7508, 33813, 31924, 17259, 19468, 20377, 34308,
      21808, 33889, 38068, 45588, 35275, 7582, 44787, 30877, 30744, 22084, 40509, 8079, 25982, 5778,
      31424, 18497, 41685, 36022, 40033, 6440, 39330, 13512, 21388, 42824, 49629, 12099, 11365, 28587,
      15533, 19749, 9629, 11495, 38600, 33164, 28372, 20264, 7110, 30122, 5440, 33018, 28154, 25861,
      10784, 24807, 44803, 3345, 18564, 20883, 42796, 2769, 31166, 48569, 11227, 39786, 25753, 39556,
      12011, 8360, 8629, 40518, 18407, 13416, 39050, 39818, 14778, 46812, 38162, 2309, 46880, 11537,
      42936, 8914, 34468, 30648, 26587, 18928, 45541, 4182, 23826, 26166, 16551, 2193, 18195, 36240,
      13115, 43983, 1059, 48631, 45498, 49018, 31089, 3612, 49934, 27903, 1368, 49980, 42632, 22324,
      37161, 7968, 12655, 19144, 26428, 19887, 16631, 24271, 11428, 2367, 1940, 47180, 13427, 24928,
      16834, 8679, 35655, 1374, 21875, 30603, 45546, 11870, 12155, 47875, 4720, 1872, 2732, 28954,
      45311, 46081, 13344, 23043, 1063, 11282, 40835, 23234, 24275, 31122, 25970, 21756, 31453, 7552,
      39119, 26412, 47839, 31243, 42901, 42877, 6228, 4087, 23293, 15281, 31712, 43186, 31562, 26138,
      35484, 29965, 27224, 15772, 15879, 38860, 12738, 11685, 2428, 8935, 39741, 25573, 26397, 46924,
      22045, 24585, 36036, 41797, 46296, 11125, 48403, 41037, 40641, 45148, 761, 22717, 47929, 23627,
      11833, 39596, 43172, 31782, 41118, 38053, 15068, 33993, 9091, 4198, 4479, 28463, 33634, 26565,
      30212, 42738, 17147, 13987, 12603, 21645, 27711, 43155, 2005, 38446, 15316, 24998, 9563, 31664,
      44544, 32999, 32774, 17490, 34965, 41598, 32820, 4026, 12568, 45118, 12554, 6325, 21459, 720,
      21894, 6393, 20708, 35122, 16477, 34652, 32170, 23106, 12797, 5805, 5194, 28720, 17470, 22857,
      39096, 22604, 26877, 8583, 28313, 40124, 23163, 27100, 32163, 2332, 19070, 29186, 39092, 3423,
      14284, 31373, 25751, 30218, 37796, 18529, 15049, 15050, 1546, 4834, 40896, 33969, 9578, 29081,
      26670, 32086, 40255, 44207, 21144, 21733, 38249, 6878, 3608, 46638, 46614, 9874, 40359, 39266,
      28551, 12567, 44271, 44446, 14370, 48893, 11503, 15462, 21910, 43610, 48315, 8674, 26168, 38116,
      36535, 26477, 29408, 13257, 15451, 24318, 601, 29274, 2968, 8214, 42942, 38696, 36494, 7072,
      2859, 20451, 1916, 16793, 16257, 20596, 35866, 3827, 19734, 28657, 24520, 36537, 46278, 23523,
      30256, 6508, 15569, 7681, 23808, 16090, 31163, 44029, 23536, 31605, 34854, 34583, 2790, 19139,
      6309, 28262, 34771, 617, 45965, 24002, 15684, 16605, 19831, 19374, 44209, 25549, 44684, 47154,
      40728, 40638, 21865, 32710, 25225, 19836, 30514, 37054, 19505, 49241, 26366, 18206, 47824, 5474,
      10096, 7888, 42841, 2152, 21710, 30071, 20311, 45449, 45078, 15987, 32260, 30107, 46939, 33225,
      43726, 5268, 32340, 31680, 32657, 26684, 6741, 49200, 42445, 16640, 40498, 37554, 19637, 40358,
      24698, 2721, 35259, 26653, 3421, 49760, 22066, 5449, 32906, 27492, 31803, 12444, 44972, 36089,
      2862, 30298, 1649, 23910, 7502, 48511, 9530, 41965, 13531, 27987, 7318, 13225, 38212, 31866,
      34791, 24773, 36602, 44090, 14954, 8048, 36334, 10078, 33358, 29337, 32756, 327, 16615, 7332,
      14052, 29740, 46058, 17865, 28221, 1186, 25178, 35550, 15147, 16856, 47914, 10920, 48657, 5372,
      8267, 8196, 8681, 22050, 9300, 7228, 12060, 46043, 2209, 35997, 25106, 45634, 46902, 25324,
      27753, 11030, 32344, 5937, 6323, 46992, 17645, 37850, 7405, 2359, 9791, 39366, 16860, 10950,
      30157, 11769, 43841, 20432, 19639, 7536, 40731, 47121, 259, 10911, 34045, 14346, 11079, 29406,
      48621, 27054, 47612, 16769, 12269, 721, 22812, 3537, 3147, 38843, 43489, 32493, 27853, 27327,
      37507, 41638, 16719, 25749, 10122, 34186, 2701, 6681, 44494, 47751, 35778, 37716, 28809, 3361,
      24934, 12624, 16931, 32029, 46165, 31833, 16354, 14550, 8081, 22627, 31183, 33465, 37330, 44286,
      15325, 40001, 21443, 30769, 10811, 40112, 4588, 41927, 18286, 27934, 43748, 4941, 3671, 35223,
      47430, 4221, 11765, 39654, 34100, 26005, 33965, 27658, 4685, 43335, 42241, 6505, 33080, 44052,
      26216, 47731, 14510, 21161, 37854, 23009, 10932, 18403, 41559, 34428, 48465, 27238, 17699, 49344,
      38107, 31154, 30380, 41488, 18336, 18835, 14378, 23143, 8373, 4690, 30118, 43908, 19248, 48695,
      13434, 45209, 29182, 46393, 13688, 20997, 31061, 38474, 49592, 10640, 39944, 9971, 18734, 14185,
      42412, 5512, 5156, 31548, 49215, 45330, 5214, 25698, 39945, 33125, 48711, 36337, 4623, 18697,
      20387, 10507, 28977, 7404, 6625, 14819, 11194, 19400, 15148, 18837, 25310, 47561, 18234, 29155,
      42147, 26407, 22406, 29357, 18893, 16324, 46390, 45818, 4843, 6575, 23547, 41479, 3472, 37508,
      40519, 28577, 32062, 21467, 44419, 22352, 6634, 22509, 21169, 13211, 48497, 3967, 17619, 41917,
      14517, 17799, 40676, 28299, 22934, 30417, 31853, 473, 24130, 22176, 24750, 30126, 26218, 45044,
      1580, 7676, 18720, 45431, 36662, 91, 21990, 34438, 830, 34306, 31679, 48289, 34942, 11323,
      10479, 38273, 14041, 38639, 40246, 11544, 29440, 10275, 20675, 10701, 49255, 13725, 16578, 44835,
      11022, 28800, 8838, 48351, 22453, 35047, 15872, 2516, 19837, 32597, 25630, 25332, 5254, 22793,
      36269, 46036, 10471, 27970, 23511, 14512, 32073, 47788, 3302, 34291, 13465, 31919, 18131, 34426,
      39137, 41812, 5848, 23887, 5339, 13223, 12540, 39058, 30664, 36883, 2751, 44312, 29822, 14062,
      25297, 36384, 41371, 31564, 2122, 11522, 37317, 2986, 1349, 3553, 29876, 12922, 49140, 13460,
      29094, 18927, 13903, 9651, 44468, 33354, 30456, 36472, 31380, 39641, 39257, 3274, 15288, 42041,
      26921, 20148, 27524, 4814, 38879, 40782, 44590, 7157, 6503, 43533, 41450, 265, 4433, 40790,
      21355, 16131, 40528, 16805, 22413, 15640, 26095, 3301, 26191, 26354, 12998, 13722, 15197, 38853,
      5202, 27055, 3233, 39489, 25867, 48642, 24868, 10021, 37874, 4909, 36734, 29130, 5505, 39181,
      29930, 1809, 13967, 45142, 39174, 47207, 44872, 33594, 38851, 15836, 36950, 29226, 24374, 45100,
      18411, 22635, 12911, 24586, 12326, 24325, 35599, 30830, 36917, 5353, 7756, 40201, 28352, 18223,
      25641, 8794, 15309, 39693, 47979, 254, 592, 969, 47140, 21336, 41252, 25447, 21786, 33796,
      14220, 28536, 49548, 16086, 36851, 1355, 33133, 45115, 46040, 24593, 38187, 8216, 15266, 9142,
      7353, 10341, 29842, 32302, 18404, 18447, 33564, 39800, 6688, 22788, 33281, 33094, 42672, 5163,
      37910, 40496, 32348, 1493, 32604, 30767, 38422, 33258, 18220, 35202, 23229, 32846, 6356, 49227,
      24529, 46203, 49209, 12366, 10461, 42249, 40735, 34589, 9993, 461, 19089, 14987, 34931, 36767,
      10867, 33466, 392, 24707, 33981, 14947, 29667, 7304, 10102, 9730, 2734, 32707, 33031, 18930,
      41286, 16909, 1028, 27513, 43135, 48870, 10387, 16245, 47922, 49626, 18580, 14105, 9482, 39675,
      1228, 49070, 23617, 16517, 49960, 27000, 18820, 44807, 19040, 41495, 41055, 40560, 16592, 8588,
      24341, 23135, 45774, 18796, 1083, 47599, 10180, 23592, 12302, 6944, 42295, 36514, 45386, 23320,
      40868, 6845, 2288, 1595, 34139, 32861, 14979, 42014, 46376, 47874, 23642, 40727, 41324, 29788,
      9033, 39728, 12462, 15430, 19745, 34687, 25681, 9773, 34612, 7437, 33374, 16866, 14476, 7914,
      8964, 25585, 14964, 15091, 32038, 5391, 44626, 14637, 24225, 31699, 28744, 40589, 43198, 42876,
      22158, 11959, 9657, 40485, 17830, 11654, 18616, 13165, 39694, 7097, 35124, 26750, 47168, 49714,
      27827, 36650, 26314, 15973, 42046, 15874, 40885, 33409, 47170, 3207, 18703, 6353, 44604, 39805,
      21543, 46227, 19720, 19125, 27533, 31948, 10056, 28574, 37723, 46663, 15808, 18780, 7731, 10957,
      7604, 18241, 48652, 3399, 9912, 5834, 23148, 12111, 12973, 4607, 32666, 45823, 21948, 48188,
      19598, 38856, 13038, 8148, 45344, 11431, 45647, 36812, 12499, 17480, 29248, 13052, 6520, 45074,
      3181, 39359, 2143, 35633, 48758, 4281, 41307, 35375, 42016, 6227, 44725, 3894, 30638, 3616,
      36112, 19925, 34236, 1743, 49114, 12735, 15441, 26600, 25591, 4950, 25896, 34504, 49549, 2039,
      18128, 13239, 10519, 25746, 21629, 32588, 44880, 35968, 46333, 26376, 13530, 3501, 45503, 45631,
      16272, 19526, 5217, 12164, 6763, 37379, 48761, 35152, 6582, 48384, 224, 34452, 40564, 21521,
      49640, 21065, 10641, 16291, 35657, 21293, 11452, 46784, 25014, 46518, 24171, 168, 43859, 28309,
      42967, 27948, 25775, 30633, 4696, 38779, 11453, 42074, 19518, 25257, 18007, 35444, 22943, 47006,
      15866, 36972, 34730, 6091, 31978, 30785, 38127, 9575, 33752, 39565, 7344, 49333, 7636, 21819,
      40045, 40593, 15745, 36666, 23066, 45864, 25035, 10194, 31032, 26310, 1665, 33411, 4371, 26450,
      48108, 13684, 30813, 35652, 33157, 38560, 759, 32416, 28575, 17585, 33019, 4284, 26264, 45480,
      33042, 22817, 19046, 12675, 48768, 1978, 28392, 28494, 955, 11456, 18721, 227, 39118, 42597,
      32944, 29017, 24361, 4317, 18912, 2420, 30114, 29618, 27489, 12368, 48822, 34304, 4452, 33504,
      28364, 37634, 1075, 17188, 16099, 26882, 45624, 38541, 25973, 5312, 32460, 33659, 11051, 15432,
      47408, 9028, 26161, 26965, 836, 16037, 23138, 19757, 4734, 37751, 37460, 10212, 37206, 29463,
      25195, 45070, 42064, 19300, 48640, 38484, 31646, 17495, 33095, 48085, 33211, 21472, 24631, 10624,
      29634, 38274, 17383, 31203, 45318, 8638, 43234, 234, 32752, 46244, 3721, 43458, 49695, 1394,
      4715, 27168, 49700, 43552, 5120, 10555, 25094, 43979, 39898, 43239, 34336, 6602, 37074, 30922,
      7445, 15778, 9309, 27171, 23003, 41619, 34686, 635, 20428, 30213, 42301, 21437, 35717, 6495,
      23891, 45613, 25246, 36936, 25540, 45672, 529, 32200, 27488, 37965, 18317, 31221, 33955, 24838,
      31964, 22355, 44980, 48125, 28998, 26528, 43156, 40859, 44134, 42566, 10168, 47967, 11909, 29857,
      39061, 24873, 21432, 48880, 6918, 38189, 27422, 41351, 33954, 36626, 6785, 49303, 49240, 24679,
      36506, 21338, 41026, 9749, 27667, 18406, 42119, 828, 44538, 49358, 49813, 42148, 33557, 4542,
      7153, 16586, 26207, 5593, 6919, 45308, 18818, 11956, 36577, 23775, 23169, 18214, 6335, 21005,
      44785, 6357, 22521, 11006, 18934, 35267, 39582, 30643, 14331, 7716, 19750, 40392, 38241, 35235,
      20233, 43990, 21485, 47029, 24144, 48821, 19057, 38424, 46313, 26358, 34528, 40952, 23538, 41010,
      12394, 48203, 23295, 13351, 1119, 41077, 8164, 29616, 43488, 35446, 21821, 17001, 43278, 6157,
      23175, 22849, 6685, 2030, 47727, 39192, 45887, 13366, 48629, 9881, 43005, 23907, 32291, 2225,
      43014, 22006, 34778, 18422, 3590, 19147, 37337, 25262, 25261, 30672, 3328, 45592, 36858, 7299,
      2324, 24740, 27501, 37954, 44399, 4043, 24812, 46371, 43656, 9329, 16862, 34598, 5043, 44384,
      32190, 19845, 25308, 31364, 15161, 21572, 39123, 39953, 42406, 2047, 1495, 48828, 43515, 14450,
      17329, 13813, 8839, 970, 20642, 28486, 26546, 23950, 19765, 41727, 27595, 8773, 42962, 48422,
      44118, 19941, 23167, 9201, 7826, 35683, 8242, 43958, 21836, 4015, 7500, 20934, 4278, 27756,
      18784, 16710, 22628, 46610, 40700, 37813, 18277, 29935, 28728, 45053, 38923, 42797, 42012, 21129,
      27561, 49542, 4313, 20678, 44977, 5870, 23179, 33731, 36676, 46013, 40018, 4698, 11137, 21138,
      44010, 275, 35466, 40415, 22549, 15133, 34154, 13309, 27809, 36144, 12698, 32090, 11599, 31458,
      42077, 22843, 22759, 49047, 36265, 2661, 23076, 2748, 19449, 34253, 24213, 7669, 47201, 34300,
      24292, 17390, 10232, 36529, 9668, 11454, 12367, 34684, 41516, 21002, 16518, 46446, 11169, 3351,
      435, 49442, 22661, 36256, 17148, 44231, 11074, 2594, 3422, 11518, 47773, 33618, 8797, 37280,
      16700, 38993, 146, 43452, 26282, 10495, 22737, 11114, 43043, 13481, 25043, 30875, 33839, 49211,
      26726, 47506, 5359, 48353, 32516, 25147, 8614, 38953, 17386, 42960, 49324, 7799, 45458, 7824,
      33033, 3868, 4649, 48700, 38536, 9544, 2737, 3111, 11862, 35600, 34388, 7952, 5970, 14994,
      45273, 17956, 38912, 40796, 76, 6628, 44141, 28895, 14147, 10687, 35977, 47841, 3005, 10543,
      9276, 2345, 6088, 10269, 16271, 38250, 15803, 29071, 26780, 10658, 988, 15179, 43586, 49525,
      18428, 41550, 6717, 14816, 37717, 43932, 37347, 15084, 36098, 45729, 9005, 9727, 16060, 9226,
      47527, 2270, 696, 33540, 23753, 23087, 21931, 11896, 25789, 47898, 17835, 37799, 39815, 30680,
      32237, 39313, 5516, 46328, 33970, 9176, 42862, 32219, 15208, 9691, 21805, 6173, 16287, 9991,
      2667, 33310, 36716, 16565, 36447, 26464, 25196, 22482, 15391, 30012, 42383, 13742, 23226, 43605,
      47721, 15428, 43224, 22888, 45039, 17797, 13127, 36965, 6417, 30018, 20016, 7854, 4684, 26912,
      24413, 21643, 42587, 37042, 20007, 37622, 32985, 27017, 16564, 30768, 33692, 41199, 36143, 34006,
      45081, 34081, 24289, 39745, 39761, 13781, 16853, 36756, 27859, 18550, 48371, 1027, 33502, 44679,
      44063, 23886, 36003, 253, 15270, 1795, 36603, 28422, 333, 39966, 29686, 41907, 43866, 45527,
      7092, 27146, 6174, 37595, 39196, 21899, 12349, 31068, 31603, 22326, 7167, 37883, 36541, 40854,
      1967, 20118, 16521, 20523, 4447, 12443, 3860, 44759, 8115, 18210, 31638, 35673, 16624, 21486,
      14433, 16300, 357, 43616, 1297, 45940, 10804, 41982, 24097, 43772, 8827, 25935, 28585, 6153,
      37353, 14413, 36420, 48575, 9485, 14070, 37063, 44331, 17626, 49153, 46361, 29082, 42093, 31425,
      44884, 26114, 46340, 44280, 27316, 11285, 4059, 28556, 7739, 20203, 47724, 46676, 43104, 8806,
      15502, 8958, 29, 41358, 41215, 34338, 27067, 11554, 1825, 6032, 35696, 41194, 24459, 11860,
      37692, 35112, 20729, 13550, 45001, 19028, 11496, 1869, 33200, 34421, 38002, 1782, 24434, 17344,
      984, 45138, 34344, 27587, 45903, 24589, 23107, 17301, 16838, 9892, 4122, 7585, 17876, 47628,
      10218, 33448, 44580, 34989, 39505, 47292, 8158, 18773, 12579, 25800, 3554, 39308, 2981, 47133,
      13783, 22074, 15362, 45978, 35614, 13959, 17643, 30630, 3408, 7798, 13910, 38584, 7882, 22773,
      15498, 49363, 11622, 37810, 34162, 11117, 21578, 20441, 19807, 20575, 26042, 41207, 2906, 29407,
      24727, 31902, 6844, 48495, 34596, 2068, 44761, 27049, 31223, 17813, 30550, 25432, 32339, 34613,
      10924, 13706, 49040, 22428, 9755, 20020, 37061, 34561, 12592, 33856, 7150, 9450, 48823, 40979,
      35988, 10773, 18462, 1611, 35458, 35359, 15099, 30283, 18301, 1345, 13627, 21103, 48210, 45199,
      43498, 31977, 30228, 33847, 24715, 24766, 28265, 46945, 48884, 28943, 23224, 7807, 40562, 16306,
      26082, 39941, 43247, 18638, 42354, 42450, 30970, 9574, 29570, 28709, 41473, 154, 19513, 11610,
      39972, 12094, 31067, 30072, 6817, 39246, 34563, 34868, 20070, 8005, 31847, 4510, 39221, 43022,
      26866, 1037, 34049, 24193, 17752, 19760, 36539, 39936, 4153, 7408, 43151, 40338, 41314, 8400,
      14301, 30282, 18989, 6669, 10574, 2587, 49826, 3140, 12719, 15723, 11892, 9209, 25794, 4225,
      16520, 11310, 48564, 43481, 22728, 43344, 34838, 2021, 45003, 32817, 47684, 12259, 14542, 19289,
      8835, 2702, 11315, 17673, 49118, 24455, 18735, 5524, 22507, 12167, 43152, 1751, 38809, 28826,
      46229, 38289, 28770, 16333, 16802, 33150, 31791, 39348, 12626, 14640, 9832, 35126, 38508, 46691,
      36055, 10684, 44706, 22202, 28509, 48872, 7426, 12128, 33911, 27415, 19848, 1891, 2634, 28898,
      18801, 6261, 5032, 16273, 38049, 19494, 16639, 34904, 11750, 8348, 34908, 14015, 24649, 1943,
      22972, 50001, 8803, 46755, 11851, 16187, 48507, 39456, 42386, 49326, 11356, 35662, 11333, 16685,
      8173, 24827, 17553, 25194, 40493, 25926, 38195, 14358, 8834, 37642, 36629, 11491, 4275, 30311,
      6761, 48510, 49310, 41615, 14630, 33488, 15753, 10664, 26050, 38391, 30108, 39389, 35155, 31834,
      10673, 35108, 24320, 34199, 1713, 25676, 33424, 30506, 6950, 26197, 35217, 17092, 32303, 36827,
      31004, 33441, 43301, 49024, 1256, 19390, 25231, 28162, 4708, 1767, 12054, 36684, 22094, 40146,
      43466, 27130, 27514, 6122, 19653, 24293, 29316, 34424, 35074, 1036, 39491, 45425, 49104, 7089,
      2550, 5365, 39297, 43886, 47849, 49791, 22273, 11057, 17425, 35377, 15758, 35226, 48295, 20220,
      22582, 44281, 38093, 44227, 16092, 683, 41571, 7763, 1787, 38380, 23189, 33248, 46989, 46106,
      18456, 48094, 27324, 4100, 20572, 2782, 39351, 25084, 23193, 32968, 28301, 26865, 48293, 47166,
      44925, 21855, 31983, 4210, 5957, 7363, 19430, 24082, 26321, 42893, 21858, 22941, 24483, 20001,
      5099, 28137, 14895, 14, 29688, 17767, 32518, 3297, 35216, 39695, 28726, 1641, 27784, 34149,
      35082, 32127, 36998, 45612, 24088, 47947, 5184, 12863, 7381, 9822, 34226, 28985, 15736, 11253,
      27592, 22023, 19106, 25007, 48518, 24937, 7663, 44962, 19135, 25005, 11726, 25482, 1683, 6250,
      46561, 10556, 39991, 8316, 8643, 1606, 7923, 28096, 31769, 22851, 9670, 1405, 12193, 6287,
      41753, 14949, 47053, 13855, 5903, 7546, 12491, 26704, 44305, 47545, 29212, 17791, 23157, 33501,
      39089, 16513, 9857, 826, 48602, 41519, 3991, 11946, 23095, 26349, 37072, 24313, 6993, 43202,
      170, 47397, 46800, 9443, 5480, 47003, 23427, 31849, 42449, 32655, 47681, 46107, 3348, 29172,
      26919, 48363, 2910, 38531, 48692, 8144, 30753, 49517, 34817, 14891, 11701, 8376, 6714, 37252,
      25076, 36606, 30040, 46721, 602, 5998, 7477, 3, 23505, 18368, 18016, 49361, 25379, 18419,
      44275, 15164, 39733, 43969, 26094, 9757, 3393, 5176, 28473, 466, 31811, 24419, 28049, 37847,
      30556, 13784, 15144, 5301, 16813, 37234, 4338, 8523, 40958, 11766, 11820, 35872, 7198, 29013,
      11955, 906, 8345, 37704, 13868, 26703, 45966, 20857, 37538, 32266, 29907, 47609, 42367, 38719,
      36351, 49642, 7590, 19914, 11611, 25420, 43497, 32590, 22680, 24378, 38442, 17999, 12437, 27647,
      11589, 31832, 25974, 44647, 12409, 37551, 32785, 47858, 33203, 21687, 38111, 9762, 32645, 29145,
      31694, 4692, 34176, 40550, 34967, 948, 28966, 2014, 45471, 47321, 29477, 24227, 15565, 32842,
      1249, 44593, 33303, 32990, 4052, 34463, 2598, 45427, 46831, 46983, 32415, 13229, 7224, 32231,
      41782, 20077, 31162, 28034, 13720, 49890, 7208, 19077, 23721, 2349, 6880, 17701, 25583, 7583,
      17468, 24205, 4610, 31637, 22442, 42558, 11505, 29421, 28339, 33449, 13243, 25994, 27530, 49402,
      35602, 18069, 35025, 23050, 3784, 27763, 391, 23145, 49903, 2766, 49819, 13190, 13220, 34934,
      8922, 40903, 35817, 13551, 2909, 4904, 44304, 7428, 44447, 11608, 20521, 26493, 16915, 40825,
      25979, 43788, 33009, 11512, 40674, 27585, 9980, 6485, 45243, 20198, 49661, 22098, 38579, 17734,
      16310, 35848, 39103, 6121, 14578, 37204, 14601, 24821, 41666, 41734, 8676, 48000, 42748, 44082,
      25978, 44847, 17421, 48083, 46946, 47981, 23500, 18187, 30803, 21891, 23082, 44003, 25172, 1879,
      2614, 39400, 2297, 32862, 41964, 2151, 9863, 4558, 41686, 34442, 2206, 23726, 10001, 39664,
      8309, 26592, 22827, 36908, 43799, 46492, 47413, 22163, 3550, 46991, 5123, 18604, 16045, 34577,
      35049, 32887, 29638, 4881, 8847, 46152, 21773, 48132, 37006, 16706, 47627, 35856, 28426, 44478,
      32281, 16990, 35520, 34372, 9849, 26278, 31252, 4374, 14202, 46967, 13498, 36847, 46592, 13359,
      42803, 40541, 20828, 29846, 17957, 10034, 25707, 48812, 23941, 37199, 14770, 16757, 10690, 12086,
      49726, 18162, 5817, 48669, 11869, 23750, 44268, 13830, 18459, 7550, 41622, 33968, 41951, 22347,
      29591, 45704, 9610, 3533, 3837, 24603, 36507, 33165, 34355, 27186, 3613, 115, 45276, 46327,
      7795, 42983, 48866, 19524, 9315, 4031, 42066, 54, 13441, 35938, 49709, 21983, 17938, 30665,
      24763, 44518, 47533, 10188, 37647, 45092, 41193, 16472, 16585, 14931, 25254, 49168, 11940, 3070,
      4862, 21589, 17467, 28606, 38461, 24233, 9161, 26618, 21708, 45202, 33962, 25352, 3185, 33338,
      7172, 40278, 47739, 44981, 44721, 8874, 11004, 2912, 42582, 20781, 14152, 31526, 41385, 2197,
      46115, 48222, 11248, 26456, 1797, 10366, 18974, 19368, 38802, 30570, 25123, 11290, 14118, 23552,
      34339, 19812, 945, 30249, 8972, 14602, 34993, 10937, 44967, 23839, 3352, 28025, 9872, 38745,
      17941, 38502, 14055, 9202, 11566, 2698, 37996, 14395, 36277, 13820, 13845, 35513, 5293, 22101,
      37827, 28396, 7734, 10851, 38622, 11924, 34697, 34509, 26295, 32578, 3963, 30950, 48862, 41487,
      7125, 39207, 11305, 34530, 13829, 17882, 38895, 15688, 24490, 13770, 7691, 49795, 11073, 47532,
      24041, 10935, 23098, 15172, 7053, 10923, 37262, 41657, 40922, 15756, 37183, 36705, 12840, 25524,
      31138, 43581, 35204, 30539, 24356, 38695, 1340, 23997, 14560, 43118, 15794, 43600, 15955, 16340,
      22688, 25139, 23586, 15669, 29428, 13537, 25802, 17760, 13044, 5290, 29237, 26449, 37247, 12976,
      31314, 13341, 20592, 12731, 35979, 22885, 20734, 35686, 12614, 48281, 32717, 24925, 49473, 17739,
      5072, 45536, 25365, 688, 5761, 25152, 33938, 19913, 36236, 26227, 14705, 40117, 49706, 47348,
      17981, 42102, 40207, 30587, 45627, 10958, 26944, 2026, 17911, 41047, 22143, 28268, 10191, 27279,
      33610, 18878, 8616, 8580, 8299, 15843, 43085, 47013, 8890, 30824, 12436, 40669, 25597, 46402,
      10806, 1861, 14102, 45511, 21185, 47591, 19779, 44393, 3450, 37933, 37403, 2930, 32395, 23672,
      40139, 24404, 24020, 12381, 34506, 4464, 39813, 48357, 14911, 3739, 41036, 25144, 25700, 48284,
      41496, 13030, 13103, 42279, 9717, 22562, 47658, 18731, 3624, 10902, 166, 27411, 33207, 9585,
      19677, 2226, 2534, 6369, 3336, 8298, 26479, 16938, 14368, 37273, 5663, 22252, 9099, 37473,
      38794, 32045, 43892, 41987, 11809, 40012, 28510, 31505, 8778, 1955, 46141, 44601, 29104, 48233,
      47670, 2727, 6913, 17253, 48926, 45432, 20948, 31767, 48086, 3182, 18535, 16093, 2412, 20941,
      10199, 19722, 27850, 14212, 27001, 43760, 3173, 25100, 26648, 3807, 20791, 11041, 34781, 40681,
      15833, 15012, 25191, 33912, 39537, 49985, 35253, 27170, 24149, 40375, 22118, 16400, 5022, 27891,
      8863, 606, 14870, 29027, 20658, 32454, 11080, 45472, 24231, 8743, 28882, 856, 1926, 14581,
      31947, 26000, 8785, 19152, 27817, 23188, 38419, 9402, 17017, 30909, 44, 2812, 43628, 43265,
      23566, 31892, 30374, 11861, 46265, 14628, 20484, 39285, 4604, 5816, 19729, 42990, 13170, 15492,
      36155, 35795, 6435, 47107, 35644, 19742, 32946, 49238, 24776, 14405, 44119, 38577, 2051, 1025,
      37178, 3073, 9467, 19481, 31993, 39971, 6881, 41827, 7884, 31554, 535, 49974, 18648, 17616,
      10053, 8823, 3796, 10244, 3926, 32618, 5597, 1573, 12339, 7343, 24195, 14142, 47647, 17899,
      35173, 28545, 14570, 49818, 28170, 10296, 36308, 27176, 13805, 27635, 46707, 22450, 9257, 11047,
      36960, 31265, 16760, 8819, 49494, 33882, 33469, 45577, 32226, 17151, 13948, 5050, 40327, 37734,
      9216, 21460, 34585, 12402, 44723, 22659, 29526, 33081, 4954, 35933, 26748, 49014, 46480, 13193,
      29321, 48079, 27906, 21108, 28456, 19507, 36579, 28653, 42763, 39014, 1739, 44217, 30510, 48020,
      8203, 22088, 10256, 22457, 16611, 23151, 36002, 32860, 37348, 26440, 32081, 3429, 5248, 33630,
      46972, 42434, 5884, 45111, 25305, 16697, 13978, 30234, 25793, 19210, 9800, 42806, 33843, 7513,
      42658, 32380, 23391, 3059, 17475, 40942, 48413, 6711, 3433, 4044, 47733, 13572, 42539, 26154,
      18926, 12291, 31256, 39025, 2897, 35522, 14225, 7784, 41001, 8917, 12810, 13599, 23160, 23304,
      42420, 39107, 27429, 28852, 974, 14905, 22210, 15455, 42474, 43348, 31033, 620, 31765, 3597,
      9952, 21321, 38945, 5418, 45176, 37009, 39155, 31549, 24983, 39771, 48526, 16022, 47197, 46345,
      22617, 2028, 12544, 45485, 232, 28862, 30705, 48216, 23735, 3763, 11007, 47852, 17477, 40558,
      7280, 15416, 30579, 48531, 41585, 21912, 15446, 2512, 4852, 5996, 20467, 40987, 33984, 15571,
      23640, 48650, 24887, 41043, 33926, 31052, 24630, 35437, 15139, 42720, 11655, 6706, 4570, 35819,
      40686, 13677, 7197, 17918, 29070, 47387, 49729, 18416, 12406, 9639, 7453, 35927, 27435, 102,
      17282, 37756, 13885, 1722, 17178, 31005, 18360, 35538, 39023, 41705, 42737, 45305, 48842, 25646,
      20009, 40791, 24116, 8581, 45825, 43382, 9700, 46555, 21694, 38118, 39480, 10272, 16004, 1210,
      28912, 13707, 33251, 1443, 19988, 29658, 920, 805, 48411, 12159, 32489, 37452, 13483, 48544,
      47621, 33704, 28300, 24475, 23922, 36019, 31675, 49619, 18629, 21857, 1153, 21944, 31593, 1084,
      19889, 32524, 3097, 23785, 44777, 25120, 39877, 16219, 47816, 4489, 48960, 30421, 4476, 42545,
      3072, 43942, 7527, 18944, 44618, 29792, 1880, 40029, 12729, 29149, 29093, 2998, 10899, 8714,
      16058, 45188, 18426, 20110, 13447, 4966, 47034, 46666, 12636, 33366, 11058, 6945, 19686, 32207,
      4465, 48548, 5905, 3974, 44506, 33960, 4385, 25904, 46655, 39893, 20591, 25894, 1775, 34977,
      49946, 47419, 21892, 11375, 23170, 46541, 3877, 5493, 19121, 10193, 22232, 28293, 8503, 48456,
      57, 49486, 12319, 19009, 36612, 26110, 29937, 37349, 35957, 17744, 36638, 13884, 43594, 11615,
      40236, 38054, 48120, 33163, 9913, 15448, 13357, 42596, 22240, 40688, 19955, 16073, 38947, 44514,
      3649, 17268, 10270, 23652, 49141, 35730, 16926, 9014, 12610, 26339, 4226, 1862, 4836, 1272,
      3906, 40185, 2562, 2838, 735, 38874, 22953, 17885, 23133, 9713, 11604, 32173, 9608, 36249,
      84, 5013, 43910, 20158, 45963, 11646, 8607, 28560, 34187, 48017, 2736, 49161, 44639, 10128,
      36721, 13343, 34347, 149, 23667, 9380, 38597, 24903, 13860, 553, 38710, 28267, 30870, 49693,
      40840, 48240, 29818, 44691, 21717, 46709, 33549, 35218, 40019, 37681, 20694, 15787, 356, 4587,
      36842, 39888, 32662, 43456, 47435, 44964, 45964, 35480, 9688, 18651, 2267, 35107, 18499, 20161,
      3879, 26933, 40396, 1745, 35698, 23451, 45669, 6964, 19851, 46320, 41084, 40900, 48428, 4973,
      26828, 43305, 44711, 20645, 27365, 49034, 4549, 47188, 48703, 30240, 7977, 12770, 32987, 29885,
      8207, 40159, 32801, 18802, 40231, 2488, 11603, 22196, 22120, 17489, 28576, 35143, 5064, 19088,
      44839, 30402, 19817, 33730, 45600, 42164, 48006, 218, 45986, 14902, 1314, 37391, 24984, 2655,
      49061, 41091, 20508, 12862, 40852, 22487, 4451, 35044, 46463, 5412, 44044, 48592, 32870, 17763,
      5180, 46743, 23430, 25110, 35385, 36247, 37541, 42734, 35394, 28323, 43393, 40659, 4099, 25649,
      43620, 7131, 20032, 21318, 6609, 27823, 7728, 7004, 4767, 25852, 5945, 5587, 43474, 18823,
      675, 38612, 30834, 5019, 39868, 24136, 21367, 31198, 34400, 23134, 39958, 45897, 34571, 38390,
      4334, 42704, 21933, 28370, 29593, 15396, 26908, 15904, 9453, 42461, 31461, 8673, 25436, 8460,
      27664, 17677, 668, 13939, 32880, 33977, 15227, 44545, 46794, 10130, 26320, 25427, 24284, 812,
      24040, 33249, 17843, 37078, 26953, 29939, 14681, 2101, 45524, 27709, 11403, 9421, 37950, 23237,
      48618, 32709, 41313, 9439, 5737, 24836, 37433, 40504, 11579, 6251, 4069, 5635, 19795, 11888,
      7983, 44823, 3369, 42475, 8649, 29679, 39938, 46210, 35502, 11724, 30323, 5320, 8441, 22226,
      45168, 24387, 44763, 17783, 11880, 11366, 11649, 49660, 26701, 23756, 28860, 41542, 42949, 3008,
      29537, 5866, 32235, 47477, 24314, 41678, 31520, 46208, 38574, 28976, 49535, 42437, 24467, 17074,
      39633, 36565, 39193, 6864, 42647, 36434, 49020, 46464, 20004, 8678, 38276, 48202, 19264, 10227,
      40793, 42197, 15301, 30920, 32740, 23971, 35213, 24117, 12707, 19578, 22251, 36779, 15925, 44469,
      33389, 22945, 18328, 30671, 16623, 2002, 8937, 46050, 28256, 41867, 21557, 28904, 15573, 38656,
      8843, 39225, 24655, 36217, 14636, 14097, 15860, 16203, 31757, 14426, 22421, 13848, 13711, 13502,
      14347, 21771, 40786, 17085, 45373, 41757, 6405, 10133, 30719, 22345, 14992, 9500, 27795, 15716,
      46426, 32198, 29940, 22017, 42253, 13191, 34286, 21084, 34200, 8056, 31715, 48106, 34880, 16641,
      44734, 32620, 16464, 36977, 41616, 335, 17399, 42550, 45602, 5768, 40458, 9567, 15642, 44137,
      14790, 31818, 43133, 34526, 22991, 31965, 21807, 45573, 4245, 12102, 15279, 28281, 14466, 1224,
      5143, 7709, 638, 40842, 21088, 12633, 10318, 34925, 38343, 7733, 23699, 27263, 39427, 26221,
      24075, 5130, 26509, 19974, 35408, 45583, 33991, 28957, 20368, 7447, 31156, 34276, 3381, 29606,
      28239, 35172, 28210, 23306, 16547, 37722, 6104, 10659, 19906, 40614, 27922, 32488, 12679, 29630,
      46093, 6799, 32557, 2480, 27863, 10830, 32511, 38616, 10515, 44566, 40620, 13982, 8973, 13838,
      1639, 11374, 10083, 29132, 35697, 43709, 11614, 13228, 14081, 38884, 32148, 12849, 22316, 7509,
      38485, 41098, 45356, 36108, 33492, 39251, 45059, 19661, 2465, 16777, 31771, 49780, 39455, 13613,
      30850, 38365, 34041, 28755, 49621, 20550, 8808, 48549, 5566, 22381, 7608, 47482, 20888, 24946,
      1437, 43276, 42355, 19754, 18081, 42255, 40706, 531, 10768, 33419, 40307, 29994, 22231, 33609,
      35304, 34718, 44840, 9812, 11054, 49464, 41994, 30123, 16263, 7034, 5802, 44534, 41524, 20741,
      33391, 49197, 3217, 16949, 175, 48909, 42360, 41664, 31111, 19314, 38996, 29435, 744, 39466,
      44164, 44007, 41239, 22801, 7703, 20271, 31698, 36315, 2570, 46252, 11845, 2519, 37222, 5058,
      46356, 23032, 1957, 47905, 29967, 24104, 12023, 7095, 15426, 15674, 38487, 26799, 1574, 32998,
      9541, 40044, 42248, 21455, 22511, 3223, 37003, 8457, 21313, 41259, 15512, 1927, 33294, 23334,
      24584, 4488, 11088, 31529, 26165, 44346, 8058, 10483, 1842, 38321, 5690, 30827, 38281, 1601,
      18511, 29862, 24659, 24179, 35598, 37943, 24337, 48306, 44615, 25090, 22720, 3244, 22327, 42710,
      29947, 18283, 43853, 49139, 33428, 26056, 3962, 21741, 849, 11818, 48780, 10022, 33195, 30219,
      16516, 14144, 24418, 1304, 3019, 39368, 14546, 29791, 1233, 11992, 45237, 43963, 32757, 24112,
      33931, 31579, 49631, 40598, 424, 31844, 16879, 13083, 28095, 40140, 4118, 27648, 809, 24274,
      28517, 47056, 39784, 15067, 45991, 19725, 11252, 33574, 38718, 40169, 1208, 11203, 23867, 41859,
      42243, 43561, 49828, 49787, 46912, 25977, 17098, 24332, 49754, 35097, 14244, 40148, 37673, 43858,
      1929, 38896, 36813, 14392, 49174, 22729, 49192, 41928, 11780, 25946, 38514, 27051, 18992, 24401,
      5701, 25564, 2216, 25073, 11320, 31063, 22966, 31270, 38573, 16314, 4568, 28844, 34811, 31470,
      18359, 6599, 1847, 881, 15615, 6063, 2188, 47480, 21481, 35761, 40739, 17330, 2781, 44845,
      34330, 42527, 45369, 18561, 2560, 16216, 49504, 28394, 9551, 530, 27265, 43625, 5612, 23022,
      40022, 40206, 18146, 44101, 9978, 18390, 47385, 12432, 11363, 39846, 2401, 44670, 20064, 9635,
      30301, 10549, 18764, 7256, 17124, 46744, 30780, 5928, 1833, 4753, 11482, 13691, 29649, 27547,
      4872, 49571, 47119, 1472, 48583, 19617, 36473, 11746, 35786, 6692, 19943, 30292, 44206, 25247,
      39726, 47540, 36042, 8662, 18840, 5314, 25347, 11657, 39517, 10459, 44009, 5560, 25773, 31797,
      18420, 12769, 8069, 5819, 13188, 37242, 12331, 11446, 5136, 8746, 36829, 9147, 21568, 1440,
      28110, 13714, 9696, 29068, 1206, 40879, 12473, 45325, 45582, 38017, 16127, 48958, 47782, 16648,
      11932, 9600, 39342, 12827, 27347, 12333, 27245, 43274, 13479, 49833, 27925, 46515, 27910, 23103,
      14724, 29562, 12271, 10197, 15807, 35766, 39855, 41749, 47901, 31070, 14187, 16070, 49562, 31088,
      16469, 40008, 32942, 34098, 14910, 24689, 16795, 45249, 4240, 5090, 25197, 30721, 6466, 30774,
      8936, 39426, 31207, 29460, 40364, 1315, 12718, 19672, 9223, 38267, 10352, 8074, 39931, 34123,
      15598, 41494, 36362, 43277, 30124, 28599, 41284, 23368, 13578, 14909, 1046, 17968, 23435, 26001,
      39767, 15964, 37397, 14941, 41008, 3138, 49110, 49462, 40665, 28496, 22110, 20286, 1772, 29775,
      33675, 14590, 23420, 35266, 36523, 1287, 3948, 49720, 2621, 13291, 24627, 24536, 14814, 40116,
      28428, 22984, 23682, 41631, 39617, 29917, 12017, 49461, 48260, 17544, 2238, 34182, 49594, 28609,
      1205, 4664, 46199, 39074, 24497, 40497, 32956, 48658, 27147, 43538, 25914, 47143, 37007, 33732,
      38749, 34067, 29700, 45891, 17246, 25131, 24101, 15737, 37360, 44148, 32874, 12964, 20854, 9999,
      31584, 36278, 3825, 4958, 29996, 2777, 24719, 34342, 49418, 9144, 46223, 44676, 14582, 8896,
      46255, 10011, 29834, 7683, 21500, 42492, 15070, 41102, 45604, 49755, 47438, 3054, 11686, 6917,
      40713, 885, 22713, 6288, 18599, 6409, 14007, 35563, 5274, 14529, 24403, 35722, 32520, 29020,
      35378, 35009, 48294, 5758, 12847, 19948, 24147, 12965, 41428, 749, 21965, 2355, 3437, 12344,
      23631, 20407, 39648, 12059, 48666, 8912, 17991, 47356, 3976, 12620, 31531, 12517, 6210, 13616,
      32810, 16881, 23459, 9347, 43011, 10667, 24634, 39518, 6027, 3699, 35567, 8652, 19997, 1329,
      32571, 14034, 45061, 18543, 21553, 42004, 39293, 5125, 1571, 35663, 39185, 15698, 29143, 27655,
      19549, 33124, 39049, 45050, 28544, 40983, 24038, 18458, 28325, 39956, 37640, 39735, 24718, 35189,
      38148, 34144, 33006, 29914, 34004, 20809, 46695, 11850, 8449, 14624, 44529, 15542, 2202, 3477,
      37187, 24671, 8265, 27546, 15628, 25843, 42186, 12049, 201, 21044, 40324, 695, 13776, 43794,
      1428, 16868, 37630, 8551, 3733, 41299, 32169, 28250, 41291, 14213, 13002, 38539, 29840, 31347,
      10719, 17691, 15264, 35356, 36811, 6019, 9891, 44592, 18417, 39624, 2450, 37758, 1504, 3768,
      40215, 28788, 6990, 30969, 41227, 21218, 11804, 22119, 32343, 36887, 41490, 35284, 18757, 11758,
      4129, 17872, 11021, 43776, 3527, 36569, 766, 41409, 17187, 49643, 44677, 34945, 24910, 15213,
      37803, 38247, 6294, 10870, 38653, 48855, 23589, 325, 38898, 14687, 23191, 7595, 3689, 36327,
      33555, 17445, 36190, 28864, 49287, 31413, 46922, 11186, 41, 5831, 22214, 24678, 10158, 34153,
      5108, 19597, 41261, 33950, 6595, 40830, 26274, 8229, 20249, 34677, 27830, 19307, 11612, 32118,
      32337, 29144, 19343, 45855, 23688, 25317, 46672, 27581, 44379, 21320, 40569, 9760, 30321, 26576,
      11233, 23230, 49975, 18929, 19112, 42837, 14328, 16485, 37601, 11995, 47539, 22768, 16913, 32102,
      8414, 10019, 32052, 19209, 14371, 40872, 37457, 11675, 22296, 49430, 18327, 10573, 2720, 31048,
      10162, 5955, 12912, 18563, 11728, 45073, 31734, 16189, 43997, 32273, 43400, 43532, 19612, 27855,
      33589, 38776, 24623, 44627, 47518, 36832, 37515, 31685, 6084, 15763, 35966, 11716, 36949, 6952,
      47324, 17251, 18831, 43660, 42896, 9690, 29358, 27246, 37918, 20804, 19117, 45068, 2844, 47568,
      13043, 36140, 36476, 48975, 35441, 35998, 49669, 34455, 11540, 11520, 48187, 24392, 42033, 19903,
      829, 28564, 7808, 20925, 18364, 21037, 185, 21280, 39977, 5546, 19562, 26076, 23390, 24737,
      21561, 22676, 24008, 28598, 22755, 4574, 43318, 14491, 48935, 14533, 49837, 3960, 34356, 29621,
      31022, 35718, 35373, 20962, 24083, 20905, 11621, 42059, 40798, 13141, 28429, 12189, 10392, 37143,
      12056, 26686, 44116, 393, 22148, 42097, 48236, 49881, 38555, 27182, 867, 24834, 11144, 433,
      34029, 47669, 27866, 16737, 14689, 8365, 47807, 604, 14048, 43723, 2774, 35671, 5029, 37021,
      46888, 31400, 25706, 9680, 21337, 47931, 3571, 8452, 24638, 23054, 19918, 18208, 47489, 9989,
      38298, 40086, 43601, 32306, 18500, 17423, 28526, 35821, 30166, 31326, 6185, 29154, 18041, 39687,
      21715, 25831, 36663, 3859, 15412, 3958, 20319, 10282, 24866, 30150, 41549, 540, 33774, 1749,
      25165, 36195, 45674, 7483, 44576, 26135, 10841, 42446, 6664, 13134, 48541, 10301, 37303, 38582,
      17171, 41273, 2313, 22307, 32561, 16265, 975, 23359, 29948, 14900, 12953, 35231, 22410, 5119,
      7818, 18140, 46556, 18008, 34739, 15346, 4948, 41069, 2632, 360, 30542, 29919, 30695, 19228,
      20126, 49575, 8550, 15793, 44196, 20415, 38350, 17525, 41985, 42380, 39562, 7039, 17111, 9373,
      33680, 47805, 3896, 28028, 5909, 15626, 20381, 123, 17789, 31829, 46060, 16770, 31444, 27008,
      21094, 36995, 14460, 10494, 11855, 46256, 6096, 1768, 48186, 10219, 44956, 42327, 47071, 1452,
      44250, 49936, 27871, 21283, 9942, 40651, 9092, 45834, 48165, 11961, 2806, 2681, 12927, 23358,
      48834, 34343, 27102, 42579, 3314, 23717, 43268, 16945, 12882, 10563, 20978, 8396, 49758, 28588,
      34960, 20497, 23084, 46584, 26447, 9292, 15773, 135, 6077, 24222, 12652, 28789, 11996, 5856,
      24336, 2944, 29837, 22446, 27944, 48698, 5465, 32122, 10224, 27470, 22696, 15941, 46450, 37255,
      40640, 12433, 26622, 3237, 26635, 23492, 48517, 44949, 31034, 34982, 17711, 43199, 35924, 13712,
      14574, 16747, 35921, 18913, 15105, 24522, 23565, 23033, 14410, 26847, 44492, 33838, 17461, 45900,
      36610, 12018, 45160, 22241, 12685, 6061, 11399, 21344, 49406, 11423, 31669, 45946, 18534, 49864,
      35688, 28521, 49623, 33495, 37674, 11486, 5887, 17917, 1517, 10297, 11971, 14538, 7177, 2380,
      1236, 49060, 33430, 34476, 28105, 42204, 39955, 8796, 28725, 571, 5404, 7765, 48089, 9133,
      47075, 23362, 13217, 25461, 23973, 38456, 24453, 41166, 42497, 36780, 31057, 22977, 49511, 31937,
      3724, 26134, 25, 41959, 46668, 22828, 21734, 18382, 24218, 1365, 23807, 16582, 47934, 3204,
      41501, 32864, 41817, 4442, 14094, 45015, 35445, 35206, 29465, 32147, 15237, 13346, 19350, 14391,
      2065, 43304, 13678, 25489, 1858, 5061, 32971, 18243, 16893, 21331, 26461, 4975, 17875, 7639,
      17415, 13437, 45149, 49163, 29224, 46937, 2792, 37393, 10897, 5207, 47966, 11299, 29030, 19081,
      12726, 26093, 23375, 4651, 14047, 25908, 37844, 15131, 16579, 29126, 6624, 42733, 30217, 40895,
      15817, 7712, 37929, 35320, 1017, 855, 41301, 15963, 40171, 9412, 5719, 17286, 49420, 6501,
      8192, 8633, 15104, 16897, 23743, 40333, 17986, 15759, 37368, 41905, 48090, 26887, 37076, 29346,
      19885, 26930, 22036, 8443, 23282, 19299, 43078, 33309, 10614, 21930, 3718, 5888, 42895, 33020,
      39755, 48491, 10114, 4412, 45300, 24848, 42223, 24886, 41225, 39789, 44658, 34647, 35900, 11184,
      8455, 25701, 40995, 15584, 18022, 17481, 28867, 13018, 40439, 37320, 44292, 26436, 2794, 22537,
      29471, 28355, 38605, 29737, 44210, 21184, 7719, 18867, 22481, 43676, 12897, 29120, 41387, 34994,
      38020, 3821, 17448, 21152, 12822, 33318, 7088, 29210, 9239, 41714, 32227, 31474, 47883, 12667,
      40054, 49449, 31927, 27762, 39303, 37436, 39672, 31112, 35015, 4309, 37490, 19290, 34320, 27551,
      25677, 2646, 12202, 45995, 20835, 26979, 37964, 24591, 32689, 6421, 25499, 20990, 14103, 40452,
      4661, 13513, 45352, 30153, 12578, 19674, 15604, 21157, 42108, 23136, 41772, 39634, 18791, 20098,
      31175, 47231, 41218, 12359, 3846, 22679, 13540, 35119, 9631, 16712, 20555, 37474, 26080, 15299,
      19402, 41318, 47163, 25269, 27668, 37670, 32734, 3261, 12526, 29848, 34795, 37128, 42634, 32804,
      41110, 37385, 40494, 3867, 28377, 27261, 20543, 6023, 42005, 42653, 44277, 15040, 11091, 42970,
      36782, 45216, 13472, 24804, 1602, 15062, 19717, 44062, 45824, 48919, 7591, 29659, 7506, 21262,
      19319, 48425, 24203, 40193, 37484, 32803, 22987, 9213, 42608, 31232, 29534, 32308, 22638, 8727,
      15749, 14932, 1535, 49077, 21524, 27715, 39067, 6307, 13803, 14028, 26297, 3652, 18813, 22724,
      45250, 48558, 3647, 33369, 32547, 3215, 16622, 6255, 47956, 10815, 35325, 9526, 26098, 48998,
      21147, 32514, 5714, 26420, 49002, 28003, 7313, 29341, 49030, 43903, 45561, 28237, 16525, 31059,
      27288, 47867, 4053, 43372, 48183, 43524, 20957, 25181, 39885, 47189, 5101, 28604, 46306, 49802,
      13901, 16903, 30086, 5924, 41024, 8430, 245, 29911, 5483, 5324, 39072, 2364, 4307, 47341,
      42724, 8800, 11731, 29590, 31745, 37091, 46494, 27982, 13145, 30035, 18797, 13811, 37013, 5277,
      24549, 707, 16047, 27681, 23585, 14527, 39777, 1578, 28672, 27235, 20181, 2524, 59, 11067,
      1419, 10597, 16151, 7260, 36646, 10769, 16321, 42220, 21903, 925, 1362, 29023, 40892, 46119,
      43141, 19980, 16717, 39011, 42421, 20147, 27234, 44768, 47586, 19270, 26843, 28505, 18254, 46297,
      3575, 17550, 22920, 28163, 22275, 25844, 46549, 33945, 30460, 2144, 2167, 17803, 49459, 30871,
      34035, 48009, 15058, 15354, 44480, 35887, 27929, 36136, 21200, 16327, 30422, 38976, 33999, 20498,
      2205, 43647, 37730, 44211, 39145, 25323, 30434, 16017, 29705, 10076, 41140, 45071, 45347, 22805,
      11943, 13520, 12766, 25947, 48059, 46803, 16973, 28516, 44475, 23044, 17589, 29042, 6677, 1479,
      12328, 31341, 561, 32271, 1522, 31618, 26346, 33631, 6446, 30138, 36739, 4290, 26340, 14351,
      28524, 32192, 35530, 22660, 28015, 12550, 22579, 19311, 33588, 26446, 23223, 34570, 4591, 13761,
      43832, 14530, 49599, 24926, 16970, 40417, 6621, 915, 972, 19427, 37325, 30972, 118, 10548,
      12801, 22881, 20656, 976, 38393, 6728, 39984, 17753, 2423, 4407, 1689, 3411, 3133, 1187,
      16944, 39253, 26127, 19083, 1144, 19803, 13635, 44702, 16383, 25137, 35263, 48712, 36485, 12587,
      36032, 46161, 23655, 49973, 46253, 37915, 33213, 39211, 22797, 46703, 4723, 15063, 9231, 26709,
      41837, 39597, 47975, 11526, 28553, 29152, 15692, 48330, 9361, 15855, 25402, 11200, 15218, 3717,
      31814, 17528, 46112, 42288, 21014, 20751, 1158, 26824, 20778, 33604, 35799, 39707, 39773, 13853,
      9494, 32742, 48730, 6331, 29004, 8456, 24122, 26488, 10948, 20266, 47448, 3920, 33247, 15820,
      29525, 1867, 3872, 46993, 11298, 21191, 15383, 30312, 3680, 31140, 15730, 46762, 32704, 20556,
      11651, 23987, 8506, 17424, 37501, 44520, 36800, 18936, 15405, 29400, 26605, 49839, 5318, 27966,
      43793, 34968, 16013, 2660, 48163, 36571, 4205, 41373, 25452, 44185, 19439, 27469, 37828, 21414,
      35215, 15844, 12565, 36640, 24794, 38510, 16509, 30986, 3728, 33269, 2966, 12132, 39527, 14809,
      32929, 41352, 30333, 14975, 14661, 24515, 32057, 29114, 743, 38052, 16439, 33106, 11400, 16434,
      13031, 807, 33546, 30702, 22290, 11702, 39803, 6516, 33410, 15495, 7290, 11307, 16515, 8041,
      21780, 13071, 5868, 32950, 25776, 39554, 7021, 20325, 20753, 15478, 95, 6279, 9796, 35327,
      12934, 29478, 33921, 7617, 33784, 49456, 16756, 21663, 16161, 1268, 39857, 5725, 17346, 36287,
      3094, 42894, 12952, 33726, 48749, 8988, 44735, 19940, 23192, 25871, 47676, 35078, 43663, 25647,
      15900, 23742, 11012, 30454, 6103, 41823, 32865, 35680, 49076, 37407, 14332, 41597, 16215, 46424,
      26825, 42352, 39016, 4874, 32672, 8828, 8810, 19005, 8645, 27842, 28971, 27033, 34313, 15891,
      1085, 35586, 38355, 36158, 36374, 33515, 30280, 14477, 3582, 43020, 33427, 25337, 15687, 3295,
      46783, 20785, 10502, 34741, 2403, 15548, 22093, 42180, 7300, 9070, 8126, 39759, 5835, 21830,
      18493, 17170, 9069, 4786, 36342, 19329, 27575, 410, 43222, 12091, 22933, 41220, 14230, 17606,
      41333, 18573, 41363, 14679, 46270, 2816, 24425, 13049, 16074, 48375, 34238, 41357, 24960, 32501,
      11443, 24257, 45281, 20793, 37144, 41671, 26481, 4585, 48679, 448, 22268, 43002, 14587, 39387,
      32787, 8977, 4417, 25118, 14418, 8965, 36878, 25423, 21408, 46987, 4041, 37154, 12741, 18038,
      38414, 30227, 23266, 30993, 26248, 37307, 25771, 19191, 39355, 10558, 19923, 23594, 10511, 12621,
      19436, 34272, 12715, 49759, 16319, 44938, 14024, 45687, 19215, 35674, 22916, 29342, 49970, 40876,
      16217, 42723, 4516, 44308, 18631, 10101, 11913, 22741, 1135, 33636, 34478, 34946, 41411, 33956,
      47092, 33218, 24717, 22875, 4714, 38680, 39511, 13846, 10790, 43920, 12415, 48336, 9909, 8788,
      19084, 26455, 32350, 9934, 47270, 32278, 39229, 24552, 31271, 27124, 41336, 7482, 22392, 11752,
      49972, 15776, 16129, 14066, 40912, 38264, 27678, 8092, 8251, 6306, 1948, 30332, 19133, 34906,
      5447, 6028, 42906, 31503, 2458, 48879, 24044, 33335, 47174, 31979, 36173, 40351, 21601, 22474,
      45493, 35068, 2415, 9463, 49347, 32435, 8861, 1733, 23830, 38229, 38451, 33074, 48319, 35753,
      49135, 10206, 21064, 17103, 4536, 9043, 18656, 18530, 17565, 13719, 6236, 14656, 47799, 45294,
      28115, 1543, 39985, 610, 7946, 5723, 6518, 4553, 5351, 43205, 38927, 643, 43864, 2161,
      3205, 44258, 39826, 28649, 5389, 20703, 7858, 25059, 5333, 29812, 13553, 8294, 41554, 43752,
      33987, 24533, 13132, 2321, 6545, 48783, 34614, 5088, 23007, 28478, 24967, 6270, 49653, 12543,
      41267, 16110, 30629, 10691, 35986, 21179, 37105, 42618, 34278, 46942, 29272, 20327, 29160, 40882,
      46822, 11659, 8401, 16097, 22749, 42754, 16744, 41878, 35243, 19294, 39048, 33395, 33145, 2199,
      39603, 45642, 22789, 21462, 7087, 22013, 15221, 4139, 11697, 13449, 10505, 12747, 48381, 7944,
      49370, 40960, 40513, 28383, 42259, 41815, 42105, 48022, 39239, 45198, 1069, 23011, 23140, 17906,
      41843, 44197, 25221, 42690, 43771, 47023, 18566, 41367, 13102, 30180, 13740, 43701, 41709, 12836,
      13183, 4172, 16008, 21921, 47237, 35463, 41966, 34133, 19134, 27021, 19759, 47935, 11142, 24916,
      34340, 34847, 25226, 11018, 18165, 17499, 22028, 34480, 9148, 32023, 31093, 40371, 20660, 38482,
      15829, 8235, 22282, 38570, 32799, 14965, 22165, 42794, 19059, 48570, 39529, 40394, 5442, 33096,
      1760, 40714, 37882, 23233, 26291, 15473, 44401, 14888, 22501, 11274, 19944, 11630, 44366, 23440,
      45684, 1159, 11782, 43109, 45557, 48405, 12295, 26356, 26392, 6622, 49966, 8064, 33500, 18836,
      32951, 28689, 4038, 4863, 34664, 4719, 7471, 18915, 46232, 26002, 20889, 3032, 34657, 32533,
      41462, 18, 5473, 26087, 39819, 43957, 2235, 30509, 22100, 2599, 29220, 36746, 31000, 45594,
      14136, 24682, 21540, 19298, 7702, 41904, 40132, 24287, 38181, 41464, 25439, 49842, 11406, 41179,
      40043, 16385, 48818, 6444, 7329, 25346, 22073, 1477, 44389, 47691, 47286, 26018, 10834, 20408,
      973, 38603, 10621, 7018, 41423, 11822, 48577, 36109, 30852, 18132, 45433, 42478, 30929, 32622,
      23069, 22854, 47232, 36647, 34777, 48452, 30526, 14204, 22609, 44356, 37022, 42127, 35032, 65,
      27220, 2315, 26078, 12078, 49120, 6170, 7877, 43593, 45705, 24752, 31, 24462, 4013, 40374,
      14694, 25271, 36552, 13785, 17231, 22850, 40101, 7093, 17404, 16553, 1533, 44444, 28094, 16867,
      34042, 8626, 15857, 17091, 2712, 20721, 43900, 49136, 38364, 46901, 29418, 8945, 19560, 15645,
      17613, 30066, 40767, 44390, 32372, 577, 29295, 42024, 26188, 35916, 6667, 42462, 4914, 13372,
      7899, 3947, 43643, 46591, 49283, 32153, 20653, 7529, 39718, 18958, 7661, 1624, 39640, 27782,
      30450, 49724, 39020, 37619, 10540, 28520, 42801, 27698, 31311, 3540, 25366, 9756, 8691, 17960,
      8075, 28414, 39845, 8527, 237, 49296, 34703, 43441, 34920, 16593, 47257, 34234, 43179, 49533,
      42523, 38868, 14593, 12752, 41109, 2112, 16080, 28491, 23740, 20035, 4390, 43149, 45759, 27596,
      14887, 3479, 18539, 7458, 42415, 32229, 14227, 10438, 42182, 45934, 19999, 2003, 45247, 27431,
      41304, 10242, 12072, 13213, 9136, 34802, 48122, 46044, 12264, 40309, 46982, 42775, 39729, 1156,
      37536, 9895, 34804, 6192, 41127, 2248, 8740, 29587, 5562, 21258, 42329, 22593, 15852, 16415,
      49645, 22429, 26277, 11876, 47065, 18538, 8287, 29604, 17341, 21151, 7670, 22452, 4731, 20702,
      994, 44941, 46726, 45295, 4600, 17454, 45384, 3817, 37569, 44083, 22127, 16816, 7658, 31432,
      33689, 24402, 26169, 23674, 11092, 41983, 26379, 31025, 38585, 40771, 26871, 46981, 31058, 31930,
      48690, 36680, 29870, 29766, 22545, 30030, 14991, 17379, 19772, 3310, 47417, 43218, 22961, 35104,
      21513, 12375, 23267, 8160, 26551, 49810, 20474, 28975, 11830, 14739, 22383, 5709, 47920, 1241,
      36568, 24691, 37645, 32595, 46728, 23373, 2565, 18882, 36752, 39651, 12920, 5502, 8182, 5995,
      47780, 26097, 29530, 27641, 9182, 34135, 37806, 32492, 33105, 1199, 12944, 47891, 9437, 35898,
      45785, 1692, 42131, 49369, 1709, 14451, 3708, 42751, 20247, 49555, 18265, 41292, 25187, 43530,
      4435, 42553, 40765, 48458, 14823, 28639, 23005, 43213, 36574, 17992, 39367, 34824, 39866, 33611,
      6345, 9013, 19399, 15658, 34225, 3151, 2988, 19724, 20974, 2689, 45609, 35193, 38160, 16952,
      32512, 114, 36147, 23860, 9529, 15409, 18864, 23618, 13892, 22592, 39614, 7023, 32186, 48726,
      29581, 30464, 21913, 11606, 30886, 40961, 2997, 37646, 18018, 31842, 25579, 47961, 12870, 9356,
      14800, 31054, 24061, 15098, 599, 15969, 40099, 20055, 40069, 552, 31611, 43735, 5234, 34209,
      31942, 13264, 35188, 11193, 15095, 38554, 45139, 32048, 31627, 25997, 26486, 12531, 9888, 6144,
      838, 39787, 40383, 27020, 16533, 5243, 13432, 36039, 415, 47450, 10418, 15948, 23258, 39483,
      26602, 32878, 6486, 2162, 16687, 13872, 8611, 11385, 8330, 8431, 31062, 7655, 39120, 1432,
      26604, 10615, 34894, 33058, 38673, 44867, 26099, 20299, 29607, 6510, 43980, 8907, 37109, 4572,
      11160, 5177, 27262, 10466, 9977, 1963, 41748, 42202, 5446, 17469, 6674, 48847, 31545, 11459,
      29382, 21703, 29602, 19784, 8955, 27397, 4271, 41599, 17038, 29955, 48489, 1702, 34130, 18229,
      15399, 38465, 42009, 13219, 8703, 25513, 9554, 36997, 9454, 42695, 33227, 2212, 24730, 17694,
      8104, 2964, 36657, 28663, 10469, 27541, 47630, 14448, 4089, 40568, 9922, 37824, 24248, 45901,
      14010, 31693, 37357, 10294, 43260, 16506, 7675, 16444, 37720, 33673, 2556, 5962, 24, 2451,
      26322, 26626, 41061, 48820, 22378, 27758, 43827, 49279, 9131, 20200, 13162, 36010, 13110, 6141,
      10040, 19852, 47989, 8882, 1389, 13818, 29251, 18545, 7307, 20301, 33601, 44888, 47276, 38937,
      38190, 42304, 46999, 16222, 12174, 39731, 300, 39195, 17133, 32137, 45507, 25888, 41062, 17762,
      21290, 24546, 6781, 17578, 11811, 18713, 35478, 18096, 22246, 14906, 6751, 22064, 28947, 46471,
      29091, 44729, 41537, 3490, 35452, 3078, 45800, 36065, 3209, 27933, 17637, 28199, 7466, 18947,
      30003, 35471, 17592, 25862, 439, 20276, 30173, 47185, 10316, 30351, 32553, 21977, 6891, 28914,
      42136, 33445, 12190, 16803, 6774, 44883, 68, 13175, 687, 31012, 24457, 41298, 49458, 16192,
      42731, 32279, 15440, 30353, 7312, 19186, 17057, 27924, 4279, 18803, 20030, 10864, 15378, 11582,
      49812, 6497, 32638, 34978, 22994, 1096, 1982, 14089, 13187, 4310, 46650, 29753, 31874, 46015,
      35424, 7966, 12215, 11624, 37597, 16857, 6798, 9140, 15786, 37896, 43888, 13821, 21285, 10826,
      14760, 28634, 28260, 33403, 28037, 17361, 4803, 27781, 40290, 36542, 44743, 47196, 34377, 23119,
      4701, 47000, 8149, 25437, 33643, 42844, 46998, 48326, 27536, 11853, 18637, 36765, 34167, 32000,
      34507, 17283, 48898, 10148, 41380, 7376, 8280, 3801, 37838, 40993, 42879, 27670, 49492, 5614,
      34191, 28196, 38315, 18031, 32984, 25898, 31776, 10049, 16677, 31804, 33451, 49716, 17225, 37239,
      36458, 16722, 17557, 22544, 34475, 35827, 6423, 19875, 15508, 36583, 39352, 7547, 44567, 20749,
      3730, 46312, 24969, 3458, 23281, 13060, 49957, 45421, 12227, 39751, 39421, 48154, 26571, 47016,
      45519, 46598, 15244, 23425, 48581, 5896, 3520, 47985, 25996, 42882, 49742, 9906, 40985, 42643,
      46816, 29039, 28774, 28721, 1488, 14423, 35576, 18011, 11140, 28512, 18429, 49164, 20332, 31299,
      24140, 41325, 43860, 8187, 4779, 44153, 31321, 30941, 13010, 16302, 27607, 11287, 16960, 41956,
      25629, 3667, 25233, 43654, 46874, 44033, 47653, 37655, 19379, 1646, 1744, 45029, 17879, 40073,
      40283, 2177, 12222, 1835, 19636, 17063, 48239, 24245, 22976, 48172, 35952, 21864, 38752, 32465,
      35787, 34611, 33951, 44707, 2438, 34289, 35640, 26236, 6203, 817, 17785, 19061, 23174, 23089,
      11063, 32988, 2392, 32534, 48175, 13037, 14468, 4373, 14078, 41831, 32, 5728, 48049, 8100,
      3576, 41164, 41364, 18877, 47736, 31254, 40013, 43959, 7717, 19180, 20995, 6030, 43139, 33771,
      72, 9594, 1461, 40536, 49830, 41646, 19369, 45147, 13408, 10340, 20257, 11369, 1325, 41551,
      44765, 41212, 18632, 4453, 33721, 25839, 35584, 27321, 43956, 8361, 13138, 31608, 2500, 45140,
      2793, 25760, 38222, 40814, 31261, 30320, 46460, 40281, 12137, 19004, 8089, 16283, 5797, 28402,
      38746, 35728, 10372, 43255, 18021, 12717, 46670, 1821, 21017, 35961, 21150, 8774, 22026, 38753,
      37160, 40471, 24558, 3497, 19752, 19109, 8956, 28288, 22505, 9326, 32603, 41341, 27793, 21986,
      33035, 10104, 6220, 21470, 26710, 757, 7806, 14797, 42114, 10105, 15655, 9622, 18993, 45534,
      6338, 45918, 6905, 45227, 11071, 32011, 42035, 10249, 34270, 24153, 28401, 44548, 15939, 27839,
      27330, 12670, 3572, 41391, 48401, 35902, 36899, 39176, 33930, 13570, 37326, 10620, 29056, 27341,
      4487, 9262, 43863, 49634, 13446, 21464, 28502, 46737, 32481, 30559, 711, 30511, 17108, 34729,
      30706, 1865, 9310, 11774, 6733, 19818, 47123, 20960, 4462, 44539, 38532, 921, 47992, 4328,
      33296, 5059, 49521, 7073, 47974, 37409, 40457, 38329, 580, 9924, 11354, 30469, 38971, 27022,
      9923, 14793, 10144, 46216, 22027, 13235, 42640, 23641, 31384, 25875, 33857, 32202, 32022, 14967,
      35006, 3672, 26196, 20776, 36170, 4882, 24616, 637, 12704, 29404, 20606, 30132, 8736, 16955,
      20122, 46866, 46570, 1258, 47467, 16240, 22899, 18374, 48970, 5063, 25158, 27276, 44473, 8465,
      41162, 37277, 5900, 11776, 7562, 40636, 26202, 40887, 46883, 48097, 42342, 2040, 26767, 3171,
      48545, 25407, 45302, 31783, 47604, 33229, 41276, 13992, 25381, 40618, 26534, 37781, 37543, 5846,
      31353, 44988, 40963, 10910, 15643, 9835, 38436, 34288, 3887, 1460, 5087, 41263, 32508, 6652,
      43217, 44705, 14753, 39902, 21141, 29423, 1694, 14959, 49129, 26836, 17332, 25213, 6544, 33803,
      4005, 46740, 49280, 34603, 2675, 7935, 15094, 16556, 45037, 7770, 18621, 34245, 47344, 37427,
      22951, 32967, 21759, 7832, 4353, 4930, 8423, 5721, 18811, 47399, 38822, 26839, 38564, 15921,
      27322, 49360, 29099, 14312, 17966, 5009, 11967, 33129, 45742, 12170, 24790, 14850, 24992, 5839,
      47943, 45497, 37610, 22552, 6490, 15293, 2416, 33278, 43952, 37321, 27725, 26835, 21961, 18696,
      4517, 20752, 23531, 42698, 44135, 36872, 18436, 21511, 43443, 1438, 24219, 33244, 15915, 15090,
      36595, 39277, 25813, 8103, 30335, 21226, 35011, 40925, 39007, 23603, 38096, 22124, 21866, 4094,
      33049, 43551, 23168, 16588, 26766, 28775, 38236, 42851, 26298, 44422, 3531, 49809, 17465, 17913,
      41746, 15580, 30604, 46243, 9462, 35917, 35569, 35439, 5111, 5340, 24254, 18116, 14762, 6930,
      46562, 7139, 6973, 30241, 43083, 14503, 48101, 39911, 24416, 32296, 12794, 20278, 24788, 29816,
      33961, 1354, 14038, 47927, 4934, 8046, 47441, 17842, 43499, 27247, 9684, 26023, 12345, 13508,
      11135, 44252, 49884, 15110, 1567, 24305, 36319, 35246, 15586, 31179, 34274, 11266, 7288, 16983,
      23506, 24991, 31192, 27930, 5999, 15766, 37553, 11712, 7216, 31789, 49797, 42153, 9659, 25302,
      5792, 47082, 2301, 12643, 27574, 27035, 47703, 9442, 42666, 49058, 16763, 44129, 45737, 20334,
      27199, 37411, 18779, 32399, 4124, 46580, 22536, 22435, 20893, 9119, 21294, 44810, 8428, 15026,
      14985, 17923, 14619, 26809, 47713, 20766, 16783, 27240, 33934, 30290, 23439, 47223, 13378, 39354,
      2503, 24443, 11817, 42052, 9770, 25967, 35873, 12252, 44316, 11038, 29433, 25992, 14461, 37267,
      17870, 12542, 42340, 13679, 43546, 26468, 28642, 33995, 14785, 45400, 9869, 7541, 9203, 21755,
      46396, 36689, 20891, 31246, 23663, 2422, 9537, 49372, 467, 1688, 14059, 33849, 47494, 3312,
      40606, 42762, 44620, 49817, 19428, 11352, 42441, 27120, 13856, 7782, 8623, 27053, 29233, 1169,
      693, 16791, 24809, 14309, 27106, 38775, 43503, 48084, 10674, 31955, 46222, 39468, 47930, 16076,
      28465, 46624, 22298, 31808, 47318, 4354, 25321, 16561, 8195, 15344, 34757, 14316, 49888, 10187,
      46849, 413, 295, 20199, 5828, 31774, 49203, 30569, 16119, 39360, 46254, 43051, 27112, 3892,
      2134, 26272, 5244, 39889, 36161, 35729, 36338, 13106, 8576, 28859, 5885, 39743, 12382, 44699,
      22769, 42, 5376, 11493, 19954, 24033, 43076, 8289, 4049, 36480, 16223, 25371, 49400, 46113,
      45154, 43823, 5811, 33261, 47109, 20742, 37864, 43289, 15840, 45197, 420, 38373, 49385, 7958,
      46477, 2474, 1217, 20887, 28317, 44418, 20526, 20682, 10947, 41766, 32697, 35571, 9197, 2640,
      16546, 26301, 43444, 45172, 8764, 38349, 87, 27768, 36213, 11565, 22141, 14253, 18319, 30884,
      10654, 37993, 27437, 15060, 30819, 25443, 31157, 18732, 38005, 16628, 10015, 38072, 32313, 43587,
      27601, 36840, 28817, 2483, 2938, 37802, 25223, 48167, 47865, 48625, 36984, 10760, 27244, 10909,
      32627, 17710, 19693, 42151, 22799, 8349, 14951, 37250, 12872, 48332, 27478, 8654, 47925, 31361,
      23102, 39244, 44065, 7621, 31274, 40020, 49814, 14811, 45021, 4074, 36578, 39706, 43317, 46133,
      5918, 4356, 27312, 381, 33802, 34590, 46047, 48209, 34734, 2381, 44849, 15918, 15677, 1648,
      33640, 41429, 44288, 35443, 11417, 38666, 16494, 5743, 35070, 32121, 6678, 6097, 40470, 40551,
      5305, 25433, 41312, 5617, 11152, 26445, 19202, 43153, 24966, 13510, 31239, 17916, 31177, 27881,
      12396, 6448, 9734, 24030, 49656, 21305, 1979, 11255, 13155, 11848, 33375, 46428, 10847, 16411,
      16855, 15437, 35574, 17409, 445, 3323, 38989, 19667, 6959, 26693, 17230, 33061, 27780, 30300,
      5849, 2922, 35404, 17603, 12247, 4527, 32276, 27394, 12552, 27979, 41059, 13079, 33698, 29639,
      33831, 26022, 21941, 46588, 999, 42716, 39716, 8444, 30641, 23354, 40261, 10895, 22970, 41067,
      30996, 38317, 23694, 6846, 37616, 24400, 20069, 49083, 14727, 25575, 27264, 45804, 41099, 131,
      31202, 43343, 23557, 2728, 15552, 17238, 13195, 26570, 37340, 22184, 33222, 9729, 36369, 14161,
      9710, 46811, 38893, 42032, 19266, 24359, 29946, 23371, 8826, 10939, 34391, 17970, 29466, 39177,
      28395, 18506, 24511, 30608, 5830, 32586, 6507, 16500, 46674, 46994, 42177, 22217, 9883, 32965,
      31835, 42711, 25645, 2066, 1071, 7076, 23731, 30493, 39927, 43921, 41443, 21624, 41864, 9958,
      23828, 21614, 20881, 19844, 38086, 3878, 24617, 29784, 40195, 16249, 17507, 13768, 2223, 35935,
      31282, 79, 41029, 41923, 10777, 26408, 4626, 33315, 38027, 16083, 3372, 28707, 11985, 26597,
      31275, 422, 23611, 20762, 34252, 44089, 6303, 38149, 20328, 26807, 46283, 45316, 1151, 1556,
      33677, 22097, 33792, 46840, 9278, 19377, 15076, 44554, 4166, 26578, 47394, 16786, 34985, 42169,
      29355, 15535, 39689, 23117, 27973, 21458, 34165, 9297, 39973, 44094, 16024, 28668, 24265, 5272,
      41018, 34803, 12939, 30945, 28688, 10862, 42408, 3405, 13181, 25412, 13042, 34325, 32608, 43669,
      15007, 11914, 24182, 7749, 41936, 41130, 16543, 2470, 7163, 43548, 7014, 8951, 4743, 7101,
      13509, 26104, 17705, 10961, 45959, 35578, 9325, 25493, 46606, 39494, 12876, 40629, 24295, 20105,
      40340, 12523, 25972, 13809, 4154, 17219, 3898, 19521, 10052, 26315, 41274, 24232, 16708, 44027,
      49243, 22836, 45509, 4192, 49721, 42513, 891, 26802, 9515, 11301, 20577, 17216, 48061, 13603,
      16771, 25614, 1358, 5131, 46310, 41700, 42689, 28140, 45434, 21078, 20830, 449, 5364, 18857,
      4539, 44269, 19472, 38800, 40442, 20329, 37185, 41366, 3376, 9636, 14234, 31941, 2753, 28950,
      49350, 26897, 11134, 19897, 1910, 19631, 15077, 19823, 12028, 1663, 24369, 46447, 14297, 11377,
      33474, 7735, 24198, 39807, 28792, 3742, 44635, 12084, 44978, 6092, 21661, 39154, 29135, 21552,
      3090, 20709, 40380, 2506, 17604, 18089, 15196, 21815, 15436, 25052, 40270, 45829, 20967, 47952,
      45076, 34969, 11304, 13562, 10025, 47004, 37107, 1112, 16937, 5112, 46262, 10486, 9352, 2945,
      9458, 48075, 11328, 30211, 46401, 40182, 35366, 14548, 41353, 27868, 18369, 44543, 13423, 39412,
      29269, 41920, 9368, 2872, 35746, 37721, 21814, 45727, 45696, 6349, 38846, 44958, 18815, 16130,
      25319, 21554, 36101, 25367, 37666, 46718, 33394, 39413, 20115, 19332, 4441, 19064, 13300, 19450,
      46753, 47996, 6729, 45806, 44920, 20270, 40773, 36989, 29485, 2699, 22300, 5458, 14082, 32993,
      8301, 22791, 17886, 10321, 45530, 19178, 5983, 27015, 14726, 31578, 7413, 16143, 32879, 27260,
      15285, 39151, 5380, 21863, 29997, 19410, 39435, 14923, 18225, 3484, 11408, 39926, 3415, 40143,
      35915, 169, 3034, 23560, 34479, 31681, 29481, 40315, 48361, 44133, 41660, 38046, 37738, 11447,
      27410, 18839, 21192, 11145, 33958, 29851, 47572, 25358, 8709, 28913, 45334, 39327, 9483, 32047,
      22568, 7048, 25688, 9754, 14937, 20236, 46928, 49552, 42171, 5171, 11008, 30885, 18032, 36496,
      7874, 19074, 17651, 792, 25664, 39039, 6827, 27071, 24357, 1933, 27277, 17584, 3669, 1333,
      1244, 31236, 1776, 38932, 4629, 24893, 25293, 26667, 29858, 23684, 36044, 33149, 7319, 38223,
      48308, 9868, 38039, 477, 13457, 9819, 34813, 16057, 28014, 49671, 23999, 3824, 8198, 8039,
      21615, 26638, 43938, 47919, 46815, 30085, 41178, 3569, 36339, 9950, 22699, 11075, 43297, 888,
      7649, 35974, 7551, 46029, 28896, 47478, 31300, 12417, 3143, 35845, 3325, 6283, 40336, 21655,
      18065, 15667, 36651, 33326, 35341, 44754, 31558, 1854, 23693, 49766, 46501, 46642, 36826, 4333,
      12930, 4601, 12813, 45902, 45464, 18630, 11945, 33311, 31792, 48277, 37445, 49696, 10819, 48338,
      16919, 10607, 12455, 7084, 26472, 823, 17580, 41569, 17328, 25397, 37923, 38796, 22065, 13487,
      30029, 16782, 17661, 32089, 13003, 34090, 605, 48339, 9217, 3870, 17635, 6577, 34460, 34389,
      1264, 29559, 3024, 36482, 20615, 32795, 42227, 25733, 4366, 3476, 6376, 14999, 24355, 18201,
      33683, 14248, 6932, 28963, 41233, 44464, 45790, 48457, 48412, 41562, 35823, 19010, 19322, 25063,
      34604, 34538, 19629, 42139, 42555, 48603, 25041, 17536, 38761, 47823, 47425, 20287, 28936, 26547,
      18518, 20739, 45283, 40210, 7622, 42590, 13448, 19952, 41600, 23461, 45387, 16512, 12873, 31286,
      40800, 16289, 43073, 12282, 5717, 38618, 16081, 2669, 30566, 20113, 27977, 47768, 46509, 4838,
      45442, 6125, 27256, 32020, 19691, 20748, 32259, 26804, 5151, 47553, 41152, 16775, 37998, 38684,
      16202, 35091, 41481, 47052, 46431, 34125, 19571, 44450, 3487, 6732, 47680, 38667, 4073, 32407,
      44127, 24832, 28704, 6242, 45043, 5833, 28984, 37690, 41058, 22437, 37671, 12775, 2846, 31856,
      3331, 37033, 9605, 2783, 5615, 49365, 24085, 48030, 21760, 29692, 25602, 49713, 37555, 48119,
      8598, 38606, 26190, 20614, 7019, 43106, 15839, 45865, 15340, 6452, 32818, 31758, 1579, 23653,
      19352, 32632, 14795, 36772, 15544, 45185, 25061, 17788, 40685, 20917, 19514, 37439, 45933, 40981,
      18075, 29814, 28223, 49346, 41410, 41407, 658, 47639, 24619, 40282, 35765, 43288, 20396, 28558,
      34316, 19050, 20114, 23010, 49952, 42650, 31369, 40053, 41893, 14569, 5943, 22310, 48392, 6094,
      43067, 41388, 18212, 15380, 32974, 45629, 21883, 46173, 31217, 44370, 38028, 4081, 44042, 42819,
      44190, 49538, 8464, 48795, 10952, 22555, 25038, 41248, 30023, 42250, 36973, 35313, 45844, 21803,
      39364, 36206, 17504, 24450, 11796, 30684, 24852, 14962, 34223, 19575, 40612, 37369, 9050, 39739,
      1222, 5902, 36399, 11230, 8766, 2154, 41435, 7259, 18682, 27744, 43629, 37358, 45981, 27444,
      37257, 16496, 13383, 21551, 30162, 34321, 5691, 26108, 26290, 12442, 27409, 205, 46511, 24642,
      9983, 35114, 3538, 958, 46859, 15923, 16689, 31445, 39883, 43759, 5518, 45533, 6800, 25622,
      36341, 16762, 13317, 35316, 23758, 8109, 35064, 2339, 29372, 12401, 37502, 9332, 46086, 28794,
      14364, 48839, 8117, 31415, 20429, 43883, 45246, 8167, 32600, 12089, 8066, 45011, 26240, 24437,
      1476, 47137, 11628, 13105, 15162, 33898, 50, 19984, 49962, 29379, 38113, 27028, 20782, 23797,
      31449, 46905, 8916, 21142, 40233, 27381, 8689, 33855, 44865, 20501, 21788, 9218, 26694, 10977,
      43012, 25099, 18258, 12631, 46448, 25823, 9012, 4260, 5027, 40724, 20193, 14620, 15993, 37983,
      37944, 9360, 39331, 34715, 29024, 13646, 9157, 1223, 3625, 3360, 34113, 15365, 37225, 43987,
      17314, 23636, 23031, 16910, 11201, 16146, 14305, 982, 5023, 24930, 39334, 24507, 4752, 49472,
      41041, 25282, 26040, 19947, 44117, 31676, 21849, 15231, 21242, 414, 24133, 4671, 46963, 48060,
      16433, 14242, 42872, 28925, 46503, 44408, 23055, 36988, 9586, 8411, 33337, 14919, 2860, 23485,
      40184, 12321, 38681, 40578, 28274, 11643, 33801, 9338, 19920, 45264, 26245, 7660, 36122, 18991,
      14498, 5948, 37339, 44466, 9543, 10349, 40557, 30083, 44188, 30847, 41860, 22135, 43729, 33712,
      42779, 1989, 35682, 21653, 13212, 48889, 2439, 20461, 31170, 19763, 777, 27358, 8172, 30808,
      31410, 11409, 3934, 45450, 18423, 18744, 10731, 26521, 34117, 32063, 48865, 8657, 31665, 5015,
      17684, 23053, 8799, 20359, 41630, 42988, 33193, 47708, 2452, 7398, 11479, 4318, 3364, 27946,
      36678, 48451, 24159, 40877, 29767, 33490, 9445, 29476, 35624, 32256, 19605, 15907, 16361, 38973,
      3061, 6123, 46033, 9623, 34358, 11251, 21415, 38758, 28155, 23896, 31317, 17927, 45125, 13442,
      43060, 21269, 31885, 12176, 47594, 31719, 44388, 24067, 21506, 6015, 21106, 6647, 36402, 40292,
      28645, 27729, 17401, 30609, 6590, 28830, 21170, 10140, 9602, 12919, 3975, 33887, 38702, 23733,
      43057, 9179, 30856, 47666, 36706, 9780, 16025, 1178, 48439, 28766, 35431, 36906, 26352, 42466,
      5837, 17829, 7108, 42623, 33053, 24371, 40160, 38354, 24500, 17852, 38369, 29778, 46825, 46142,
      3048, 700, 41173, 29810, 26439, 31478, 2067, 44550, 16012, 41564, 17676, 22277, 5919, 17540,
      47378, 40968, 4691, 3283, 23550, 2919, 45260, 17068, 43595, 11084, 22735, 34910, 39847, 27702,
      21021, 17388, 23139, 8954, 22354, 5230, 44054, 20405, 30723, 10934, 30804, 22863, 23412, 39070,
      36001, 46497, 42376, 9495, 7593, 18866, 25532, 7082, 1373, 37071, 33194, 19435, 45706, 339,
      42886, 29429, 41217, 29473, 33491, 8833, 10978, 38271, 27549, 129, 24977, 33301, 5350, 49245,
      4789, 32398, 3194, 31016, 26243, 17169, 44249, 14396, 38477, 13149, 34003, 41507, 29394, 25600,
      16665, 2502, 22869, 32750, 9820, 33922, 9457, 33443, 19, 38038, 35806, 23729, 1643, 16277,
      47117, 19987, 15990, 2827, 24942, 16128, 32158, 18640, 13068, 30486, 31107, 7115, 27525, 48580,
      42528, 3800, 6900, 34786, 24343, 7894, 31739, 11273, 44067, 24890, 1983, 49340, 10348, 25656,
      8849, 48675, 33519, 10273, 36556, 40275, 29515, 37434, 12835, 22539, 36497, 23108, 39284, 8594,
      11844, 42270, 22842, 12864, 31862, 47214, 32815, 14718, 38689, 15784, 26520, 29488, 19673, 49224,
      22343, 14767, 21139, 6499, 42782, 8752, 21207, 30657, 2446, 49644, 35296, 45720, 48533, 43511,
      33556, 37893, 28357, 11123, 17597, 19929, 7160, 18883, 8098, 10108, 25348, 15636, 37540, 32743,
      12606, 7127, 17422, 24315, 1735, 35785, 18939, 46633, 14952, 7389, 44634, 43174, 39831, 47497,
      13368, 26720, 45218, 43428, 33736, 8548, 40919, 17338, 18079, 45732, 43029, 17978, 28832, 39322,
      28695, 10872, 46226, 17426, 41171, 41670, 34719, 1783, 32830, 38630, 34661, 36281, 31795, 5462,
      5852, 16308, 3665, 45746, 35515, 46408, 2271, 28949, 15873, 45626, 49789, 8967, 47525, 24657,
      37169, 37542, 14012, 46564, 23908, 26141, 34462, 29190, 12393, 3449, 5892, 39271, 43500, 41116,
      21587, 16225, 7141, 20910, 17934, 33181, 31066, 25028, 15691, 14862, 41310, 12777, 45691, 7796,
      45769, 20681, 26090, 36328, 41223, 21705, 36604, 17907, 35535, 36189, 34682, 43741, 44861, 49811,
      2118, 19981, 14071, 1130, 39125, 17800, 22233, 17945, 5397, 11719, 5441, 32046, 31040, 11723,
      24668, 27571, 22003, 47872, 5620, 31952, 37652, 15064, 1238, 6659, 6109, 40135, 36107, 15583,
      41656, 41156, 25534, 41628, 38045, 12416, 36681, 6967, 35456, 37048, 41623, 12303, 16457, 15303,
      8001, 22032, 6076, 39732, 27949, 21325, 38571, 9560, 32628, 6243, 15324, 42297, 27992, 10960,
      40847, 5616, 30011, 30078, 45673, 13495, 24512, 37363, 2749, 6105, 27185, 24119, 2802, 37115,
      42268, 42708, 14878, 21107, 25906, 21471, 36934, 17654, 1104, 35300, 21236, 26267, 31748, 26204,
      38503, 15015, 24298, 44128, 37558, 33700, 10404, 42578, 49886, 14333, 34975, 41937, 30284, 15600,
      42225, 23216, 46789, 25784, 32406, 37163, 25666, 19504, 38778, 2674, 36150, 21383, 47746, 27190,
      46637, 14834, 44224, 2636, 58, 33241, 38972, 32311, 39940, 46865, 15333, 39669, 21747, 12559,
      9740, 46251, 47789, 1293, 21873, 16373, 31241, 39497, 35161, 5166, 22721, 14030, 36819, 43845,
      33050, 25333, 39513, 15494, 25157, 5279, 44885, 40803, 33087, 49489, 5250, 17044, 18001, 16011,
      7017, 14980, 26504, 11330, 27803, 32573, 1002, 13349, 26234, 30273, 47308, 39340, 10145, 9917,
      42852, 35615, 14323, 44310, 38621, 9047, 42713, 4682, 11386, 5933, 2953, 44018, 30025, 23340,
      47213, 26886, 16285, 8291, 28213, 30848, 21053, 23843, 27041, 37814, 23118, 26418, 8129, 653,
      37037, 36622, 21009, 16148, 36759, 24798, 3545, 14096, 17097, 38309, 41208, 10473, 22516, 2821,
      18405, 14088, 27188, 2164, 5280, 18940, 38916, 28183, 28029, 19728, 39495, 36754, 32103, 17137,
      2163, 43591, 1250, 10918, 8818, 40339, 4983, 32977, 16139, 28330, 21872, 48793, 40490, 3656,
      1561, 22293, 41699, 31130, 5091, 42212, 49099, 6966, 39854, 26761, 25277, 48093, 21314, 36352,
      37550, 13385, 16632, 45055, 3999, 39524, 29610, 37986, 49380, 36994, 13601, 2589, 49625, 6298,
      13227, 47019, 42018, 4721, 16066, 458, 12767, 2555, 29442, 43681, 49569, 11089, 21950, 4389,
      15489, 2553, 32150, 20223, 10120, 32490, 9864, 44313, 3857, 46970, 24125, 19861, 1010, 5363,
      1505, 45341, 24952, 22695, 42103, 37526, 934, 19283, 38268, 43766, 32277, 23581, 49105, 34111,
      24935, 33542, 42493, 17013, 14860, 25535, 3086, 19338, 30340, 32486, 10246, 32708, 22981, 43960,
      23100, 17748, 30995, 28894, 40212, 2504, 31828, 21148, 40533, 8389, 25744, 24970, 43693, 20099,
      28184, 35308, 23088, 16560, 23659, 31147, 2234, 12355, 21536, 38013, 43035, 36807, 43256, 40238,
      24883, 5769, 19701, 20547, 35788, 22068, 20130, 26255, 10666, 1327, 6613, 24180, 30635, 3276,
      37336, 15720, 8083, 26675, 500, 39437, 2335, 39300, 42684, 11465, 9886, 5475, 12925, 16652,
      518, 32151, 7159, 36846, 6360, 43638, 26583, 2358, 22407, 31280, 6654, 46582, 19843, 45062,
      4965, 39010, 48228, 17594, 11371, 13073, 33853, 8495, 6218, 25236, 40177, 33143, 41425, 49877,
      15634, 1769, 26283, 21260, 16137, 47485, 7626, 47856, 35783, 1499, 46259, 27835, 46095, 21264,
      21302, 33944, 31423, 45625, 40334, 37082, 28500, 37509, 34593, 39205, 15648, 160, 29178, 22061,
      22150, 26563, 2995, 28368, 35681, 33166, 34787, 46465, 27371, 29974, 40247, 44180, 20455, 10306,
      12943, 24723, 14877, 40890, 40229, 46855, 27799, 36974, 15903, 25469, 39942, 47617, 44149, 36359,
      32780, 30289, 9907, 366, 31087, 18910, 37913, 42789, 38489, 5203, 28658, 41848, 45372, 31495,
      5095, 18072, 13708, 44613, 20998, 12125, 23533, 37728, 2665, 45655, 16925, 40838, 31253, 30694,
      10215, 164, 37880, 1852, 43966, 47423, 16120, 10663, 7862, 4787, 23471, 16638, 26925, 36345,
      25878, 4474, 8261, 10611, 12279, 12572, 35460, 33701, 4355, 28887, 41522, 11687, 24283, 47315,
      36508, 16238, 15263, 22315, 44442, 15554, 11066, 8262, 33805, 21859, 27280, 22380, 36172, 4415,
      3247, 48924, 15136, 43531, 19684, 17336, 36385, 41647, 5000, 40462, 38092, 23915, 47377, 37263,
      43779, 28413, 27273, 26862, 13778, 8685, 49872, 14990, 9039, 13636, 16208, 23035, 14609, 11170,
      48110, 21831, 42094, 28842, 6506, 43490, 8366, 25909, 23232, 17096, 45364, 3936, 10176, 2804,
      8043, 12703, 3046, 33959, 41484, 7077, 22459, 28570, 17335, 8728, 43635, 14801, 32076, 43913,
      33236, 13012, 26558, 22483, 15846, 4257, 45491, 47093, 29146, 1310, 44528, 5054, 22289, 3251,
      14281, 39269, 48342, 28123, 39009, 12057, 36962, 18371, 32548, 48249, 1473, 8758, 37821, 21196,
      10401, 19213, 23707, 23395, 45780, 31543, 13955, 8699, 42154, 29533, 48597, 26261, 3526, 36637,
      10027, 18260, 17245, 14618, 37714, 47428, 21651, 10782, 12134, 14984, 44455, 24215, 22308, 17167,
      2596, 32568, 35702, 4797, 13414, 20872, 13336, 16761, 16741, 34810, 48243, 8724, 14685, 32094,
      33368, 7504, 10426, 20449, 14319, 10384, 184, 4352, 48591, 23528, 38316, 22448, 24194, 15154,
      43033, 47995, 48005, 25138, 25189, 2427, 36489, 42465, 46180, 46754, 21307, 47275, 17211, 23438,
      14708, 30362, 5385, 43258, 35881, 36570, 33964, 18669, 6473, 25912, 13690, 32881, 472, 35539,
      4681, 29798, 34889, 35875, 36888, 10357, 10119, 20511, 33616, 5049, 44032, 1528, 15819, 24956,
      3773, 29696, 19141, 19919, 2025, 16519, 29713, 14735, 35405, 20320, 35322, 35705, 12937, 7116,
      8102, 31139, 36096, 33952, 26663, 44344, 42484, 39227, 3006, 40955, 6566, 49519, 11480, 38998,
      425, 14751, 49073, 21652, 29954, 4693, 5316, 23194, 38292, 16490, 6856, 7015, 37624, 4111,
      37153, 24605, 28234, 25091, 4799, 37698, 13582, 44351, 44114, 47009, 42165, 45203, 8700, 49218,
      3123, 10590, 44916, 32646, 9305, 7693, 24949, 49343, 44805, 16312, 38992, 30498, 49858, 17659,
      35337, 47863, 9901, 26038, 41693, 38958, 47546, 27484, 10757, 49477, 9054, 10041, 28892, 39923,
      45777, 26296, 9364, 39157, 26975, 20551, 46798, 4132, 15752, 16950, 25357, 31752, 13494, 39380,
      29040, 49271, 5381, 5315, 12420, 32664, 28531, 47809, 47503, 42799, 47245, 9431, 15827, 15782,
      26219, 18179, 6834, 30716, 17441, 10156, 2629, 7699, 30473, 26543, 36209, 4522, 16829, 34169,
      37870, 28833, 35409, 2543, 21007, 10467, 38205, 24996, 46498, 16668, 36985, 15942, 33766, 39595,
      21404, 35642, 31909, 7169, 29354, 12198, 28410, 17384, 29945, 30261, 27821, 23583, 4533, 19491,
      12942, 30067, 23914, 20976, 23424, 9748, 27967, 8469, 17809, 21810, 30237, 2379, 17545, 111,
      14008, 24726, 23708, 9388, 28893, 3546, 4403, 7393, 30690, 34142, 35637, 22542, 25040, 8347,
      5702, 7120, 23404, 27383, 371, 36162, 6259, 15562, 38734, 5942, 29654, 38228, 44267, 25755,
      17032, 38324, 7334, 28640, 37948, 24491, 46267, 35368, 40499, 10431, 3651, 23795, 3684, 32294,
      19542, 29513, 34588, 13788, 37683, 6903, 7532, 40046, 23703, 25405, 34370, 21537, 27354, 14372,
      41661, 40595, 33086, 36443, 38198, 9461, 9840, 7121, 38572, 7464, 47971, 22205, 45820, 40662,
      24252, 29536, 39546, 15930, 42365, 32852, 10498, 19796, 3851, 28514, 16746, 30982, 22426, 31511,
      45665, 33168, 15589, 27459, 44561, 23507, 1320, 42400, 41053, 18330, 44057, 37241, 17527, 8486,
      551, 7276, 20860, 31129, 24974, 39757, 32917, 42457, 94, 24009, 34763, 36694, 33682, 38988,
      14846, 37995, 37137, 22743, 14393, 594, 10633, 48588, 37775, 42588, 35254, 11548, 43537, 22576,
      41540, 19163, 38813, 4901, 18383, 36867, 21529, 44295, 21952, 34735, 48327, 1634, 35605, 31509,
      23786, 42236, 26193, 27894, 9671, 43473, 17310, 26074, 28750, 35516, 30399, 35565, 13621, 32188,
      17716, 5149, 15115, 19650, 19072, 18098, 41534, 37075, 44270, 33295, 13065, 20239, 17562, 24506,
      23902, 14241, 16007, 29361, 24892, 27426, 15053, 2818, 38803, 33718, 5362, 35376, 41581, 6385,
      37210, 15169, 42817, 46823, 33844, 13246, 18318, 22640, 28305, 29032, 37329, 29191, 48080, 31318,
      1965, 987, 18409, 25176, 9357, 38601, 32615, 27521, 4963, 43292, 21635, 43004, 32309, 30632,
      2928, 15496, 47455, 30412, 30358, 48921, 46962, 31381, 45987, 20529, 40580, 44173, 34361, 26777,
      4383, 47278, 17084, 31839, 7443, 11885, 14306, 38540, 25890, 26998, 17142, 37406, 6598, 49996,
      40425, 32806, 36601, 21658, 7203, 19278, 39083, 28946, 9245, 44682, 4856, 8698, 19359, 17408,
      7572, 28030, 11078, 15654, 30416, 20724, 10472, 41232, 8496, 34469, 18477, 40242, 9178, 48486,
      31786, 20517, 16636, 511, 24091, 22152, 3333, 47513, 36410, 24789, 28543, 38144, 25444, 33518,
      6074, 40675, 49183, 19054, 6940, 12901, 33170, 24236, 17849, 38963, 7222, 4697, 21881, 305,
      35769, 5378, 15582, 8573, 25511, 37442, 28432, 49678, 24940, 662, 33471, 28981, 527, 35661,
      48911, 8631, 20165, 42601, 24064, 32004, 40628, 40865, 21527, 45072, 40377, 17610, 903, 7588,
      44287, 14329, 15414, 13881, 45006, 41021, 39395, 6389, 24550, 9652, 41539, 9106, 42662, 16015,
      1532, 35059, 15657, 9449, 23021, 47230, 43015, 13888, 24575, 9678, 15410, 36409, 18366, 24661,
      3685, 11202, 37170, 13421, 27299, 49413, 11564, 33521, 31644, 8142, 8644, 4063, 46488, 43778,
      31018, 48380, 19727, 18822, 44608, 34837, 30194, 17579, 21608, 25654, 11341, 2175, 46797, 8816,
      15510, 13111, 14425, 19934, 15065, 35611, 4521, 6402, 17738, 37516, 40017, 42613, 47176, 1099,
      9664, 14717, 20, 25010, 46838, 15715, 48455, 11748, 45027, 43010, 38676, 46116, 6443, 48475,
      8163, 35813, 14255, 49737, 34633, 12699, 10908, 40422, 25093, 44352, 5007, 19523, 14002, 28349,
      24583, 32243, 20439, 14642, 33550, 21134, 43665, 19708, 7883, 31622, 22631, 8722, 27617, 36180,
      20852, 3107, 7925, 45483, 24555, 26269, 35890, 14755, 40795, 11481, 12225, 30802, 23979, 27075,
      1300, 3521, 43031, 20209, 35342, 6500, 33115, 37315, 44579, 16388, 21984, 42189, 18249, 20473,
      9711, 41093, 17884, 19615, 48938, 37829, 1064, 25382, 38345, 29815, 37213, 31913, 7333, 6106,
      9963, 14507, 14847, 33100, 20373, 3692, 6866, 40547, 46715, 7814, 17464, 6734, 4288, 20291,
      40507, 24514, 26875, 6787, 24329, 5631, 32095, 41205, 46949, 23798, 32521, 46207, 24440, 6321,
      30549, 34451, 18584, 39551, 36515, 1110, 24073, 8526, 9034, 8382, 22107, 30008, 36848, 23634,
      33444, 12046, 15976, 17166, 42362, 26631, 42559, 37700, 42564, 45377, 36781, 44577, 183, 9511,
      49735, 46135, 21311, 35604, 43992, 40689, 34723, 35123, 28255, 23504, 39697, 533, 3830, 35510,
      22525, 12985, 41405, 36348, 26173, 23827, 25842, 47988, 20673, 21731, 49441, 48176, 22144, 8027,
      3992, 35971, 13523, 40102, 17950, 9102, 33913, 40237, 15729, 27222, 28106, 34312, 35181, 15668,
      3881, 10796, 4511, 19561, 10991, 36309, 17665, 8284, 43037, 25727, 21971, 26044, 22757, 14432,
      9321, 27158, 4642, 6320, 41566, 36757, 12318, 37120, 27293, 3599, 40305, 36091, 32683, 43567,
      34555, 17745, 3307, 26539, 7282, 30161, 46543, 48613, 20298, 12644, 2407, 45005, 37835, 18728,
      5891, 26883, 22131, 44903, 36095, 28562, 21574, 1810, 18761, 44191, 19179, 48895, 32925, 4076,
      8380, 3577, 6209, 9335, 40467, 32939, 6114, 33939, 20773, 41762, 15377, 29164, 9859, 37192,
      40977, 13394, 44187, 37791, 18953, 3206, 5630, 36031, 41245, 7245, 32735, 32145, 16882, 4112,
      22455, 29656, 20683, 24080, 43140, 25874, 36426, 49618, 15472, 35588, 22218, 43477, 16772, 49523,
      34353, 34094, 29057, 27215, 22212, 31984, 27257, 4959, 12647, 17223, 30222, 5765, 34189, 23814,
      9966, 15624, 43947, 6641, 18946, 46282, 10002, 48346, 16442, 36357, 23397, 47195, 49359, 28793,
      25107, 8131, 39186, 47181, 24767, 18548, 46206, 9438, 36958, 32725, 5028, 14101, 6818, 39548,
      49199, 42920, 32286, 26465, 45911, 17062, 2542, 40570, 47665, 23621, 44935, 47161, 22276, 24365,
      15675, 21685, 12020, 20096, 28874, 33447, 37994, 34120, 3902, 18588, 7061, 9236, 28730, 22189,
      42300, 18901, 26008, 7810, 22940, 49610, 39698, 38277, 19755, 16204, 4367, 19644, 23301, 23901,
      11467, 8990, 28548, 26863, 18168, 41087, 22145, 26437, 11640, 548, 29376, 45697, 17787, 11952,
      49984, 16575, 9319, 33716, 37246, 29236, 29202, 22253, 47741, 16820, 21277, 5008, 33216, 20943,
      4297, 39035, 48605, 47442, 13055, 38182, 7535, 39959, 46847, 33895, 46237, 1799, 37524, 2387,
      19418, 37632, 14322, 20106, 13207, 31500, 6066, 3512, 47683, 11633, 30102, 28539, 25743, 7816,
      19014, 20672, 6695, 45099, 45889, 26913, 2263, 7802, 31753, 46336, 36498, 3260, 29289, 27385,
      17229, 8273, 3871, 39219, 1774, 47173, 14051, 2840, 31949, 41085, 37922, 35383, 8369, 26993,
      24805, 22502, 1511, 31695, 41143, 22242, 42132, 18118, 15376, 48786, 13698, 27825, 48013, 23405,
      46682, 42757, 20191, 40370, 25190, 46801, 22209, 18281, 2303, 49880, 47072, 27494, 11148, 36178,
      44228, 21784, 9669, 46407, 17234, 24667, 2822, 20010, 2246, 20051, 46544, 16220, 11223, 6086,
      25173, 42764, 25801, 1711, 13850, 716, 24175, 35533, 18448, 1369, 1404, 35865, 39305, 4329,
      45166, 42494, 7867, 12979, 40057, 19195, 39681, 44829, 21230, 3657, 47642, 17402, 24241, 24408,
      21032, 8981, 5969, 45896, 40434, 14479, 28088, 2268, 3392, 42522, 11432, 17077, 24680, 18675,
      3087, 38255, 27086, 32267, 46386, 34645, 34297, 1286, 15059, 38907, 41736, 38575, 5538, 17215,
      49838, 36861, 49751, 32362, 22564, 34404, 17754, 46837, 39863, 7501, 9566, 43130, 20522, 42584,
      5452, 704, 14205, 43539, 27463, 48177, 7425, 20765, 25301, 35258, 23564, 37686, 34744, 31922,
      46454, 3549, 1766, 41296, 39294, 46326, 30580, 21291, 37741, 39474, 21548, 13200, 46111, 26568,
      46392, 43848, 38418, 11424, 30917, 29743, 25835, 35629, 30484, 27107, 10375, 25185, 6437, 25741,
      27097, 9665, 18975, 18510, 27326, 40671, 25587, 19336, 18472, 981, 12069, 36025, 5267, 41521,
      25822, 17184, 31661, 42839, 9675, 34147, 36778, 45796, 41997, 22333, 24914, 34549, 42254, 13566,
      4866, 22841, 35200, 40837, 32368, 38206, 17903, 43820, 42172, 47256, 25462, 6584, 35985, 7666,
      40443, 23696, 7188, 28389, 796, 31633, 46965, 42781, 38301, 27685, 26324, 15389, 29684, 39433,
      39026, 16258, 42471, 21706, 26, 19483, 17177, 19355, 17093, 10248, 5700, 41912, 13536, 40656,
      4942, 47364, 12464, 22838, 18615, 15055, 43341, 17974, 15828, 44891, 6472, 37077, 43899, 5526,
      17976, 30832, 1082, 20758, 30183, 35989, 18687, 30201, 19930, 37428, 10596, 6512, 12787, 37890,
      47980, 48437, 35481, 22540, 11143, 3959, 18288, 24644, 43229, 434, 36685, 49501, 25370, 2203,
      19829, 37240, 30041, 6962, 8701, 20151, 47279, 46150, 8753, 27597, 37217, 15174, 11103, 25710,
      41583, 44808, 21762, 39278, 3238, 31559, 7240, 17316, 30668, 27272, 42072, 48767, 11877, 19868,
      44660, 13644, 36853, 45047, 34136, 12210, 30806, 34315, 21649, 39766, 15991, 10712, 7066, 18269,
      8545, 38961, 44855, 1935, 28582, 4899, 10662, 3447, 36053, 33953, 39611, 19405, 43599, 36941,
      22595, 27140, 15402, 30394, 4595, 19362, 44097, 12194, 26714, 25507, 37903, 5142, 15513, 31276,
      13347, 3811, 13123, 2291, 44353, 3603, 13286, 44074, 16040, 1659, 3793, 29022, 17226, 2977,
      23792, 12218, 12274, 24288, 29175, 22751, 19447, 151, 9191, 48169, 41512, 49964, 19017, 11755,
      11412, 6004, 41868, 8159, 48649, 46535, 16212, 27476, 40404, 39216, 32782, 35560, 36567, 27503,
      22025, 41610, 5922, 32400, 47267, 20875, 38186, 26265, 24451, 33948, 6337, 33293, 42620, 2606,
      11050, 39078, 22123, 6414, 7038, 5, 16126, 19547, 40279, 5413, 440, 37807, 45371, 48948,
      36000, 36743, 1938, 9117, 18909, 4870, 22467, 48888, 7975, 17269, 42109, 27460, 28290, 7704,
      16891, 48298, 5069, 27603, 23606, 9408, 24643, 39856, 16449, 40035, 24647, 48668, 29281, 7664,
      13119, 38715, 46139, 33064, 41650, 6457, 14245, 15005, 44979, 27219, 48598, 7181, 24430, 12907,
      8302, 21330, 30593, 25465, 48606, 33523, 3534, 13727, 8384, 22873, 4454, 37069, 25721, 17765,
      37938, 2613, 22560, 41345, 9953, 28522, 17959, 39501, 34351, 49918, 1617, 14219, 12121, 9522,
      42482, 32333, 28988, 24005, 17693, 21442, 26250, 18702, 405, 16603, 4123, 34192, 37151, 8756,
      2037, 24331, 1022, 41104, 7434, 10885, 37015, 16650, 29389, 34119, 40009, 27724, 42636, 38443,
      32080, 41947, 13305, 1263, 8539, 19968, 17435, 21146, 40780, 37492, 47131, 47836, 10845, 395,
      16488, 36075, 9260, 49405, 32099, 25168, 8938, 8950, 49956, 43821, 31133, 48685, 49986, 28475,
      26868, 30193, 17279, 42694, 4250, 12196, 1225, 6408, 21662, 4754, 44876, 6955, 45257, 8619,
      37135, 47714, 43583, 4860, 15442, 47877, 45547, 12165, 43264, 22650, 31514, 29255, 40936, 10419,
      32019, 15467, 47890, 9466, 14568, 18433, 18292, 26284, 20471, 28004, 16489, 24086, 26451, 35556,
      13093, 17564, 17878, 16445, 14557, 44276, 21806, 28069, 36808, 34227, 26580, 21742, 22758, 5967,
      34954, 37020, 10995, 33220, 24687, 23913, 26162, 31335, 3889, 10866, 16980, 29427, 36971, 11055,
      5639, 4849, 3299, 64, 49794, 17932, 13672, 19416, 30755, 34862, 48671, 6182, 15591, 12661,
      3856, 20843, 10223, 39156, 18213, 45484, 39171, 14258, 22222, 15453, 10437, 17868, 15816, 23765,
      42418, 13696, 16462, 21555, 10110, 46846, 16943, 38377, 26251, 28646, 42228, 10440, 9616, 25339,
      8660, 27, 38682, 10967, 20531, 17189, 44687, 10534, 26129, 23235, 36806, 35354, 27313, 43492,
      14239, 37293, 42395, 37866, 5302, 15797, 29527, 14776, 22787, 41957, 46752, 39584, 45193, 29393,
      7750, 10047, 5349, 37168, 36023, 21004, 3454, 362, 47187, 48887, 10753, 13338, 35092, 11167,
      15802, 36080, 37345, 21825, 20557, 37790, 23418, 38047, 21725, 29612, 9808, 16160, 32322, 49894,
      1128, 22, 37878, 33262, 36181, 40721, 11576, 20886, 3980, 15457, 10774, 18547, 36967, 19280,
      27408, 31817, 5310, 14515, 2925, 7450, 25451, 3195, 33055, 47888, 28605, 8050, 4369, 7248,
      11213, 13189, 41138, 20621, 29790, 41031, 26427, 27032, 42567, 39910, 794, 11937, 21219, 27378,
      40849, 6661, 16693, 15225, 11692, 48715, 3042, 27201, 17427, 14604, 9487, 26252, 41744, 7386,
      18228, 48459, 24464, 20434, 21409, 11573, 31340, 11553, 7331, 5271, 33043, 19076, 43364, 6611,
      40888, 30543, 35843, 43071, 42842, 42040, 25130, 34654, 6829, 44678, 34923, 4176, 18620, 2853,
      16108, 14035, 25156, 10346, 16352, 26367, 35568, 10236, 40084, 35221, 28670, 4314, 15051, 18006,
      8076, 41952, 42013, 22266, 43137, 3515, 38548, 28390, 5767, 45307, 29805, 32788, 44423, 21770,
      44076, 11346, 34640, 37331, 21832, 2682, 43588, 3055, 41403, 863, 12582, 33639, 9404, 37920,
      42768, 22480, 6928, 2466, 20600, 25702, 23487, 5375, 20014, 1439, 18095, 13222, 21173, 43890,
      39117, 35667, 25046, 40455, 35797, 32500, 20641, 13665, 44200, 38535, 27009, 23466, 11977, 34890,
      2673, 28484, 29613, 31036, 23489, 46215, 49431, 45899, 19995, 39900, 40320, 38891, 23450, 337,
      39311, 20388, 1942, 27068, 1913, 13898, 8915, 7771, 23401, 21682, 23645, 33902, 34609, 32539,
      16417, 23221, 43666, 1076, 29006, 29811, 5399, 14263, 39180, 16267, 46002, 33357, 39970, 8271,
      43632, 7897, 3199, 41552, 14863, 44812, 27482, 45555, 3324, 26279, 10196, 30924, 3743, 37672,
      48520, 27387, 43494, 28779, 27157, 29665, 39369, 19911, 7440, 29751, 11231, 44928, 997, 24760,
      18676, 25774, 7176, 2124, 22043, 36744, 17116, 10169, 21580, 27407, 36531, 32847, 4561, 18715,
      20890, 11025, 32695, 12683, 29756, 303, 20542, 25459, 40168, 6617, 25167, 23218, 16167, 39299,
      14037, 14974, 46354, 6177, 39138, 30496, 30649, 5400, 42529, 29605, 27153, 15195, 106, 48540,
      3404, 16102, 30215, 37667, 37979, 43183, 6387, 41930, 19455, 35744, 34296, 21348, 30692, 17349,
      9854, 33223, 43009, 23437, 47431, 29742, 45, 9286, 42950, 27289, 15304, 40608, 19441, 1778,
      9910, 23924, 3646, 33268, 12211, 16557, 7865, 40776, 34866, 24911, 10216, 17910, 18240, 13580,
      16995, 8052, 10857, 37771, 43708, 9387, 24220, 18414, 271, 19325, 36820, 28489, 21087, 44631,
      16473, 3736, 40514, 12502, 639, 17946, 37603, 17105, 22007, 32675, 1080, 22058, 45101, 35523,
      3212, 46294, 21494, 15330, 45722, 28440, 45359, 12439, 11464, 5965, 11584, 47953, 8254, 40038,
      39981, 1019, 4096, 45898, 34333, 38583, 7711, 32577, 26924, 6792, 27640, 43112, 48727, 7111,
      29722, 38766, 15779, 31848, 36913, 2395, 23660, 37817, 38918, 39842, 26107, 1780, 7463, 26014,
      35447, 23546, 19056, 48480, 2631, 16738, 42439, 28342, 3591, 39730, 20289, 43447, 47183, 8584,
      886, 9416, 23476, 19192, 2056, 49524, 28176, 18688, 21309, 36818, 46583, 20011, 39668, 48223,
      641, 25475, 5361, 4427, 18280, 45013, 4606, 4429, 42125, 21801, 3774, 17743, 27892, 16600,
      47710, 42678, 11587, 44212, 38948, 13054, 20605, 43731, 20138, 34383, 26898, 36741, 22244, 38337,
      44451, 37264, 34818, 43912, 15203, 48162, 48713, 47234, 34329, 44698, 9815, 29049, 48781, 17156,
      26673, 33097, 10524, 36365, 394, 14662, 21509, 37175, 5004, 19047, 8831, 16101, 38743, 42700,
      18413, 33431, 2057, 40134, 47509, 13775, 49513, 44930, 23946, 49428, 40741, 49647, 6560, 16878,
      25322, 18226, 40938, 45656, 4098, 48965, 46324, 1218, 18672, 1408, 20654, 33741, 11217, 24537,
      8204, 45797, 47819, 16720, 36446, 5681, 13715, 24346, 3201, 31971, 8212, 24021, 4889, 33362,
      32210, 28715, 8108, 2473, 22733, 42535, 44341, 1922, 32250, 17443, 26918, 31668, 4841, 24281,
      24855, 11785, 30383, 28000, 31510, 37907, 25350, 2076, 37773, 20514, 6007, 44652, 17601, 30614,
      23211, 33729, 30921, 46654, 34722, 22705, 6055, 11218, 30121, 1740, 42264, 9814, 28204, 20545,
      17729, 16447, 30482, 12460, 15683, 27002, 25936, 42022, 15245, 46750, 10402, 40687, 3192, 17522,
      1454, 35421, 9492, 44407, 25208, 8253, 38217, 8097, 29888, 3098, 46172, 42149, 25968, 6822,
      633, 31283, 26499, 6961, 12262, 46263, 2940, 40016, 27430, 33800, 47802, 14988, 12906, 35191,
      41889, 42908, 49447, 236, 29541, 29520, 23813, 20553, 15911, 8599, 39721, 26199, 26171, 44666,
      38694, 9745, 24524, 2882, 19589, 37961, 41892, 41489, 41577, 36048, 17326, 17769, 13973, 15861,
      34063, 16350, 44899, 9088, 19726, 39699, 25255, 40257, 17881, 40348, 17131, 22106, 42994, 27915,
      41007, 590, 37177, 32177, 36996, 11881, 6569, 27740, 40367, 7965, 42830, 35904, 15977, 25685,
      23940, 41237, 22187, 31094, 9695, 4316, 4674, 14639, 26598, 8968, 9982, 38194, 21066, 11183,
      8266, 16876, 21683, 11517, 42002, 13880, 824, 8747, 3275, 17996, 29531, 1753, 43738, 14325,
      30810, 42090, 28006, 46926, 4876, 6608, 5423, 45567, 11859, 40534, 23996, 35024, 34512, 16254,
      20561, 21246, 31820, 16042, 26398, 868, 38184, 38543, 23985, 26118, 8078, 29989, 43338, 3280,
      48514, 28525, 47983, 38782, 7140, 13429, 13697, 44837, 36292, 25594, 47067, 48121, 25838, 5079,
      35326, 45225, 1773, 38245, 19798, 47504, 38303, 8520, 9481, 23490, 4473, 34129, 17472, 42265,
      43068, 15748, 7274, 42379, 2016, 1607, 36373, 17942, 37372, 11588, 15660, 31346, 40125, 45717,
      43964, 5443, 32899, 49874, 4643, 38807, 497, 28190, 10528, 3664, 30104, 7433, 28924, 42160,
      19207, 9395, 48892, 32360, 10518, 21423, 38740, 26549, 23925, 763, 2389, 30636, 44328, 31440,
      6840, 34721, 13587, 34617, 27631, 7835, 4820, 21050, 8507, 20504, 6412, 9759, 47015, 14817,
      31876, 43576, 16005, 42299, 15, 21249, 31746, 22796, 3952, 33077, 27956, 40199, 17533, 35285,
      28080, 20617, 2128, 10139, 31145, 722, 45490, 33879, 36355, 17333, 24474, 33405, 24824, 18790,
      23130, 8888, 46899, 26365, 2228, 41192, 21996, 48485, 27609, 7878, 32576, 16038, 36978, 44071,
      26467, 41972, 7377, 2010, 43989, 27690, 10190, 35335, 38087, 30823, 1902, 48590, 24102, 36527,
      16347, 28767, 6047, 18996, 35725, 19310, 42569, 42721, 6907, 9751, 45020, 12312, 18130, 9114,
      28457, 944, 31481, 27399, 43621, 27579, 6984, 44657, 28214, 8062, 43350, 40137, 26058, 8559,
      32911, 37884, 41331, 13786, 34986, 37081, 22658, 37367, 27066, 10204, 10807, 47728, 6765, 31813,
      35713, 25669, 3188, 39912, 8031, 24796, 21380, 30436, 16568, 44031, 36394, 39808, 45801, 26926,
      13733, 13965, 47468, 41159, 9797, 25717, 34010, 22402, 49868, 8463, 3925, 27738, 46123, 8730,
      21946, 1360, 5950, 41184, 8884, 4905, 15256, 48436, 35109, 19748, 39598, 38876, 47844, 528,
      43870, 2369, 12569, 13412, 35399, 11226, 31770, 7715, 5024, 38704, 33071, 36930, 42977, 37304,
      4597, 38981, 9470, 20593, 19171, 47465, 21507, 10652, 44871, 40007, 42575, 16740, 49641, 39573,
      3909, 49054, 18704, 19703, 15919, 2019, 45810, 567, 45744, 48448, 48071, 4486, 14404, 30279,
      40613, 23871, 40026, 44108, 35338, 25298, 25551, 11278, 13526, 28133, 47060, 11802, 24146, 15909,
      36051, 7257, 48316, 6574, 32668, 7803, 24686, 2526, 24187, 28391, 31704, 32269, 32926, 46397,
      34828, 33649, 14063, 27883, 33044, 666, 15739, 21343, 23434, 24709, 6762, 6615, 22441, 37570,
      41482, 6299, 4179, 22889, 1832, 37885, 40717, 11519, 2058, 44996, 29674, 36533, 21303, 44510,
      14690, 29986, 12823, 27621, 17866, 48038, 14732, 23016, 42410, 40074, 13397, 7549, 24945, 18932,
      49298, 642, 49384, 48653, 19853, 11043, 38059, 20448, 4781, 18242, 6579, 37702, 36491, 34168,
      19739, 33289, 24243, 4030, 13027, 49082, 49593, 13056, 10060, 36776, 42826, 12812, 39441, 14455,
      45585, 48721, 33909, 17256, 9630, 6336, 45265, 4231, 22959, 306, 9945, 18660, 48665, 19479,
      1924, 20102, 46423, 31098, 24016, 49368, 22203, 27920, 37967, 4301, 20754, 28109, 46164, 46347,
      22320, 10456, 260, 28490, 41792, 25772, 1091, 6931, 21033, 26785, 30955, 23465, 23526, 25409,
      7292, 41144, 25474, 13463, 35185, 43649, 4676, 2921, 35577, 35017, 15419, 39417, 28768, 2459,
      47429, 10547, 8621, 11158, 45984, 41719, 47359, 30262, 29529, 36282, 5487, 3338, 49127, 27584,
      6060, 17776, 37116, 3841, 7470, 3691, 22151, 15290, 4395, 34607, 12186, 35136, 19394, 23142,
      3339, 5212, 39378, 39781, 18040, 35396, 48256, 10903, 46742, 1999, 36649, 14434, 16965, 20599,
      31171, 38082, 27898, 23608, 22488, 25198, 48562, 3465, 42333, 10363, 44932, 28180, 33522, 23903,
      443, 33740, 11652, 33593, 47401, 12204, 13142, 25976, 46729, 38857, 32175, 10529, 19095, 16191,
      36210, 6820, 39921, 43986, 35105, 21256, 3066, 33387, 46071, 20293, 29158, 42677, 18907, 49786,
      1934, 49734, 4694, 7741, 33637, 8272, 27278, 13942, 36007, 25037, 27498, 36534, 815, 44181,
      1049, 40405, 30164, 24373, 26562, 16020, 35079, 23453, 46042, 4617, 908, 17488, 18677, 3535,
      10033, 7273, 5651, 30472, 14866, 33525, 39108, 20505, 947, 15100, 8303, 1701, 48849, 31457,
      56, 730, 33746, 16979, 29782, 43972, 22578, 31126, 18781, 4960, 40190, 37132, 28242, 38398,
      39918, 32470, 29764, 45641, 31688, 23246, 46439, 47954, 1614, 16292, 30175, 41129, 25360, 6764,
      27467, 2366, 14235, 44040, 30204, 44343, 3996, 9488, 29489, 3679, 17997, 19323, 28415, 28682,
      17993, 46440, 21354, 46757, 9862, 22485, 5608, 11552, 29203, 36700, 46234, 36572, 24496, 22870,
      40131, 20133, 2160, 15768, 32692, 10489, 48612, 48903, 4830, 7694, 48124, 7145, 15025, 29119,
      49270, 27873, 26179, 2340, 25765, 2913, 27453, 42152, 39602, 32283, 46082, 26974, 9394, 7207,
      42538, 48192, 35245, 25058, 41735, 20942, 35051, 7904, 45910, 36903, 6021, 33894, 44226, 20246,
      1669, 48957, 39259, 8176, 33706, 5624, 41406, 20282, 7919, 45802, 31499, 16863, 34364, 4861,
      45063, 38825, 10985, 29829, 10679, 25857, 39907, 49051, 11805, 40810, 9649, 22099, 16259, 18170,
      7820, 49740, 45365, 22102, 15008, 39645, 9415, 48596, 33651, 32747, 25143, 8798, 11741, 46876,
      46308, 37687, 15619, 25816, 8933, 18361, 41955, 16206, 10336, 30552, 34928, 24204, 33758, 2654,
      21818, 47749, 46979, 27897, 1137, 12974, 11596, 510, 10129, 42785, 47200, 9243, 48355, 33607,
      37389, 30666, 46367, 30203, 36725, 4839, 37657, 21446, 18013, 21224, 38152, 30226, 33910, 28039,
      6189, 7432, 11920, 44737, 9228, 21845, 24240, 37924, 18185, 21140, 14456, 37117, 6929, 33298,
      9732, 39290, 1919, 44337, 40211, 31912, 1949, 30540, 40850, 46974, 32126, 32017, 2365, 12314,
      21175, 11698, 48772, 22725, 27452, 33615, 2377, 15141, 25653, 24278, 49612, 14551, 1903, 22597,
      40181, 41108, 12294, 42235, 3060, 20243, 16672, 15531, 47326, 582, 21071, 39250, 11471, 7035,
      38828, 34728, 34948, 42038, 40319, 10327, 21101, 26997, 40867, 19154, 38830, 16065, 6163, 9471,
      12511, 33529, 26783, 13584, 34319, 16569, 48435, 18740, 20446, 1652, 1415, 17198, 38780, 39167,
      10355, 40136, 7614, 4327, 15021, 8776, 31887, 31749, 21183, 46704, 38246, 33333, 6630, 23764,
      35886, 39840, 29348, 16788, 6805, 13546, 13176, 13470, 45299, 12846, 14246, 40366, 35224, 25207,
      39871, 10523, 14669, 15295, 46348, 39457, 40426, 2552, 25714, 15932, 34433, 25102, 20221, 22829,
      40298, 26666, 12877, 42919, 9032, 34579, 20927, 36295, 27209, 4295, 33370, 12300, 3259, 38495,
      32499, 21424, 10360, 41557, 31403, 19659, 26909, 48754, 17182, 17300, 14167, 44474, 21795, 20312,
      45161, 13476, 6107, 45683, 16427, 38493, 15250, 21353, 49540, 39949, 42691, 34875, 44109, 32356,
      33642, 6877, 49035, 43077, 1626, 32875, 15957, 33744, 29410, 36587, 18886, 3536, 15701, 5193,
      17563, 1018, 48021, 18727, 22185, 2400, 4646, 16484, 26651, 21809, 33717, 29072, 910, 27567,
      5002, 5674, 24908, 21988, 30866, 15003, 11419, 32274, 12239, 48699, 22082, 16705, 42514, 16558,
      32009, 45494, 24785, 7254, 29454, 40543, 30669, 4359, 24563, 40479, 33826, 21612, 45523, 41533,
      26483, 1816, 14497, 31969, 47259, 41163, 49045, 30763, 36234, 47284, 29323, 27195, 37888, 26415,
      5239, 24673, 35272, 21516, 44208, 27018, 25230, 31194, 34185, 15186, 10858, 21282, 36845, 21740,
      40472, 42311, 24028, 12521, 8437, 14610, 40240, 46469, 16479, 22075, 2611, 24795, 29802, 36923,
      23804, 27676, 41739, 27109, 5703, 24509, 10164, 46422, 23126, 8851, 39448, 31736, 4791, 45832,
      26490, 24469, 319, 9432, 10567, 27913, 5913, 47421, 39608, 7232, 30216, 45830, 9004, 10170,
      5790, 32599, 16997, 49820, 42371, 20738, 5806, 6158, 1860, 47379, 5430, 10302, 41182, 39701,
      38643, 19043, 23880, 45362, 43425, 18643, 3464, 42135, 47110, 49784, 30868, 12529, 7043, 34293,
      13864, 23259, 27268, 43740, 6057, 36724, 7210, 23402, 28467, 43013, 22072, 12468, 10184, 38829,
      51, 13782, 6718, 37097, 38448, 7147, 10537, 10510, 7444, 28208, 43332, 8554, 10220, 41847,
      13454, 3823, 43631, 38108, 23446, 41189, 40183, 31269, 7971, 42055, 15447, 3869, 41398, 26519,
      39276, 35361, 21827, 29069, 20796, 31323, 8484, 21034, 6050, 32670, 14298, 25544, 9705, 10265,
      48322, 20598, 30898, 10564, 3598, 13410, 46585, 38164, 6200, 45709, 15595, 2999, 4746, 46213,
      9552, 40642, 31127, 15765, 38459, 28020, 49613, 48567, 20725, 3017, 7631, 39085, 24882, 36843,
      16360, 48869, 6487, 12961, 39158, 36263, 2419, 39015, 14713, 1485, 49750, 24036, 27974, 5988,
      4267, 23052, 17059, 49862, 16407, 32844, 16924, 35814, 2036, 3065, 30048, 21781, 45479, 23482,
      46539, 45837, 1041, 25568, 47557, 25989, 16498, 37018, 34269, 36621, 5813, 48616, 15367, 47260,
      29090, 36366, 31159, 34248, 39345, 7410, 15536, 44653, 16078, 32849, 29263, 45274, 22703, 13453,
      37805, 27360, 29677, 43302, 30953, 13080, 45171, 47343, 27180, 18164, 39566, 36157, 28878, 3822,
      28371, 38362, 29058, 11244, 6683, 46746, 10247, 37812, 49244, 3838, 6351, 35999, 33356, 14340,
      18298, 12771, 29881, 634, 21957, 24174, 40683, 16991, 24260, 46433, 40113, 36047, 9066, 19199,
      15611, 4923, 17110, 48841, 2347, 49565, 32442, 40271, 14294, 49770, 23092, 35801, 18812, 20012,
      5289, 17732, 11966, 24879, 23447, 26844, 31738, 31589, 12026, 27759, 8562, 34386, 29714, 7045,
      35053, 4274, 48630, 21695, 10411, 45616, 1950, 21213, 10928, 43582, 41315, 21975, 33836, 20044,
      18961, 39033, 31815, 18854, 2274, 11159, 12938, 34033, 12386, 22993, 35613, 19422, 28979, 22080,
      48949, 43627, 47584, 24741, 347, 2260, 6277, 591, 49827, 25146, 17861, 24756, 8744, 35050,
      19346, 15487, 11019, 255, 15945, 28488, 7283, 12970, 32015, 1421, 46741, 20897, 27207, 16491,
      20101, 23086, 16800, 42905, 246, 40649, 15066, 42858, 30776, 14676, 14193, 29655, 8775, 17667,
      37374, 45644, 16116, 23949, 48350, 32807, 14179, 26091, 21143, 28084, 39428, 42384, 28013, 27144,
      16455, 40438, 19928, 19251, 12634, 16958, 34283, 37338, 12888, 28546, 13563, 34937, 36665, 47038,
      28026, 35497, 42722, 32370, 33182, 7887, 22770, 17045, 5067, 11268, 6333, 45282, 26470, 5932,
      36648, 29873, 8065, 8060, 49561, 32761, 18171, 42910, 36, 24151, 36955, 41924, 11825, 17939,
      11721, 7252, 6398, 28555, 7692, 30505, 23243, 20092, 41639, 15858, 49840, 41480, 22159, 41123,
      29960, 5036, 23457, 14688, 12012, 2696, 26718, 17591, 1746, 42816, 23644, 33481, 9244, 20422,
      44987, 27981, 49947, 36723, 7494, 29928, 36196, 18891, 37449, 10686, 4747, 32314, 6302, 31357,
      5492, 17535, 12807, 26246, 27801, 18193, 34525, 24059, 49065, 25378, 32642, 25060, 22820, 21378,
      38596, 10638, 45766, 19340, 25921, 7351, 41384, 24561, 17634, 41350, 43328, 29693, 11572, 8991,
      42561, 37629, 10844, 6908, 25294, 13491, 4858, 28757, 47892, 8250, 1257, 6680, 8930, 7641,
      33038, 35590, 1973, 49627, 13628, 14633, 16651, 40813, 2770, 2329, 42914, 38703, 41492, 27659,
      45518, 15439, 7991, 41514, 30985, 1894, 41667, 16702, 17920, 17855, 49201, 25965, 38412, 17572,
      22304, 17274, 21381, 20234, 23767, 19871, 6044, 15052, 42191, 19184, 49088, 30653, 40596, 25905,
      5392, 49126, 38203, 38869, 45233, 42370, 46353, 49803, 29495, 9609, 9308, 40104, 40326, 28351,
      20951, 562, 10208, 1031, 22149, 45803, 11894, 17206, 7058, 10599, 37145, 11803, 48349, 442,
      10588, 30098, 31414, 48369, 17629, 46724, 27742, 34017, 44440, 4276, 11322, 48377, 43805, 10057,
      27746, 27315, 29362, 32543, 45192, 42192, 29882, 13751, 5497, 7044, 29317, 18738, 39914, 28393,
      5097, 21711, 45018, 17818, 12380, 14588, 30531, 13311, 4541, 47484, 45977, 22731, 46011, 22115,
      23416, 27353, 27258, 17821, 22462, 7960, 14440, 14986, 21076, 44668, 12696, 48664, 47831, 39629,
      32833, 42430, 40151, 48242, 49123, 8656, 12714, 35343, 19249, 43536, 5113, 22409, 37699, 23274,
      28231, 7512, 33099, 13273, 20202, 25395, 47490, 16059, 73, 1843, 33538, 11228, 45943, 17669,
      9436, 43797, 28879, 39461, 18325, 37621, 19781, 13406, 12150, 5938, 28207, 28451, 21448, 5745,
      4027, 48506, 17500, 8974, 38665, 21326, 36731, 3937, 20437, 17494, 4414, 40883, 44875, 26401,
      3146, 42507, 46418, 7507, 38960, 9990, 3514, 44105, 42673, 19476, 47144, 31235, 33971, 36163,
      9411, 5255, 38725, 26624, 15678, 41148, 10046, 1055, 16978, 33528, 1525, 20043, 46027, 22208,
      5154, 14126, 28900, 5664, 1806, 42083, 17145, 29958, 47771, 2970, 42480, 29550, 16465, 493,
      25108, 10482, 28523, 32767, 6026, 23365, 30151, 30844, 45452, 27475, 22689, 1384, 26771, 20895,
      27414, 23241, 21737, 49997, 23070, 32705, 35318, 28799, 46120, 2722, 10979, 20108, 17648, 21251,
      14925, 29176, 42140, 12563, 33583, 36787, 7607, 25848, 36855, 22748, 30346, 31389, 43099, 14547,
      23800, 9046, 45463, 42211, 3970, 28161, 6922, 660, 41294, 31645, 25128, 17502, 17671, 47689,
      7358, 17801, 28991, 27167, 41011, 43313, 34229, 2409, 296, 32244, 18296, 7548, 7942, 17529,
      44358, 5789, 48620, 29405, 43976, 47559, 6553, 45152, 37533, 29181, 41165, 20534, 26411, 38492,
      49782, 9638, 30428, 13795, 44155, 8381, 39337, 2886, 1883, 4190, 39403, 48067, 37118, 30565,
      25218, 16375, 7630, 4761, 2723, 9884, 40192, 16877, 20637, 23212, 34231, 496, 4008, 35055,
      18582, 8655, 11982, 33212, 28798, 31250, 8630, 33440, 25595, 34262, 40789, 38029, 36519, 2670,
      17140, 2083, 32848, 40999, 22923, 26972, 46091, 6572, 14166, 33305, 13407, 21040, 33414, 41517,
      12482, 18570, 35877, 47272, 23131, 27126, 9624, 24399, 47492, 8107, 30846, 8524, 35798, 2102,
      8498, 15522, 36659, 42444, 22414, 1995, 27528, 47515, 19814, 21676, 24435, 28834, 48440, 4925,
      37743, 30820, 23697, 9422, 2978, 3573, 7372, 2590, 4578, 1115, 3088, 3466, 4261, 19333,
      44887, 23555, 42560, 23772, 5229, 13262, 21392, 39408, 21767, 14961, 42681, 25411, 14481, 7025,
      28873, 799, 43430, 41853, 427, 17129, 40527, 11882, 27114, 14184, 1391, 40931, 40704, 49193,
      11498, 7634, 43192, 19515, 30990, 43971, 33000, 31017, 28460, 33158, 41708, 40322, 39218, 7423,
      47228, 49185, 4023, 38137, 23869, 40259, 18125, 49638, 6884, 12288, 29374, 17573, 7902, 23123,
      43334, 10051, 3883, 37180, 2314, 12834, 10315, 18402, 39785, 9894, 4833, 23057, 34783, 29886,
      13418, 3424, 29754, 1892, 28702, 20704, 9617, 5947, 29414, 49004, 21346, 8209, 797, 34651,
      22174, 18756, 24395, 33966, 42669, 35561, 39539, 22551, 20478, 38031, 45129, 21942, 13765, 49144,
      28506, 19689, 37123, 45586, 25019, 17152, 29204, 49450, 34188, 37973, 1234, 41681, 18093, 47046,
      9255, 35096, 48481, 37001, 684, 23202, 24134, 21604, 20169, 39659, 38562, 8953, 44203, 25135,
      29717, 33205, 44575, 26380, 31218, 15926, 39199, 8625, 25104, 19142, 31740, 16571, 43965, 34060,
      7855, 48144, 33359, 21573, 37905, 14780, 10584, 26797, 34108, 16165, 10715, 25854, 45441, 31368,
      36427, 15608, 47454, 13248, 9001, 1212, 4979, 37656, 34241, 18344, 31153, 24754, 32375, 29657,
      43672, 43272, 14123, 38669, 1095, 21019, 14738, 13882, 19924, 38644, 39788, 18767, 7041, 49861,
      1160, 15445, 46098, 43855, 38070, 2768, 34341, 27073, 21468, 3951, 40781, 8095, 36135, 47817,
      13435, 20300, 20156, 21868, 22465, 41460, 29765, 48155, 11542, 26462, 17007, 8009, 31541, 42001,
      49867, 30413, 19464, 37763, 49338, 22515, 14439, 17165, 20054, 24154, 30285, 33868, 26707, 4576,
      3235, 20569, 43747, 4722, 28584, 20622, 48250, 38034, 7032, 38619, 329, 41370, 37290, 44147,
      33617, 33126, 25117, 7399, 18594, 29250, 19586, 5607, 48709, 3148, 34052, 8606, 19977, 49707,
      25463, 209, 3271, 37485, 1004, 19743, 45196, 13518, 10532, 27457, 28760, 11525, 45215, 31824,
      6212, 42375, 36310, 4102, 33021, 48687, 49889, 9340, 18526, 42868, 6403, 12043, 7632, 1728,
      18055, 1868, 41861, 14677, 31476, 11441, 1971, 47629, 20067, 15588, 694, 22113, 12047, 25737,
      17973, 37820, 35052, 49490, 32349, 25574, 35862, 34445, 2114, 3629, 18657, 27703, 49391, 11292,
      37809, 40962, 36331, 48766, 19669, 29048, 39080, 26372, 27916, 42143, 17040, 39452, 47311, 46782,
      46976, 2484, 46773, 28072, 48791, 38735, 38910, 29455, 25745, 3409, 21159, 48878, 10745, 7192,
      26617, 386, 33927, 14674, 15185, 37552, 7953, 47626, 8118, 4299, 40561, 24783, 12076, 20472,
      11179, 37136, 5914, 46275, 38165, 35476, 16480, 28083, 3130, 8015, 27050, 6780, 6618, 35395,
      20157, 10559, 35007, 20047, 27657, 33312, 9399, 11219, 43522, 35157, 37029, 9784, 33822, 20256,
      27206, 29732, 16226, 40398, 5591, 46264, 49831, 19285, 37036, 14746, 41431, 632, 45211, 4535,
      29849, 22353, 12674, 35165, 31205, 36952, 25467, 2576, 35141, 1756, 47014, 45226, 44323, 43887,
      37138, 45637, 49739, 22024, 11236, 25385, 25671, 35283, 27007, 37030, 43597, 9663, 16799, 15150,
      38546, 23572, 40932, 36463, 17094, 897, 11720, 37271, 38641, 47148, 25825, 44088, 34263, 41503,
      690, 36859, 44951, 35656, 40015, 37696, 19517, 5206, 47646, 17790, 36087, 3574, 916, 16911,
      22727, 43784, 23039, 31285, 19203, 11136, 45297, 48762, 29892, 39032, 19396, 33697, 12419, 4019,
      27079, 24188, 22491, 27588, 15456, 17158, 41283, 18015, 39197, 6806, 31212, 35518, 45724, 16450,
      23671, 30276, 39159, 26508, 25567, 30316, 598, 20946, 4001, 40081, 42855, 42339, 38440, 38985,
      41531, 15471, 37848, 36943, 42432, 42486, 11036, 11936, 41931, 34214, 11109, 42485, 9611, 29669,
      20812, 43413, 14379, 2837, 41845, 20141, 3218, 28149, 11324, 26355, 22331, 43680, 11530, 4695,
      45983, 23778, 5241, 11545, 12500, 7338, 7396, 39574, 49389, 25428, 4482, 44740, 47521, 30960,
      37251, 43809, 9180, 13411, 47487, 11906, 37376, 27115, 18617, 18722, 44169, 17430, 45988, 42096,
      42242, 15120, 12878, 9475, 1074, 14260, 41718, 26855, 33545, 47418, 42635, 26224, 43720, 9386,
      43558, 26880, 40663, 12598, 6083, 25689, 40788, 38658, 44957, 9187, 38773, 565, 20502, 5899,
      45809, 31568, 13873, 840, 36656, 9834, 43758, 43995, 32530, 25039, 35434, 26548, 40376, 12334,
      44321, 9341, 12975, 36860, 31615, 765, 47794, 41580, 42374, 43150, 47894, 37633, 43808, 2620,
      43319, 42266, 39477, 35794, 17288, 36870, 17682, 20125, 15831, 34790, 18232, 9385, 35453, 46938,
      32839, 33793, 12751, 25788, 25034, 30344, 30652, 13908, 33957, 23207, 44832, 26020, 31587, 3499,
      47562, 41275, 35477, 19116, 20601, 4242, 20344, 45883, 1359, 12931, 31533, 26148, 17263, 34346,
      23957, 1509, 12780, 36880, 48936, 1845, 27939, 12243, 7838, 6963, 27610, 46462, 29318, 13769,
      15700, 20284, 12002, 4332, 29672, 14367, 11678, 41417, 10251, 25818, 36382, 29369, 2108, 12501,
      10778, 28466, 7773, 40616, 3644, 30171, 38091, 11351, 36951, 45516, 48207, 48505, 43284, 636,
      8983, 16630, 22666, 4512, 1193, 32813, 17360, 32305, 42745, 13866, 6786, 2963, 21947, 9776,
      22076, 4515, 9581, 14267, 3216, 34743, 37297, 2460, 32746, 18066, 39657, 33257, 33439, 44034,
      41529, 26623, 30788, 43819, 4151, 432, 5167, 23984, 34600, 26016, 45381, 12697, 37, 32544,
      33024, 32140, 20372, 48976, 40678, 37361, 713, 559, 48131, 37089, 35103, 13091, 37305, 12612,
      46805, 6131, 25457, 39770, 30382, 13092, 32542, 26325, 20684, 41272, 18890, 24714, 28812, 18964,
      24815, 13017, 13879, 3747, 11600, 1597, 44294, 20874, 30677, 40122, 14080, 24312, 9372, 49482,
      22391, 4302, 35774, 22694, 45124, 13285, 48905, 28439, 7523, 38598, 48800, 42042, 1559, 13313,
      13528, 25017, 19317, 7928, 2107, 30363, 31262, 47102, 38216, 19465, 47453, 30624, 10447, 12561,
      15863, 13936, 7939, 16105, 44152, 19797, 40120, 42889, 17290, 46189, 760, 19502, 33754, 26867,
      33092, 30563, 17064, 35365, 16679, 30712, 30177, 11735, 1785, 4382, 21702, 46048, 9476, 4893,
      22117, 12646, 15321, 43782, 29480, 22211, 15234, 17254, 7407, 21692, 18101, 2648, 2586, 25287,
      29381, 19544, 11009, 35950, 31042, 11672, 37571, 4218, 38460, 9795, 30697, 31075, 12779, 26999,
      9371, 20140, 7378, 48047, 1754, 148, 25362, 45668, 38140, 44863, 15545, 34381, 5829, 3770,
      28343, 48158, 2015, 5192, 48874, 45608, 38524, 33371, 38097, 48956, 865, 43667, 23396, 41849,
      4477, 47662, 45663, 16865, 32885, 37598, 4507, 5344, 21586, 352, 4460, 17157, 44586, 3873,
      179, 12638, 24544, 26754, 21177, 7436, 41362, 5958, 14110, 34568, 364, 14648, 15082, 32031,
      6038, 8221, 49094, 13895, 32345, 2801, 41483, 35690, 47094, 12856, 48796, 24853, 1245, 22745,
      20921, 13746, 30615, 36821, 38699, 3239, 32876, 43324, 16150, 31100, 41836, 14728, 18158, 45795,
      6475, 11319, 41342, 22228, 36302, 4394, 22257, 48031, 23195, 20774, 20732, 3567, 40258, 40661,
      42467, 25734, 21534, 11317, 38262, 47370, 17357, 37067, 38640, 37606, 23761, 19420, 1789, 13739,
      13662, 39963, 32383, 25651, 29256, 40707, 9230, 39098, 10, 10839, 38636, 8855, 17810, 1403,
      47138, 43946, 44788, 31958, 10585, 40947, 44272, 2431, 8515, 34112, 22620, 372, 909, 14915,
      46276, 41694, 2402, 32161, 28743, 11662, 21686, 39534, 11415, 34012, 1195, 35758, 29902, 15704,
      256, 16365, 8205, 1409, 49768, 20061, 4725, 46530, 24722, 25192, 48418, 29508, 10055, 28952,
      42063, 4784, 13663, 7522, 9304, 15870, 1725, 43270, 46482, 21823, 21514, 5912, 24843, 46059,
      13886, 41731, 38379, 22891, 25964, 46957, 42921, 1379, 7689, 3688, 28287, 22258, 28067, 10435,
      34413, 15659, 36558, 16182, 652, 49103, 24256, 3621, 5328, 7219, 47104, 40599, 11162, 12,
      6152, 11663, 2810, 26902, 49196, 35457, 11161, 49718, 30628, 41594, 12363, 47704, 1506, 37134,
      29047, 34898, 41653, 34416, 21274, 15928, 6766, 38374, 36912, 48677, 21605, 19093, 41948, 22286,
      45760, 14963, 20460, 48323, 48426, 34311, 12120, 19510, 3414, 22369, 14408, 32583, 32800, 7187,
      27713, 44170, 12213, 43783, 22684, 17323, 18680, 17325, 30783, 8749, 33513, 4083, 21774, 27846,
      21966, 35645, 45093, 2651, 38142, 21329, 22030, 11595, 18205, 1312, 560, 7146, 33725, 34878,
      37876, 39994, 31759, 5387, 47694, 49055, 13535, 47951, 45680, 11197, 40917, 10391, 19344, 37408,
      35167, 7310, 17276, 7737, 25557, 9597, 36617, 35393, 33012, 11340, 30418, 30807, 3346, 19257,
      15835, 41707, 28261, 8959, 32584, 19971, 43982, 44427, 28876, 23178, 39419, 4947, 8627, 16218,
      9967, 43575, 93, 21550, 28583, 28314, 39939, 6791, 27757, 49913, 41155, 13450, 45102, 16331,
      42505, 1885, 46777, 12786, 5773, 40431, 20707, 30160, 2, 16091, 2759, 45012, 27928, 26013,
      9425, 27775, 3175, 26425, 11294, 16304, 35233, 30958, 14274, 47830, 25025, 47531, 2511, 15248,
      44756, 4491, 36389, 2317, 7086, 18569, 37245, 10082, 1155, 2486, 16713, 41635, 26728, 22948,
      35995, 19381, 19551, 13541, 4392, 43365, 42619, 18847, 41082, 19230, 8872, 23970, 8859, 32328,
      34959, 9921, 6668, 13358, 18454, 23977, 22686, 12818, 38677, 40607, 31385, 34502, 38015, 40088,
      20431, 42798, 43095, 31472, 38066, 18706, 37008, 40905, 10095, 13934, 27331, 16205, 45926, 7612,
      23286, 11934, 21618, 19656, 10141, 21657, 46419, 2889, 30897, 43560, 788, 10131, 19731, 24874,
      43550, 25738, 19569, 36169, 44023, 22580, 24078, 45747, 36145, 33351, 9972, 43697, 28363, 25705,
      44773, 32449, 16733, 40679, 41711, 19733, 801, 43024, 30984, 11650, 25368, 17273, 37941, 39267,
      47089, 27940, 43434, 17352, 28618, 18320, 32222, 40477, 6853, 35524, 6458, 29388, 14855, 12809,
      13806, 18000, 39710, 48914, 34938, 37855, 36490, 8077, 2956, 42414, 32112, 16016, 45915, 38383,
      10974, 49249, 13444, 13824, 10067, 28341, 26940, 35169, 12397, 39291, 29217, 15702, 40944, 41255,
      32060, 11139, 26382, 47803, 23296, 18385, 34470, 38409, 29521, 45014, 33892, 37289, 818, 27599,
      7764, 7727, 43687, 9735, 21923, 18595, 20493, 35901, 37032, 15329, 7972, 4677, 19131, 22322,
      43528, 44786, 25761, 16246, 28549, 4331, 39830, 4663, 42865, 27862, 6696, 35135, 11157, 9721,
      13928, 5956, 16142, 47969, 37563, 18824, 12884, 15401, 31113, 34258, 18976, 36015, 6849, 1425,
      34764, 11864, 35459, 28708, 41926, 31639, 45840, 6843, 32275, 28225, 8572, 10813, 35029, 40817,
      3196, 26613, 47203, 486, 370, 21376, 33551, 42930, 27654, 6382, 47096, 15407, 8837, 30408,
      19622, 16682, 17257, 30869, 34815, 32872, 24003, 43710, 13266, 38452, 23112, 30336, 3632, 16493,
      15893, 11656, 18522, 16691, 40990, 25318, 12663, 669, 15184, 42610, 32873, 23161, 49069, 44459,
      34207, 29097, 11039, 15775, 20317, 39465, 22958, 37579, 41883, 3258, 34076, 29990, 13877, 48736,
      40100, 34332, 25762, 33714, 11760, 30031, 43994, 39349, 17615, 35771, 24599, 11978, 19747, 38157,
      12055, 44457, 34077, 11345, 19859, 31115, 2196, 4566, 24124, 31891, 36737, 35282, 21248, 31095,
      12577, 15754, 43930, 22611, 22375, 8791, 28264, 46867, 12881, 20369, 21390, 11249, 9777, 5257,
      25179, 42592, 13932, 5322, 11586, 29482, 49761, 45794, 36069, 48133, 23227, 12041, 38174, 26751,
      33480, 5783, 4409, 11688, 38688, 44496, 38179, 5574, 16934, 35825, 36009, 31498, 44612, 45206,
      43383, 8493, 47551, 19648, 44540, 32471, 18482, 23385, 45512, 40060, 49582, 36439, 49401, 37909,
      20800, 26872, 10394, 47249, 2934, 10794, 4311, 14691, 39365, 21371, 26986, 1353, 12489, 21217,
      5752, 43165, 37066, 46586, 24406, 16440, 3412, 10416, 19239, 400, 35754, 16043, 39373, 21182,
      30255, 25570, 26205, 4846, 24386, 12664, 6554, 29401, 43211, 38549, 19657, 597, 1102, 7233,
      42403, 31106, 519, 34523, 37276, 34131, 40719, 5263, 33837, 8419, 17463, 43406, 26784, 22995,
      24230, 32694, 665, 31320, 43598, 13796, 44997, 29171, 25605, 34467, 28419, 18261, 43534, 23704,
      47012, 23184, 37684, 7065, 49195, 2979, 16988, 13750, 6861, 8168, 18897, 32450, 8128, 29011,
      16475, 20229, 27250, 38014, 39709, 36664, 49798, 17733, 34489, 38674, 36545, 15210, 15722, 44025,
      4050, 33382, 13894, 40473, 16956, 19965, 39873, 6372, 7244, 5062, 36370, 22139, 27563, 15764,
      23332, 40524, 41453, 25596, 16412, 26442, 10086, 26145, 30794, 19768, 10766, 25958, 22401, 35724,
      7869, 29823, 5409, 25995, 40288, 37207, 45343, 37458, 34326, 10892, 35256, 3291, 18147, 36291,
      37310, 15371, 3400, 42654, 17350, 2272, 18758, 14429, 45857, 33001, 35454, 30598, 25112, 9843,
      16676, 27412, 44637, 46533, 11392, 19254, 17261, 29510, 27785, 9964, 10635, 32624, 49949, 13231,
      2739, 13201, 21263, 4357, 28754, 19775, 6642, 10420, 20802, 37415, 27937, 17070, 20968, 17221,
      8458, 5791, 26582, 1726, 39139, 18608, 45721, 19563, 45851, 37375, 43422, 44766, 48623, 1067,
      40048, 23763, 24485, 11258, 10940, 16006, 23351, 28205, 38934, 6461, 19445, 889, 33734, 10481,
      5153, 34731, 27701, 9850, 12062, 14496, 25703, 1909, 15690, 8353, 39601, 47911, 4134, 2738,
      2835, 26119, 7213, 40373, 33743, 35036, 36538, 42141, 132, 33349, 9716, 33161, 22942, 29565,
      30815, 46478, 47240, 20661, 8183, 46061, 20595, 49465, 24811, 37381, 16607, 17358, 8593, 27750,
      41332, 20393, 10150, 22606, 20982, 19787, 19899, 47098, 4712, 35676, 43876, 45443, 8071, 11767,
      18807, 15890, 38032, 38931, 19932, 24829, 21360, 23932, 5481, 49050, 23958, 6895, 21885, 27885,
      47928, 18768, 35418, 17459, 49895, 47328, 8789, 3190, 25708, 3650, 47581, 20454, 38744, 3370,
      33435, 20842, 44374, 1764, 46473, 43079, 47386, 33782, 46607, 15629, 28527, 7903, 28615, 13334,
      18120, 14692, 11539, 17952, 17127, 20378, 26555, 28955, 8817, 25692, 6284, 6273, 8536, 15651,
      30028, 12641, 47476, 24665, 20719, 47501, 37094, 4662, 21498, 31359, 8587, 13306, 32959, 21596,
      3641, 26336, 15799, 48477, 21, 36486, 32563, 35670, 36074, 41309, 5534, 44703, 19276, 33547,
      15235, 36981, 43040, 22912, 36199, 17207, 46756, 26841, 41265, 36390, 4259, 37493, 1469, 13322,
      42308, 25496, 41330, 45277, 8424, 368, 47913, 31021, 13112, 9491, 16448, 30348, 11384, 20594,
      36613, 11017, 21700, 18105, 33172, 36828, 49800, 10683, 34592, 10972, 49188, 36526, 3232, 18302,
      31467, 7246, 28511, 1831, 1242, 44124, 25735, 41567, 4656, 47058, 28906, 8998, 46636, 32737,
      41111, 47783, 42413, 7490, 18161, 14772, 42309, 1777, 39287, 24161, 32312, 15111, 11133, 13072,
      46936, 1823, 31008, 23027, 22784, 19935, 47798, 40039, 21630, 29294, 14779, 16117, 41934, 12470,
      16619, 737, 16608, 3293, 33146, 42953, 23290, 3845, 28469, 29441, 44309, 13777, 49422, 45731,
      22301, 37792, 12270, 1658, 32980, 23698, 20803, 1214, 21577, 15898, 15762, 14195, 33560, 42314,
      49902, 49291, 37266, 9505, 2413, 34492, 27398, 32214, 834, 9063, 9455, 48645, 12537, 13163,
      29506, 33988, 22936, 5609, 11907, 4581, 15089, 10292, 9677, 2523, 31933, 48461, 19462, 29409,
      40228, 25881, 4782, 30782, 19558, 31047, 4381, 38192, 33760, 14435, 7642, 39220, 18549, 32391,
      49776, 20187, 35281, 47528, 43396, 10618, 26739, 45354, 7637, 6854, 10619, 1386, 47033, 21323,
      555, 18705, 16704, 35863, 3285, 9930, 9166, 7847, 1313, 26469, 20343, 11095, 40218, 27909,
      38231, 14706, 32069, 37840, 25757, 39339, 44963, 38043, 18653, 42958, 18256, 2972, 24982, 17806,
      49987, 34625, 47215, 29283, 49379, 2765, 1541, 41426, 40030, 49446, 20991, 8434, 23495, 29332,
      12388, 21922, 47579, 26567, 42237, 43445, 8563, 3771, 17493, 4655, 47349, 11434, 32649, 47756,
      32536, 294, 41034, 27499, 12682, 19938, 9096, 1737, 45589, 20365, 33329, 15357, 36113, 11492,
      9628, 49337, 8314, 42487, 9719, 44332, 21322, 45763, 32826, 29059, 28942, 35969, 3435, 46900,
      18033, 35278, 17322, 43321, 28174, 49390, 12886, 47984, 43637, 16138, 37789, 28114, 30805, 5993,
      9107, 48798, 20799, 22754, 26393, 27684, 41297, 47643, 34840, 12122, 14837, 38590, 13335, 3513,
      46689, 30992, 42615, 23866, 24094, 23341, 3782, 46068, 31225, 9336, 15385, 48614, 10702, 27566,
      26849, 35628, 33989, 4864, 24118, 13280, 12390, 6085, 26579, 12546, 4924, 4532, 49546, 34440,
      32408, 43839, 4055, 46045, 47310, 10000, 23535, 43926, 11953, 28400, 2850, 29195, 44851, 10255,
      24290, 43387, 12879, 19838, 37085, 25020, 23769, 5519, 858, 43768, 5972, 20823, 40643, 49603,
      595, 49131, 8804, 24183, 28997, 9746, 14352, 10165, 1951, 9120, 5649, 15847, 7910, 14781,
      7830, 2513, 39500, 38327, 7526, 7860, 4700, 35001, 32720, 27626, 24976, 24340, 17560, 25008,
      29774, 31501, 11926, 22044, 42532, 9215, 27874, 25103, 20539, 43052, 29187, 14086, 20625, 5424,
      13265, 23831, 28840, 15567, 40260, 28656, 8995, 34318, 17393, 23519, 14842, 10929, 22998, 37863,
      36011, 21359, 727, 31711, 14591, 22104, 8169, 23244, 331, 39795, 211, 35031, 39111, 3543,
      28740, 34206, 10707, 19252, 16251, 13237, 4792, 45097, 2017, 30980, 48929, 39243, 48170, 33688,
      24111, 12171, 31634, 16396, 4868, 33586, 10976, 46323, 9896, 453, 9241, 3457, 46878, 47871,
      17043, 36901, 23806, 29715, 33108, 33708, 35507, 25988, 36964, 33638, 2786, 49437, 36839, 29825,
      24074, 8222, 8123, 39131, 5796, 36445, 8864, 48274, 45221, 29680, 41570, 5188, 47155, 17492,
      19613, 35030, 19157, 42940, 5057, 22219, 20710, 44285, 13186, 1779, 35321, 49893, 2686, 1040,
      24931, 16939, 3071, 20858, 40297, 42392, 44970, 44489, 29844, 7766, 28561, 46062, 15682, 46748,
      15663, 15128, 12031, 43785, 7961, 40167, 1906, 29505, 25345, 48321, 10303, 13503, 38607, 2024,
      17397, 28, 9718, 44674, 33123, 3170, 31663, 44122, 11560, 38411, 18460, 3675, 15450, 20608,
      6749, 32888, 6794, 20612, 38347, 328, 4710, 19665, 2370, 38290, 35312, 15791, 27382, 45440,
      10871, 18562, 4898, 37921, 1209, 13362, 42573, 46531, 25473, 35891, 78, 26120, 48543, 42031,
      46622, 48899, 29799, 47567, 5682, 9493, 44085, 45051, 20390, 37637, 15605, 14485, 6213, 19641,
      34550, 39753, 13275, 5544, 34714, 21137, 48088, 17061, 14385, 27181, 6789, 34160, 26287, 20121,
      49749, 39462, 35983, 8989, 12404, 9969, 12305, 1770, 22368, 45399, 10912, 30988, 35790, 28804,
      38169, 7856, 10100, 39643, 21575, 37387, 28185, 45114, 8719, 8558, 43072, 12516, 24530, 40736,
      20648, 24251, 12454, 6825, 31826, 22554, 34841, 40927, 43968, 4423, 6862, 39754, 21252, 9490,
      20760, 15635, 40050, 35694, 42756, 9825, 9479, 8733, 46632, 16874, 20081, 2013, 40634, 38445,
      33715, 33383, 2147, 41556, 39897, 43907, 9699, 45367, 6841, 26811, 17194, 6269, 2073, 37260,
      46311, 40502, 33653, 18174, 11334, 14621, 15332, 40097, 3895, 767, 41017, 18029, 8012, 49414,
      28801, 28718, 16363, 43875, 24747, 808, 24309, 1468, 30337, 10550, 35490, 5419, 47095, 17548,
      34328, 21059, 12673, 6041, 12061, 49512, 48232, 31362, 25628, 18635, 34929, 21058, 23840, 9247,
      37420, 25502, 15733, 10116, 22763, 7265, 29483, 46593, 36704, 11725, 15043, 23525, 27608, 36975,
      23097, 30974, 31673, 14033, 47233, 26028, 34917, 20541, 31345, 26498, 74, 719, 23723, 36784,
      43674, 3932, 14670, 43806, 47659, 2509, 40049, 49875, 32317, 30728, 45520, 4067, 20104, 13100,
      30544, 27818, 3145, 17513, 8697, 42075, 30562, 37899, 24310, 24845, 20619, 24207, 40164, 17138,
      1537, 45842, 46763, 35310, 6073, 43431, 20409, 21602, 23610, 31629, 33005, 20655, 22259, 6093,
      44701, 37960, 37534, 29883, 1620, 8793, 21301, 1308, 14374, 1582, 48037, 35199, 1044, 46952,
      37777, 7633, 10931, 26691, 38563, 31076, 38259, 45819, 20183, 42594, 1600, 45515, 1849, 1752,
      34808, 18467, 40733, 37999, 33314, 38967, 46063, 5147, 25251, 10737, 18051, 12191, 10694, 22398,
      44975, 39937, 32334, 16559, 22372, 11801, 34864, 20171, 28930, 14650, 15574, 41256, 9318, 48196,
      18825, 42150, 17706, 24398, 27328, 36833, 15096, 1294, 29583, 30962, 34768, 34831, 28647, 34275,
      39451, 20002, 5577, 35660, 40857, 5611, 5077, 5335, 9546, 23350, 4141, 7938, 44585, 48525,
      13036, 44931, 30836, 38784, 12224, 23104, 9583, 21015, 31846, 27027, 48636, 2251, 25601, 3670,
      42984, 25401, 46461, 25212, 30725, 43462, 13436, 37528, 17331, 11689, 23369, 42407, 14196, 31816,
      49614, 20269, 49534, 12963, 6697, 25820, 46589, 27867, 23515, 38826, 17948, 48707, 37466, 10750,
      3320, 21576, 10464, 30733, 12446, 4773, 39343, 45285, 37477, 31836, 42544, 41508, 23916, 45698,
      24143, 20981, 30492, 25993, 38553, 13560, 39993, 2311, 28919, 23380, 29685, 12658, 8391, 41445,
      15167, 12916, 2823, 4551, 38104, 11437, 20837, 47113, 28477, 11353, 3749, 16821, 16532, 27370,
      8399, 9079, 524, 45772, 30766, 25523, 3727, 9472, 23183, 32890, 20750, 30461, 15620, 2283,
      2302, 23781, 3052, 14292, 5820, 28036, 42089, 15173, 19950, 48, 26708, 16885, 31819, 35953,
      14345, 229, 1211, 35592, 8772, 33737, 35775, 29163, 20689, 49451, 17458, 10942, 1986, 46771,
      39978, 35712, 44355, 46523, 25022, 14016, 26746, 37201, 44008, 36929, 3117, 17509, 11232, 38090,
      13753, 43929, 6240, 35187, 12316, 6207, 13303, 7170, 29443, 23590, 43673, 33785, 37500, 28853,
      24127, 18312, 350, 45814, 32991, 36404, 49152, 25563, 44223, 35268, 48819, 47637, 33332, 10367,
      33690, 3385, 36701, 30554, 31932, 7959, 19091, 14516, 49587, 49676, 22340, 30522, 36303, 27304,
      18316, 26973, 28315, 7777, 32930, 17205, 26639, 39136, 24662, 45054, 15994, 49098, 30286, 10889,
      29150, 7645, 14116, 9589, 45489, 2833, 26756, 23790, 44022, 38176, 24624, 28324, 42341, 44524,
      9979, 42363, 18259, 14549, 36863, 19073, 3990, 40828, 39307, 14799, 46792, 2785, 3880, 33861,
      37953, 45495, 40522, 11975, 7746, 36713, 26505, 34932, 35654, 10109, 25092, 37122, 5666, 32940,
      33407, 3407, 22880, 5065, 1548, 7435, 10024, 33804, 11814, 14419, 18827, 29113, 43675, 8418,
      9582, 45207, 28666, 12458, 13107, 41025, 12467, 32332, 45768, 45407, 33122, 44077, 38672, 33932,
      845, 25389, 3395, 11559, 23147, 3127, 15138, 41269, 44834, 45929, 954, 16535, 3587, 3557,
      45783, 28948, 47699, 26569, 37939, 6743, 40166, 11267, 28481, 47709, 9484, 16892, 13890, 48913,
      24405, 18645, 23042, 47371, 8177, 11620, 7857, 20805, 17485, 35371, 8609, 8061, 36018, 12601,
      28716, 33477, 32886, 4598, 2042, 40187, 6130, 31528, 33085, 10566, 38083, 2064, 14457, 13419,
      29661, 22990, 31169, 21387, 6523, 25957, 27433, 38507, 39044, 14953, 30859, 5470, 22200, 14336,
      30936, 24014, 36931, 27301, 13180, 33171, 37679, 27926, 11422, 42133, 45846, 6378, 18625, 19867,
      14744, 44507, 36307, 6310, 9219, 38285, 35362, 48753, 42927, 31213, 44824, 39422, 14266, 15867,
      21411, 49849, 21665, 1502, 27445, 26183, 29777, 48185, 30640, 678, 16378, 5851, 7194, 16301,
      29841, 2939, 34618, 22906, 1070, 17929, 6784, 14444, 10672, 19156, 36160, 44560, 27912, 19790,
      21120, 41168, 21782, 28258, 28362, 37661, 8720, 17106, 21560, 48057, 41266, 19159, 43822, 38885,
      12716, 39335, 24099, 5670, 24518, 8949, 21876, 49100, 31556, 26128, 48115, 33342, 24833, 11182,
      37146, 25616, 47332, 15123, 16698, 30761, 41662, 27765, 48760, 8695, 22738, 10514, 10748, 17232,
      35016, 15958, 38384, 31692, 48708, 22486, 43686, 24502, 28513, 30828, 27307, 21939, 38867, 14390,
      33765, 12926, 25752, 29416, 40162, 20756, 19881, 17794, 8032, 1407, 28690, 47945, 14021, 14254,
      18196, 31351, 44727, 33461, 10725, 21395, 3443, 9174, 46641, 4175, 13844, 46038, 13382, 26424,
      16645, 11529, 15979, 38265, 36643, 20400, 3626, 39132, 39520, 37879, 14157, 36323, 10386, 30270,
      46550, 19751, 3516, 35294, 15032, 43091, 1168, 20528, 40660, 24660, 3149, 17264, 23956, 19122,
      13439, 34235, 8154, 49043, 13833, 28902, 29992, 4137, 19423, 4150, 39236, 14017, 6571, 28408,
      15366, 23851, 46335, 40978, 15155, 13779, 33635, 27043, 15761, 46273, 402, 37196, 48244, 3057,
      47857, 39828, 3317, 12118, 40633, 23595, 12126, 39619, 18231, 49375, 17718, 25163, 38523, 48312,
      6997, 49017, 45388, 706, 3491, 15339, 37341, 15823, 45517, 24090, 7054, 5580, 31416, 35919,
      39385, 31099, 49214, 11991, 36790, 32353, 38698, 25650, 2607, 41886, 41950, 2429, 3815, 37335,
      47329, 18646, 835, 8624, 33941, 25494, 22821, 5565, 40870, 21673, 28333, 40866, 4951, 15194,
      18799, 49753, 23718, 19177, 11332, 40563, 49355, 36175, 27675, 25009, 43744, 8963, 34765, 8417,
      12278, 30328, 27710, 5629, 36770, 45008, 37521, 42292, 45451, 26019, 3681, 19403, 40216, 29475,
      42866, 3985, 15198, 44166, 41973, 43725, 20786, 37045, 3666, 8412, 18830, 23205, 33422, 39288,
      22834, 25343, 19556, 11831, 28742, 16928, 33972, 35651, 41381, 42025, 7242, 2637, 47811, 19049,
      43579, 18252, 877, 27105, 49702, 27959, 4379, 11957, 19187, 27573, 3908, 10763, 40456, 26331,
      48257, 24831, 20836, 30297, 40843, 14635, 32152, 13161, 31390, 6479, 4711, 41214, 12476, 33757,
      35450, 26535, 42470, 20698, 17392, 39148, 23023, 22356, 43830, 40555, 22538, 29571, 27200, 36591,
      21646, 8446, 43835, 29087, 37927, 1798, 17143, 654, 44908, 5812, 21672, 2892, 48376, 5636,
      9612, 3044, 24904, 21691, 41213, 6159, 13515, 6022, 37860, 49006, 13569, 11211, 11221, 10828,
      23121, 4763, 27594, 3659, 3326, 9465, 2663, 25938, 46145, 27829, 21917, 11673, 30831, 46301,
      43816, 34695, 44683, 33313, 49912, 2880, 22223, 42262, 9145, 32018, 21341, 29412, 45961, 11154,
      27689, 16195, 37388, 33710, 19619, 47860, 41136, 41395, 24918, 31625, 16692, 32427, 6727, 40701,
      48472, 49425, 29553, 20914, 23777, 23456, 31406, 12817, 46545, 28960, 43941, 48586, 2623, 22302,
      29148, 41302, 41139, 47649, 33505, 19222, 37706, 24600, 14249, 40115, 43705, 42281, 39263, 755,
      21304, 2779, 24503, 46671, 30077, 38968, 20308, 16453, 21751, 8084, 15047, 38450, 48987, 49955,
      18064, 40325, 41337, 42429, 15734, 38729, 18987, 12373, 30251, 7868, 1269, 21797, 45104, 31624,
      28806, 6998, 30935, 11283, 27302, 8669, 9521, 18667, 20116, 9045, 23508, 46525, 49635, 41833,
      23004, 23331, 5127, 9327, 29140, 1545, 739, 10875, 1674, 16121, 2567, 29697, 39752, 39563,
      45322, 4732, 45085, 33541, 8521, 21584, 47595, 32786, 2244, 3203, 40056, 28885, 5204, 30825,
      39691, 20224, 46363, 11998, 47330, 1936, 6665, 3240, 36077, 10358, 363, 20107, 43633, 24054,
      37494, 8738, 19324, 34409, 40775, 20901, 27914, 1172, 37268, 22469, 36110, 36132, 48290, 534,
      12665, 34178, 12479, 39434, 17199, 22884, 23706, 34899, 34565, 40495, 4575, 5190, 40935, 19506,
      15732, 30429, 20659, 33291, 3089, 1996, 21637, 24813, 11819, 2831, 8269, 32355, 26111, 7489,
      15627, 29878, 45219, 39469, 1299, 31315, 39041, 5499, 6447, 15613, 47369, 17864, 27369, 17985,
      32559, 7067, 26905, 35709, 26327, 20045, 15116, 46597, 41515, 21209, 25739, 5680, 11549, 34305,
      43844, 67, 5555, 3010, 17107, 40096, 36953, 48741, 42317, 27718, 13647, 48733, 38799, 11397,
      13147, 4582, 3228, 7367, 10681, 143, 18895, 29813, 23817, 48502, 39472, 9344, 14141, 33980,
      29079, 42943, 18733, 9261, 20085, 46076, 21811, 20167, 46269, 25241, 29238, 23600, 38762, 27454,
      37040, 30699, 43146, 786, 11049, 18100, 43911, 15792, 12379, 7853, 153, 45514, 13016, 14873,
      14259, 37394, 26870, 17380, 48100, 32922, 11468, 32363, 22634, 4654, 8055, 45551, 23889, 30851,
      8926, 32924, 35853, 1552, 13393, 33324, 2148, 495, 13865, 35089, 25161, 32919, 49237, 46357,
      45728, 1364, 18122, 19385, 25693, 23345, 29968, 15696, 19267, 3720, 39895, 9533, 26619, 17272,
      38239, 19585, 4920, 4823, 31376, 15479, 32167, 16727, 4136, 19572, 20906, 27160, 2121, 6858,
      992, 16149, 7382, 49528, 15630, 26636, 7366, 47566, 21118, 20977, 3565, 5840, 16667, 49107,
      12861, 22559, 18984, 41679, 36919, 16075, 14271, 14130, 49606, 20462, 10313, 43087, 23760, 47374,
      30435, 4321, 35929, 35398, 3174, 35333, 47274, 17587, 20028, 26502, 3114, 26655, 47589, 23110,
      43294, 35228, 3225, 40860, 20175, 40566, 8997, 46914, 40544, 14201, 49657, 35908, 38106, 47100,
      25142, 46104, 39886, 6937, 17451, 36686, 29062, 5529, 5398, 11360, 14380, 17285, 46863, 35897,
      10740, 8320, 5269, 34629, 10891, 49854, 24700, 41993, 32769, 35474, 13327, 21709, 9196, 39725,
      2155, 19782, 4011, 48689, 33302, 11962, 32016, 30890, 38591, 12352, 15323, 45912, 23065, 9269,
      48537, 32634, 8683, 42511, 41856, 16562, 6464, 26532, 47114, 29491, 18300, 27761, 48532, 26081,
      40875, 14904, 49388, 34678, 15927, 28610, 1301, 23991, 17517, 1230, 27094, 34085, 4368, 41081,
      27025, 43555, 13854, 6080, 47285, 35369, 6568, 28060, 18557, 12746, 19989, 13276, 22813, 29245,
      25186, 7995, 41910, 36536, 32574, 37845, 24658, 9599, 4631, 240, 15424, 29511, 12197, 43761,
      27155, 44850, 27314, 32439, 7465, 34635, 43754, 35289, 1820, 2410, 44394, 8243, 28464, 39405,
      16576, 37333, 29991, 24326, 13929, 47682, 6391, 34886, 42818, 36547, 41785, 37729, 2809, 33266,
      11445, 33686, 45212, 37052, 45418, 24746, 228, 47149, 35509, 13329, 11703, 9271, 44614, 6001,
      4897, 5583, 28229, 40635, 28899, 19894, 33896, 44838, 10400, 34335, 43066, 34474, 23834, 3153,
      10364, 11523, 40067, 215, 39008, 23488, 26950, 9824, 35693, 9637, 35489, 24277, 49967, 40277,
      35427, 24426, 1449, 39620, 26312, 13799, 27812, 45448, 28307, 45590, 47593, 29670, 10832, 41821,
      34273, 6054, 31875, 36993, 48610, 23824, 48536, 39536, 35967, 49341, 6449, 7951, 28132, 14626,
      15804, 37203, 11357, 44016, 13668, 31105, 14645, 18445, 21029, 27388, 3775, 16374, 5596, 34758,
      27125, 42065, 23649, 44549, 46776, 36942, 41505, 41984, 23308, 29424, 1907, 15581, 25855, 10143,
      48729, 41311, 47316, 33751, 40801, 38248, 48314, 21181, 24327, 43254, 37425, 39182, 15386, 26181,
      35918, 44484, 9265, 38737, 30480, 29086, 49349, 34159, 33214, 40205, 45789, 8802, 46221, 33139,
      38914, 14559, 42543, 17796, 47671, 28386, 46415, 22504, 34980, 5603, 8881, 22388, 38185, 4938,
      20008, 3158, 20651, 9158, 31973, 463, 615, 6380, 20213, 8181, 17719, 16574, 2716, 36736,
      26220, 15240, 30022, 5178, 49409, 42771, 22706, 44279, 40157, 25783, 21045, 40537, 23474, 6221,
      13386, 47932, 28129, 7037, 15474, 10570, 15511, 43509, 45599, 6358, 47261, 6691, 10785, 15881,
      31898, 33798, 41932, 28350, 42256, 1577, 23122, 15859, 32335, 9947, 36561, 20039, 20711, 21493,
      17551, 32728, 47027, 47372, 35685, 5586, 14605, 39094, 31670, 1515, 35139, 3432, 20863, 4239,
      19773, 34158, 893, 39867, 26426, 5074, 24900, 25791, 15187, 2933, 32330, 29265, 11970, 49001,
      28022, 1129, 731, 11110, 30329, 3084, 7297, 37356, 31926, 2795, 25363, 7601, 798, 22616,
      17118, 43717, 178, 17558, 13798, 42598, 17174, 32567, 27777, 32966, 24648, 29769, 16932, 12940,
      23849, 11772, 38498, 4616, 15103, 7533, 66, 49256, 37480, 21598, 15689, 47363, 5033, 39683,
      35340, 48159, 20225, 17006, 9873, 38990, 787, 3332, 30966, 49558, 6008, 24162, 8334, 48619,
      6297, 32264, 1191, 515, 30734, 30024, 37244, 27223, 21435, 23283, 43000, 1001, 14622, 18982,
      17898, 6191, 14175, 40005, 5753, 34836, 40581, 41004, 16252, 24920, 15905, 1462, 24299, 18255,
      37344, 42624, 27464, 45574, 7349, 4818, 220, 26337, 44414, 12632, 19937, 27773, 4603, 37016,
      22499, 39255, 7036, 42224, 5650, 28311, 17632, 46125, 49000, 29863, 2881, 18061, 42058, 22444,
      901, 18981, 39932, 34949, 8488, 42481, 30232, 23464, 8219, 1627, 6772, 12021, 14678, 11440,
      44797, 47221, 28967, 40025, 2580, 40734, 47139, 34924, 4340, 46205, 42330, 35461, 18771, 1073,
      21638, 17065, 37298, 29351, 32626, 3159, 38353, 35755, 21292, 34650, 21398, 31334, 18324, 19680,
      5974, 3729, 490, 22092, 33949, 1375, 37782, 31658, 17010, 4758, 30341, 10304, 6040, 28756,
      2841, 36948, 36854, 47678, 2887, 8876, 20923, 23067, 39439, 14997, 22837, 41979, 17750, 47281,
      19023, 17575, 5602, 32894, 13921, 5730, 14745, 5296, 13851, 45476, 17696, 25274, 42939, 28379,
      20918, 42833, 40437, 6869, 21042, 43240, 9943, 9643, 14892, 29709, 39661, 39449, 38196, 9190,
      48026, 21650, 3786, 34552, 29809, 39884, 4683, 42814, 4270, 32113, 34806, 20425, 42049, 19281,
      48358, 44953, 40644, 3340, 43904, 19037, 32230, 38679, 14287, 41863, 41282, 2031, 21473, 17197,
      7235, 12755, 15327, 30951, 20590, 29850, 1079, 18610, 47051, 28091, 27281, 38417, 27672, 26026,
      14318, 28805, 14506, 36630, 2936, 3917, 30063, 34457, 26299, 28112, 45549, 33073, 36824, 44659,
      9837, 9706, 35081, 30720, 26027, 14308, 34581, 19880, 41798, 2062, 6470, 17400, 6477, 38220,
      11279, 29831, 16940, 29122, 42674, 49856, 37038, 8531, 43129, 20470, 23047, 9095, 19522, 44644,
      32092, 16972, 36133, 5515, 11781, 8226, 15310, 24604, 35163, 5506, 26478, 924, 40902, 12070,
      11706, 41439, 35892, 22057, 30916, 19158, 40388, 6559, 44412, 41913, 12720, 42614, 46684, 41183,
      9627, 5798, 28557, 22366, 38650, 9782, 27832, 26025, 18565, 19627, 17857, 38871, 39516, 29793,
      27843, 13009, 41850, 44193, 43951, 31097, 15966, 46739, 25785, 38308, 33189, 26347, 18690, 24849,
      16555, 3956, 5606, 49072, 24846, 34493, 1184, 26140, 42742, 44123, 33672, 19878, 8346, 7797,
      48270, 6089, 2080, 40696, 46536, 7933, 10846, 12177, 9316, 24594, 11927, 9927, 7211, 21061,
      6533, 5209, 35414, 10073, 43390, 8448, 39164, 34246, 28926, 692, 30225, 46097, 39133, 46933,
      7370, 34069, 7837, 36483, 49254, 24495, 28633, 5037, 37167, 13840, 20900, 30979, 7354, 16122,
      8750, 44315, 27151, 1436, 507, 38170, 5930, 8947, 12242, 17303, 28412, 32263, 4386, 44985,
      10310, 8921, 8693, 17027, 25488, 1539, 9121, 33979, 15284, 5867, 35328, 22490, 13029, 11569,
      21999, 390, 17848, 29001, 17576, 31728, 46662, 42832, 32021, 36358, 11350, 25081, 41203, 6719,
      15540, 47129, 27241, 14693, 946, 14327, 14414, 44306, 35932, 35315, 32157, 18157, 13007, 33040,
      20827, 25373, 36386, 27405, 7008, 48340, 42037, 17304, 4633, 31086, 17130, 40475, 19953, 41750,
      27052, 44921, 30133, 10762, 13945, 24941, 14342, 38367, 9290, 28931, 15989, 43123, 32696, 36405,
      20597, 49958, 25868, 21199, 33367, 21924, 34420, 46456, 40874, 31371, 46968, 1893, 7833, 32651,
      42904, 22886, 20746, 33030, 375, 18350, 30771, 1466, 12615, 13543, 5696, 17627, 47718, 4837,
      45651, 33709, 42431, 29098, 19041, 15882, 10905, 28621, 48508, 4875, 39346, 19183, 20690, 13331,
      46886, 33066, 25625, 23154, 17241, 40745, 2035, 20423, 10450, 42932, 18542, 43059, 17883, 49909,
      41612, 6828, 7130, 40037, 40722, 20469, 16626, 13990, 35912, 18028, 7371, 40299, 5594, 27332,
      46581, 45510, 34844, 4103, 7493, 46022, 29377, 38736, 24704, 15470, 23988, 26681, 20350, 45633,
      49757, 47495, 39522, 2575, 30425, 14389, 4042, 12853, 4078, 7754, 32467, 25216, 42230, 30791,
      15960, 19162, 37371, 21316, 14252, 34753, 20245, 40542, 9726, 16709, 43298, 22778, 935, 4054,
      48023, 37997, 20955, 13666, 40222, 34036, 864, 37710, 2253, 22394, 23382, 16755, 36634, 43116,
      40708, 33377, 37419, 47887, 30005, 25256, 15886, 38687, 20013, 14022, 18748, 7148, 43403, 12997,
      20173, 46272, 5581, 10900, 5060, 9615, 8044, 17046, 8386, 14629, 45396, 28835, 27564, 42079,
      2776, 45339, 43646, 49945, 7189, 13731, 5573, 6135, 29845, 20811, 10553, 5247, 21153, 3981,
      24209, 30564, 11085, 19053, 27540, 16663, 2172, 32083, 31899, 45874, 48235, 41486, 7452, 5197,
      26270, 17793, 13210, 15995, 28992, 21057, 7206, 21267, 22191, 3809, 43512, 42847, 25097, 21067,
      5543, 43169, 29007, 46126, 29978, 20947, 44354, 45798, 32463, 17653, 29092, 41513, 34152, 44465,
      41804, 33065, 8635, 4873, 36635, 13907, 2077, 15029, 14209, 29327, 24368, 3009, 18613, 15216,
      19226, 2537, 16395, 40130, 39404, 7498, 41777, 20426, 39321, 10770, 32535, 30313, 21889, 23238,
      21684, 28635, 37422, 320, 7135, 17755, 49825, 11984, 35422, 24881, 26627, 33654, 37770, 45860,
      31831, 3178, 244, 14758, 23853, 40975, 16527, 38751, 32528, 24535, 35131, 1161, 49764, 22337,
      287, 26206, 35230, 10068, 10680, 12450, 43485, 41449, 1170, 4675, 10374, 39560, 31308, 30497,
      26553, 33045, 45083, 23165, 25491, 28164, 45410, 3121, 41347, 17695, 41107, 36174, 22766, 31301,
      13861, 47167, 31730, 931, 30062, 691, 35349, 6364, 18293, 41789, 43041, 20950, 49323, 16428,
      20323, 41909, 39876, 41743, 4319, 35733, 3969, 25763, 4926, 4933, 14616, 13971, 48227, 23862,
      22692, 3092, 21097, 12748, 24338, 44273, 15790, 3982, 20674, 23324, 34172, 38892, 1094, 22927,
      28310, 15972, 28747, 31918, 26460, 47583, 2843, 37583, 38724, 25095, 18211, 20855, 44915, 16,
      28202, 16524, 18443, 23527, 21054, 12205, 31422, 32006, 14407, 32766, 4686, 4922, 39553, 5877,
      30595, 42316, 32443, 16459, 35113, 22831, 41198, 25006, 4586, 13675, 49557, 44795, 8378, 24816,
      25359, 47810, 38965, 25553, 39169, 5695, 2941, 45156, 31222, 45098, 21164, 40149, 47433, 38346,
      10338, 42761, 40673, 26671, 8307, 11618, 25933, 33816, 45826, 6782, 45251, 47470, 47601, 19945,
      45224, 1609, 19480, 29166, 35183, 23799, 31980, 34785, 35739, 12317, 35699, 47840, 19630, 16508,
      13001, 1814, 25416, 31976, 14586, 44301, 25174, 2123, 13704, 31721, 47142, 49605, 14191, 18581,
      20435, 17600, 40469, 27938, 47776, 32247, 41938, 33576, 44826, 21438, 48189, 40031, 30096, 4906,
      3722, 12734, 36730, 46964, 2671, 41989, 9417, 4552, 6009, 28430, 19601, 38505, 41247, 18437,
      27542, 3164, 39531, 32764, 1657, 48996, 19094, 40317, 37034, 23099, 16806, 27356, 16244, 38084,
      31601, 27877, 9673, 19229, 48504, 33769, 36966, 35186, 36343, 9772, 3558, 44818, 3854, 4887,
      28807, 47845, 5313, 25883, 37292, 13699, 30607, 4827, 33575, 3907, 29134, 39791, 34724, 10637,
      9343, 44172, 37663, 35170, 37952, 22908, 18279, 10283, 40863, 9890, 46504, 18323, 26514, 47334,
      47668, 17387, 15086, 24042, 46299, 7566, 43894, 29227, 14719, 49059, 5368, 39696, 9603, 22673,
      29425, 30143, 2618, 41669, 4485, 11795, 17369, 44036, 24366, 22553, 7384, 45686, 13269, 28677,
      9275, 33783, 9460, 2462, 9968, 42222, 47535, 6509, 48716, 589, 13136, 8848, 37392, 20142,
      39613, 18412, 43618, 41637, 36885, 9424, 5454, 45079, 34217, 6837, 44222, 29432, 20288, 18816,
      46245, 48521, 21031, 42571, 1587, 39454, 45293, 18103, 22484, 31417, 41574, 29277, 3961, 41691,
      30140, 29631, 6078, 30663, 10956, 48764, 4006, 37707, 47246, 18395, 5898, 2866, 14011, 46651,
      30209, 30266, 16968, 11460, 20316, 34028, 20922, 33078, 34484, 34820, 20671, 4668, 4298, 3783,
      33776, 7347, 10377, 46716, 9878, 2773, 13026, 12948, 25105, 1987, 46157, 40047, 29546, 35440,
      16260, 25464, 9175, 31508, 49378, 25901, 19309, 249, 40953, 27790, 38652, 28128, 34812, 6589,
      13780, 11989, 627, 45261, 29523, 28820, 23929, 46948, 4765, 26177, 47990, 6511, 2230, 20566,
      12427, 39763, 46005, 18782, 32726, 6305, 13998, 15641, 32299, 12392, 17570, 10703, 49667, 21698,
      41988, 4247, 8002, 31954, 44041, 32703, 41875, 9497, 11241, 31349, 27543, 1273, 5698, 31521,
      40446, 10988, 42358, 22999, 3358, 16567, 49503, 45939, 46665, 39281, 4567, 13255, 10848, 32551,
      46559, 1961, 4992, 4891, 14330, 30391, 24423, 25954, 30971, 49367, 6226, 27323, 38134, 34019,
      35944, 29648, 3359, 307, 29964, 48225, 32323, 12580, 48638, 9765, 1051, 14519, 11410, 9221,
      10234, 37531, 41830, 34642, 25662, 23666, 27796, 46768, 46708, 13682, 20706, 49089, 25832, 38599,
      4917, 25074, 191, 25068, 24484, 13233, 37253, 9783, 28054, 3924, 9940, 41692, 43423, 22800,
      28810, 16061, 36071, 30826, 25920, 29963, 15549, 18074, 27527, 13304, 45298, 19692, 17888, 34574,
      36639, 25864, 3791, 48464, 35554, 9259, 45688, 34485, 35464, 31027, 1848, 43391, 12852, 39390,
      36203, 31923, 29896, 16526, 6771, 27559, 39760, 13878, 30676, 48462, 46230, 44369, 33885, 30957,
      34524, 39519, 28684, 870, 9104, 33489, 10997, 27649, 17270, 18108, 5592, 41115, 26096, 24486,
      10938, 45462, 11737, 33082, 26375, 48681, 11949, 40214, 20588, 5850, 38897, 38215, 3129, 16279,
      33678, 3968, 49572, 42933, 336, 27340, 18931, 47895, 8112, 32369, 2985, 10878, 15916, 11669,
      20862, 19942, 11001, 37588, 29437, 49221, 19800, 12100, 9018, 29872, 7243, 14079, 20866, 48585,
      11874, 48123, 25805, 8263, 18678, 6855, 8597, 46035, 6901, 29932, 23963, 9949, 16436, 1445,
      48546, 14821, 1695, 43852, 17958, 22523, 20789, 1630, 33037, 1881, 14523, 13900, 37842, 5509,
      49159, 2032, 27500, 34700, 35303, 43837, 32954, 44739, 5558, 11151, 23569, 20527, 46871, 48680,
      6587, 17618, 36683, 446, 14536, 14031, 39892, 28378, 31379, 20519, 35208, 35871, 43856, 40460,
      21158, 38862, 9486, 21902, 47375, 28018, 33455, 5208, 45875, 41185, 10345, 30134, 37688, 48360,
      25566, 45862, 19520, 38230, 14139, 19567, 23906, 22765, 19583, 1447, 34057, 10692, 23741, 10335,
      49452, 34779, 23926, 44673, 15830, 15735, 12158, 18263, 18814, 12453, 38847, 38225, 45957, 11349,
      44825, 4131, 16351, 17420, 15408, 45292, 36902, 17033, 42043, 33629, 25479, 24685, 34710, 10295,
      37099, 25159, 14119, 47959, 36738, 46553, 31647, 2775, 32101, 4145, 26899, 48224, 35179, 17478,
      22449, 34314, 22418, 48686, 49563, 6953, 35903, 13232, 5750, 14715, 31085, 3805, 9076, 27230,
      46839, 15160, 39542, 16848, 42788, 28850, 29768, 3327, 22615, 40150, 1262, 25530, 23596, 17359,
      18950, 22250, 13117, 25517, 39350, 49710, 21119, 32464, 5021, 23513, 23559, 14995, 11413, 22439,
      48867, 42570, 45985, 19173, 25520, 25380, 19404, 36876, 5213, 3255, 40091, 2690, 4627, 46505,
      34087, 47505, 37930, 7226, 8566, 12192, 17519, 4529, 44435, 21133, 23470, 9941, 45130, 18062,
      39104, 6982, 46474, 10066, 917, 18889, 29877, 13288, 19288, 48951, 570, 36182, 36484, 25515,
      7031, 39605, 19610, 45786, 28554, 14026, 25613, 14232, 24229, 2217, 5232, 30453, 45643, 30257,
      35595, 22164, 44594, 4996, 3262, 6838, 5741, 33418, 22423, 11094, 18642, 38163, 39850, 47007,
      36289, 10922, 46605, 4478, 5660, 9788, 32835, 10776, 30857, 27772, 32596, 21188, 45155, 23993,
      17642, 36607, 30926, 17375, 41073, 33687, 43469, 32933, 45040, 6644, 29179, 14334, 14282, 25525,
      4594, 10698, 35618, 19212, 28302, 49146, 37228, 27081, 14908, 39391, 9306, 33724, 41258, 9867,
      27923, 49666, 35503, 38437, 44799, 21372, 2378, 15623, 32001, 28901, 36940, 12391, 12742, 24476,
      32510, 16103, 45167, 365, 2103, 20143, 33457, 35959, 19259, 42500, 5710, 16034, 25183, 20884,
      15228, 1093, 39486, 49815, 25344, 29063, 15899, 16544, 203, 22867, 20324, 49835, 37701, 10006,
      24031, 43395, 33998, 7957, 27526, 48859, 44948, 37019, 22495, 31709, 13440, 22588, 27869, 12226,
      37102, 10744, 28453, 16767, 31455, 7485, 4886, 33625, 6539, 18945, 27216, 21839, 36046, 43307,
      41609, 6859, 10973, 1629, 10625, 33722, 40172, 38712, 16999, 32821, 39178, 36284, 19275, 49022,
      22260, 44516, 489, 15935, 47514, 17374, 49584, 48684, 46159, 11705, 35740, 34693, 35710, 35931,
      21062, 35386, 19996, 41003, 24255, 44386, 20176, 11763, 11577, 35622, 32172, 3439, 34660, 16633,
      21639, 49943, 13006, 44535, 17889, 23675, 670, 49302, 42239, 46725, 33665, 3306, 8026, 43626,
      27769, 2890, 22387, 24123, 46772, 27197, 14394, 45788, 22335, 8397, 14162, 26946, 44764, 26345,
      33402, 22463, 2382, 24565, 6476, 36945, 37548, 11312, 11064, 30835, 25307, 10531, 38759, 27374,
      2763, 2581, 47855, 11999, 41153, 43442, 23185, 42215, 34872, 37405, 46416, 3764, 4234, 4994,
      29100, 37825, 4434, 11676, 717, 29894, 36584, 6773, 43954, 48012, 10738, 27048, 14671, 42581,
      33272, 42056, 39579, 36661, 9359, 30075, 10655, 30698, 36468, 40142, 32130, 39082, 12816, 36413,
      192, 25396, 33584, 30009, 49056, 15810, 6160, 19071, 37158, 11164, 27964, 4927, 28916, 5552,
      10799, 47059, 238, 12207, 49106, 43937, 45499, 37004, 5618, 30049, 25521, 46155, 8640, 37865,
      14665, 35010, 36320, 19389, 19744, 15534, 8328, 38396, 43370, 37275, 3453, 44942, 31870, 46379,
      35062, 26829, 44571, 29345, 43939, 24690, 46085, 21113, 23501, 41458, 7081, 31135, 30954, 4733,
      41680, 13045, 48742, 13917, 44049, 14955, 48980, 20929, 48876, 44278, 5520, 32115, 44589, 23199,
      35468, 28246, 1700, 27886, 27518, 6968, 16322, 24527, 38987, 46054, 32854, 26884, 27253, 49013,
      47608, 18978, 17413, 136, 39740, 23408, 30816, 11087, 19238, 15721, 1200, 38889, 26147, 44895,
      46894, 30444, 6296, 3927, 14387, 26489, 32828, 3606, 21225, 26935, 35098, 11707, 2187, 32963,
      12356, 17186, 15954, 35436, 47440, 18452, 35529, 34800, 25500, 5103, 13652, 31781, 1637, 41080,
      30449, 11173, 48193, 35842, 25398, 7296, 3278, 31707, 8003, 26711, 29493, 46228, 41094, 47273,
      31957, 23299, 13516, 7352, 10751, 40597, 16446, 24417, 7697, 49147, 5668, 38506, 28273, 43427,
      18425, 41701, 5307, 4458, 20025, 47564, 19642, 12855, 18257, 21128, 27172, 26293, 19296, 43803,
      20411, 38256, 16678, 8024, 24170, 29061, 43516, 49085, 23248, 16873, 25069, 33458, 30471, 44781,
      16986, 10103, 1014, 47520, 869, 34761, 10626, 44717, 14924, 43326, 7610, 5283, 4370, 26149,
      1361, 26249, 34397, 12625, 1551, 20810, 49982, 27586, 8252, 10442, 46274, 5039, 49132, 21869,
      22520, 38462, 37887, 30131, 1134, 43764, 24944, 10278, 28327, 10451, 4017, 10409, 25640, 35192,
      4138, 44816, 859, 29943, 2962, 24473, 2426, 3676, 29315, 29038, 7674, 19874, 12977, 18485,
      16753, 37705, 43664, 5285, 8367, 30981, 24351, 12905, 2093, 15596, 11336, 11683, 40585, 1920,
      82, 17200, 13318, 42051, 37164, 41243, 18845, 27491, 1813, 34039, 2994, 37525, 15438, 14296,
      42137, 2642, 9280, 40387, 29084, 18689, 36963, 29231, 12360, 3849, 49823, 34510, 16194, 19233,
      30109, 16193, 26990, 36322, 29267, 2600, 16346, 22547, 30949, 1518, 29340, 28890, 32182, 47307,
      4117, 22693, 10825, 5755, 38401, 41167, 14114, 48291, 22625, 39930, 28230, 22192, 14256, 44505,
      1988, 25917, 30020, 40505, 16901, 10561, 32969, 38556, 25991, 29240, 15166, 23580, 22931, 37623,
      48576, 24703, 22742, 9741, 45270, 15950, 3765, 39200, 25027, 7846, 45982, 12253, 26049, 21205,
      16402, 30013, 19488, 31802, 887, 39029, 23620, 6989, 38811, 10808, 19552, 1424, 16523, 32026,
      26500, 19581, 21515, 112, 40928, 7291, 16199, 37327, 11442, 21074, 11254, 24335, 47299, 41334,
      43526, 20452, 20792, 17266, 19477, 26113, 27798, 16835, 3731, 1481, 32298, 4986, 35531, 13794,
      40893, 1855, 45580, 33767, 389, 44367, 39194, 18624, 10578, 38055, 40880, 17376, 4997, 20306,
      19356, 27962, 23255, 14211, 37564, 4769, 26400, 43833, 4173, 18919, 48930, 34675, 24618, 4946,
      41328, 6033, 7619, 33919, 19555, 47747, 9689, 39874, 48551, 37055, 34998, 26732, 174, 18287,
      25675, 41520, 36176, 1538, 35060, 42291, 1363, 37125, 21644, 18504, 18908, 680, 13050, 47212,
      36432, 33276, 32934, 13689, 406, 25582, 19456, 23749, 1914, 7263, 20238, 20583, 29783, 29566,
      10728, 33872, 12067, 2610, 42712, 38078, 46647, 31845, 11108, 11156, 32920, 13422, 22963, 22063,
      28483, 2832, 27128, 43733, 45866, 3551, 46706, 48137, 12541, 31486, 30881, 37306, 3273, 10014,
      45046, 46616, 15088, 18375, 48774, 24885, 28884, 5141, 27127, 44582, 20195, 30581, 48368, 36218,
      20975, 23736, 16589, 30106, 25711, 23064, 13156, 35517, 46182, 22412, 26564, 19624, 45475, 49756,
      20466, 19493, 12251, 10179, 22318, 48732, 38578, 38402, 11580, 19540, 22918, 42633, 34148, 38213,
      14901, 25275, 3832, 32252, 37544, 37044, 37726, 49520, 43884, 23155, 7415, 36020, 6614, 27056,
      16673, 19459, 12265, 10775, 19991, 15523, 30908, 14270, 45095, 44314, 25966, 15042, 35236, 45026,
      16654, 31555, 20954, 28152, 44525, 13869, 16998, 28783, 27794, 42351, 39464, 20700, 35948, 8275,
      9065, 43798, 2179, 4557, 7812, 45607, 39065, 42998, 23854, 14534, 33467, 1132, 43410, 10521,
      22626, 2871, 12996, 19164, 26536, 34540, 43361, 21904, 25792, 34681, 46563, 9256, 12602, 29961,
      32598, 30099, 24729, 15417, 1105, 17076, 10195, 4956, 41075, 49289, 19149, 20313, 20058, 3696,
      40546, 42589, 33396, 35219, 46006, 47654, 20208, 27228, 41560, 20127, 2176, 25242, 19702, 40695,
      23816, 2787, 12297, 1196, 18060, 20331, 40386, 37212, 43896, 15514, 49573, 47298, 5722, 9135,
      43463, 48045, 18753, 4967, 18601, 24532, 43178, 19710, 36777, 15515, 3583, 49741, 18020, 22601,
      18852, 12424, 27691, 41045, 22357, 28247, 36435, 45242, 31312, 21542, 23360, 45550, 10211, 36191,
      10717, 8199, 18793, 19596, 48157, 5366, 2895, 24820, 14122, 29290, 34064, 28001, 3642, 46438,
      33650, 47918, 30873, 31030, 38870, 49393, 41316, 21642, 5451, 23544, 10685, 15449, 7866, 30527,
      31279, 49921, 12867, 28328, 42565, 44523, 13979, 42506, 26956, 6474, 28399, 24272, 27808, 8811,
      27882, 492, 11691, 43527, 1116, 38405, 37853, 30722, 1757, 44254, 46425, 43309, 31433, 39121,
      22973, 48848, 44605, 27076, 49983, 21625, 36412, 19167, 44769, 27045, 11185, 34464, 35063, 5939,
      48739, 42736, 11033, 36081, 14824, 24734, 46490, 42552, 9915, 23989, 32983, 23091, 32430, 33840,
      8682, 7006, 13379, 41420, 22794, 32082, 46702, 31226, 32793, 11704, 43369, 7659, 38458, 42512,
      49025, 12721, 9171, 43615, 26423, 11908, 33398, 24968, 21607, 41475, 39382, 38011, 33870, 31131,
      21729, 27233, 2204, 41448, 28572, 24770, 45671, 44245, 11308, 13767, 28151, 27606, 45280, 23303,
      4426, 20936, 20963, 33487, 6155, 20093, 4025, 40992, 29336, 17908, 30431, 20447, 28038, 15493,
      30116, 5818, 44724, 32245, 3866, 2745, 11867, 43111, 10704, 11950, 43791, 19611, 36982, 20307,
      44864, 26853, 15193, 19643, 1401, 31128, 12828, 24087, 36021, 48263, 34926, 41346, 24472, 17058,
      31881, 37261, 39779, 46330, 42965, 36609, 18199, 20132, 28172, 44617, 2100, 34441, 10293, 4213,
      26672, 7480, 14562, 46146, 44283, 8547, 16923, 19604, 23554, 30499, 49444, 18135, 20360, 18156,
      42156, 42838, 10860, 27747, 34773, 30154, 20808, 49816, 15887, 15233, 26654, 24972, 27364, 2257,
      13324, 20456, 38342, 9083, 5355, 38861, 40703, 22161, 1519, 1378, 22056, 25599, 18971, 15206,
      22005, 17508, 45968, 1316, 5842, 39890, 16211, 12820, 5832, 9821, 45486, 28099, 33290, 24427,
      29796, 15372, 33002, 12180, 20180, 28694, 6318, 23478, 44760, 26586, 48146, 34716, 39129, 49267,
      32441, 48113, 44452, 48871, 2224, 25682, 43148, 25394, 16209, 31331, 5571, 37291, 5793, 46578,
      5738, 19008, 37496, 40586, 41627, 5276, 15275, 35205, 22440, 14087, 27990, 22736, 26917, 44757,
      3167, 31897, 23545, 24142, 14027, 7016, 46154, 45409, 47043, 37713, 15649, 12237, 38814, 28278,
      9227, 5585, 5590, 33996, 18691, 46109, 46101, 31566, 14743, 8244, 46944, 16237, 39323, 49250,
      15373, 12145, 159, 25235, 1589, 24035, 15369, 38333, 23071, 7190, 16566, 10576, 30750, 23864,
      46132, 34324, 35596, 33204, 22173, 15592, 49595, 28454, 23782, 35548, 36469, 38454, 4727, 17622,
      2951, 35323, 30622, 10350, 46321, 45505, 39233, 40123, 15717, 40591, 24297, 12449, 48160, 15271,
      5185, 22031, 8549, 38010, 18514, 28220, 2092, 21793, 10207, 44716, 32955, 41869, 24322, 19810,
      1098, 1381, 47062, 8605, 21281, 11528, 28182, 15038, 10433, 29218, 48356, 41216, 11390, 41160,
      7295, 8068, 12935, 42727, 20620, 9764, 32792, 3363, 1088, 12866, 10886, 11590, 48961, 19225,
      10503, 12306, 27810, 20536, 15906, 11944, 39105, 17611, 276, 12413, 26943, 22313, 19337, 36674,
      21162, 5845, 36188, 27103, 33905, 24566, 26910, 24045, 25518, 46092, 2490, 21826, 40510, 14482,
      45895, 36703, 15072, 2384, 8016, 39852, 16499, 34631, 19503, 33132, 41862, 28398, 46774, 46587,
      18354, 21083, 28753, 3802, 30386, 36304, 36593, 39410, 48283, 12991, 20878, 46786, 13527, 28064,
      7269, 38115, 40697, 12982, 7166, 12869, 29535, 38635, 37529, 882, 32272, 13893, 29689, 557,
      1960, 46099, 1207, 25552, 7684, 16859, 26086, 44789, 28308, 10485, 19595, 3630, 1708, 26421,
      24842, 1140, 38975, 10238, 26485, 43171, 35428, 25232, 14852, 1307, 18951, 12452, 19218, 39673,
      44695, 9429, 34919, 20219, 19554, 47661, 13283, 26762, 37772, 15996, 25879, 30654, 34395, 19840,
      9714, 358, 138, 8491, 26132, 16766, 43949, 340, 4857, 9569, 10582, 5498, 21300, 8556,
      10913, 1932, 2352, 15848, 3236, 27716, 45123, 42261, 39919, 36575, 34704, 5619, 14973, 20538,
      25372, 18800, 6344, 6139, 785, 30403, 23173, 27734, 31778, 8036, 8315, 6313, 22052, 18556,
      2169, 14138, 18693, 26417, 11826, 25833, 6591, 37226, 7597, 42138, 24323, 4652, 28226, 33210,
      19799, 42359, 7069, 47900, 42417, 47112, 5744, 17438, 29504, 26039, 11951, 929, 48971, 22852,
      8767, 11120, 28797, 11738, 44014, 2011, 17297, 40379, 46895, 44179, 18990, 27840, 21312, 26167,
      39332, 49435, 16390, 11172, 40603, 22967, 36129, 45734, 42903, 49212, 18019, 1141, 10233, 15434,
      16743, 3134, 39758, 47734, 18626, 17858, 34591, 42849, 28011, 36027, 10213, 36788, 48542, 24950,
      36268, 35426, 17514, 13749, 10516, 34587, 7461, 38392, 47585, 39832, 9342, 12336, 37437, 9428,
      38244, 48460, 1998, 24364, 34624, 2282, 28939, 28669, 13392, 22785, 6439, 27997, 6031, 33154,
      30373, 34396, 11777, 19539, 17154, 40486, 40312, 11381, 4658, 12497, 9101, 10058, 34610, 20584,
      36636, 37822, 5889, 14376, 19086, 24306, 48794, 16715, 36576, 29808, 47576, 33703, 10651, 34542,
      32402, 16977, 24995, 3744, 17373, 38211, 47835, 23377, 1875, 22190, 3760, 48367, 35820, 13654,
      13146, 37383, 15812, 3321, 47667, 22432, 3311, 47021, 44299, 47160, 12743, 45639, 44363, 8210,
      44199, 17740, 21386, 16018, 34285, 15114, 22207, 4492, 22054, 3112, 44602, 35634, 33623, 47973,
      4912, 5463, 22760, 27005, 5482, 31337, 12605, 47833, 3828, 16724, 30502, 37465, 37755, 29075,
      37418, 17543, 17709, 43056, 21180, 6796, 5808, 30519, 17839, 5410, 8333, 30119, 29538, 2800,
      42604, 10332, 45496, 24000, 29033, 19835, 46546, 40583, 4378, 41689, 28933, 21259, 6716, 26512,
      28369, 2261, 40197, 20389, 42070, 32327, 42752, 11190, 17569, 34775, 193, 46571, 49620, 8770,
      30795, 21909, 33539, 31259, 43355, 17862, 18230, 28803, 12466, 30483, 47339, 24370, 14868, 14567,
      16789, 49443, 26649, 49655, 42856, 6317, 44619, 6581, 26955, 34215, 32174, 33110, 23852, 46087,
      44096, 20961, 9168, 25634, 48799, 30600, 19900, 7368, 2044, 7156, 16288, 7851, 42946, 44900,
      13615, 30462, 1492, 47820, 778, 9885, 31600, 9277, 35292, 23567, 21174, 5374, 24173, 40572,
      16232, 14849, 8259, 32762, 5827, 32808, 26957, 32698, 11240, 29492, 47843, 11639, 6816, 43472,
      31655, 14140, 34228, 4493, 13074, 29304, 13686, 13947, 11002, 7230, 28365, 10412, 5075, 24264,
      21778, 42409, 19330, 48007, 4088, 18351, 34518, 4249, 23383, 8472, 42864, 8787, 22010, 12109,
      6142, 38429, 46738, 15037, 9031, 20980, 2659, 141, 2597, 6701, 15223, 17761, 2454, 22746,
      7418, 21125, 10449, 29516, 44898, 47391, 23952, 16843, 8179, 44333, 28276, 9528, 6370, 37396,
      22424, 33209, 9794, 25215, 41814, 36598, 49260, 28795, 38547, 39112, 10693, 1958, 155, 10487,
      48104, 37346, 1089, 22433, 27516, 12576, 9122, 32602, 40718, 11101, 18058, 6980, 6416, 16021,
      41855, 11439, 18710, 39864, 33866, 5433, 48126, 13230, 6450, 45096, 43553, 18099, 25556, 30112,
      24765, 25817, 20215, 36116, 4079, 41945, 49202, 587, 9346, 46037, 46305, 47177, 43732, 49421,
      26475, 46443, 21953, 30090, 16299, 30930, 645, 30129, 44517, 9587, 32220, 11739, 15036, 32994,
      23172, 24217, 26515, 36632, 26819, 43360, 9752, 8004, 16154, 20095, 8438, 26170, 1529, 1125,
      33691, 1283, 42870, 31852, 48765, 39951, 44918, 15149, 2591, 5906, 11205, 39901, 2307, 25188,
      20074, 17071, 33380, 23551, 19584, 43936, 6629, 4135, 1898, 13937, 282, 258, 11116, 6530,
      37711, 19206, 14721, 11531, 19909, 29139, 6971, 13521, 37991, 2285, 22447, 40846, 21038, 21384,
      6710, 49176, 10403, 21800, 33243, 6411, 2551, 29450, 6852, 32658, 38314, 13489, 23128, 26390,
      21253, 18658, 41971, 23648, 25643, 42951, 20354, 13565, 22263, 16280, 34881, 29118, 39961, 18489,
      6823, 27624, 781, 14939, 18133, 30798, 30932, 10983, 6519, 5774, 30933, 13171, 30573, 9283,
      9369, 12819, 18708, 43039, 37823, 10800, 48777, 1727, 16994, 4666, 30651, 24487, 8535, 27733,
      3750, 12924, 12722, 30575, 11407, 97, 3137, 46136, 14357, 17921, 13140, 3648, 43617, 12485,
      1633, 21008, 45232, 44629, 49694, 18474, 23481, 6171, 7521, 33340, 32316, 9879, 48851, 19446,
      33365, 15352, 23017, 49307, 24259, 47410, 7345, 6304, 47390, 49322, 16376, 47592, 29055, 22360,
      18322, 49204, 49142, 34521, 28228, 18745, 20644, 5432, 22669, 45951, 47172, 2539, 11929, 48151,
      41903, 48501, 1171, 7927, 14289, 31358, 32262, 47563, 36768, 17073, 15892, 48974, 18681, 40785,
      2643, 30314, 5347, 30508, 41800, 32972, 7896, 9833, 34782, 28047, 32591, 17015, 8461, 19675,
      34742, 162, 37766, 47700, 9557, 27037, 37481, 9067, 1431, 15261, 23252, 45603, 13975, 1619,
      7710, 7736, 37051, 7531, 46907, 17069, 13493, 42821, 43619, 3384, 2839, 29312, 5105, 15078,
      29309, 19715, 26201, 43363, 25279, 2096, 42963, 22436, 7999, 29252, 16370, 5017, 25122, 17833,
      23284, 18994, 18284, 24570, 35525, 32373, 6397, 42845, 28272, 46698, 46850, 34865, 8329, 30268,
      41796, 3471, 45657, 14472, 18509, 30254, 34501, 18394, 30447, 34051, 45253, 12448, 10028, 21621,
      33787, 16184, 48056, 9518, 27386, 25051, 19194, 1651, 33598, 33937, 10720, 6256, 28854, 5469,
      29411, 16044, 10258, 43934, 13428, 37861, 21817, 541, 42092, 12693, 5997, 3390, 44848, 43922,
      28731, 14226, 16029, 49929, 43543, 11005, 36727, 27523, 6643, 29750, 23225, 16087, 3586, 29197,
      36060, 2563, 43590, 27766, 47209, 37804, 33848, 38659, 26661, 14537, 2023, 13109, 48738, 7909,
      48394, 23705, 1013, 18313, 42003, 38019, 9596, 34947, 17081, 23762, 12087, 5110, 24286, 34546,
      36751, 15379, 23928, 40372, 19873, 13944, 26832, 35851, 10805, 19033, 43241, 19363, 37900, 2159,
      31656, 11329, 25498, 14042, 14566, 39213, 36735, 34196, 3081, 2520, 44522, 48058, 42815, 48267,
      38787, 16832, 25860, 22656, 36495, 41321, 22663, 29806, 36068, 9496, 39019, 5926, 29725, 16406,
      18450, 18037, 8894, 8706, 1376, 1724, 27044, 3754, 43285, 29739, 20567, 46486, 36850, 26062,
      44638, 24858, 45268, 13057, 19921, 28444, 23387, 43541, 20714, 28927, 42719, 14571, 29334, 17030,
      23911, 33069, 14215, 15997, 39933, 28044, 49403, 43950, 37643, 10736, 30841, 12258, 18544, 33453,
      48498, 11435, 48018, 14291, 2461, 12275, 27413, 11889, 39896, 38714, 4583, 22168, 45000, 26806,
      23953, 45838, 16905, 29921, 48667, 3983, 39071, 42676, 33548, 17153, 21991, 5978, 25227, 20131,
      34964, 46857, 49866, 20669, 12504, 42600, 26189, 6979, 32125, 11824, 25538, 31182, 35144, 17630,
      23888, 44251, 39279, 13279, 28270, 48955, 47241, 5439, 10759, 39261, 41732, 29956, 27065, 28138,
      38278, 38098, 45454, 4531, 9866, 10142, 44857, 28903, 22804, 16531, 18052, 11280, 35479, 24034,
      28082, 7788, 36224, 28758, 4940, 41991, 26724, 22614, 39851, 30111, 31186, 25431, 7099, 8080,
      23472, 47701, 48182, 27425, 41674, 25364, 28671, 20281, 47422, 23561, 42080, 6172, 3631, 39040,
      25000, 33160, 3191, 32784, 30911, 49455, 19877, 30620, 26035, 48042, 14056, 7394, 21223, 33361,
      28411, 37487, 25121, 38595, 10749, 24345, 29300, 22420, 4798, 10634, 4795, 44002, 41424, 163,
      671, 47076, 49745, 16052, 24817, 22740, 30784, 25476, 5542, 40761, 24022, 23177, 43668, 7758,
      37605, 6548, 24282, 4481, 3716, 10837, 38908, 9956, 31174, 34317, 27605, 26715, 30874, 31238,
      14818, 33535, 5693, 32371, 42468, 15422, 37285, 12411, 48858, 47457, 3292, 41779, 34171, 1382,
      43108, 23312, 34406, 46851, 32003, 41568, 23291, 31823, 6406, 9074, 28141, 28861, 5448, 29794,
      44936, 37846, 25032, 30158, 26526, 46332, 36618, 39256, 31497, 42913, 13828, 39922, 6430, 6610,
      27286, 37947, 20733, 12330, 18268, 12677, 35262, 28179, 33613, 8734, 11916, 28763, 11871, 45183,
      7967, 23563, 40108, 46659, 31822, 16920, 17347, 39905, 35732, 5772, 23429, 35298, 11138, 14716,
      8429, 37685, 31055, 25709, 31552, 5901, 8286, 29984, 8984, 5656, 28937, 38675, 7373, 48578,
      6721, 24226, 46484, 12686, 8264, 40461, 29619, 31750, 28495, 8325, 7629, 45033, 11421, 34594,
      21932, 25169, 12329, 33328, 31982, 36875, 24819, 5435, 4437, 10382, 24981, 17826, 24837, 37174,
      36035, 18073, 42685, 38067, 18880, 30682, 35585, 18792, 22641, 5782, 16163, 19169, 9715, 10699,
      49261, 4895, 26342, 20421, 13395, 32916, 16669, 32376, 18752, 41323, 26116, 29301, 37211, 7446,
      33004, 15901, 34447, 10754, 39891, 48836, 42891, 46479, 29328, 3083, 33400, 23197, 35433, 207,
      28982, 25592, 3374, 10526, 42828, 47556, 30137, 44843, 48032, 32007, 46877, 9686, 19201, 5249,
      32581, 8533, 40194, 45113, 48221, 40747, 49026, 34503, 14484, 4255, 47737, 2475, 10756, 5051,
      3713, 6704, 2472, 37957, 10106, 31367, 16456, 14210, 7843, 45408, 46820, 45799, 12323, 39532,
      25766, 31007, 10793, 33893, 17625, 49691, 29371, 44311, 32496, 47685, 23164, 32117, 28482, 4358,
      46882, 17727, 33537, 21400, 7421, 39420, 27213, 9160, 26122, 23711, 40390, 33755, 27042, 16014,
      2852, 11695, 41621, 14996, 17014, 29344, 17633, 26160, 42422, 3040, 16035, 37778, 145, 23384,
      36041, 31910, 7227, 36451, 39575, 45105, 34084, 35993, 49712, 31401, 9852, 38520, 10617, 16393,
      37384, 28552, 49311, 23253, 34068, 23669, 15222, 22668, 49376, 13673, 42668, 5495, 21675, 42368,
      34566, 12149, 42435, 24611, 6441, 8636, 24489, 18743, 23486, 3654, 7052, 29734, 44139, 34054,
      20829, 34905, 23171, 43596, 44976, 12289, 42641, 47790, 13467, 6894, 42652, 36378, 27117, 28211,
      7151, 6012, 46413, 46881, 37650, 13076, 45379, 44814, 36914, 8906, 39310, 21627, 27764, 4431,
      47869, 33174, 24596, 39338, 13178, 26987, 16173, 26966, 25519, 8234, 43790, 46819, 11563, 27598,
      11556, 16353, 21636, 32779, 4760, 1177, 31348, 26523, 43461, 35631, 6471, 28441, 22612, 41986,
      12040, 35757, 25537, 11207, 39778, 44298, 14437, 22443, 31010, 28144, 8927, 45360, 17824, 49703,
      31324, 35643, 12178, 9108, 34958, 37574, 27723, 23616, 3726, 26200, 41781, 40957, 1367, 3712,
      38218, 17772, 25426, 33768, 31116, 7761, 36321, 4114, 26213, 1667, 29165, 35941, 25923, 39882,
      488, 19614, 27208, 6924, 45743, 21592, 7848, 5704, 40901, 17087, 37873, 4033, 36059, 8125,
      44633, 26984, 13380, 42287, 49570, 46733, 47055, 13598, 48046, 48778, 30659, 37208, 42823, 29259,
      49399, 48565, 49071, 49253, 24089, 15504, 28625, 22473, 15577, 38006, 47414, 45141, 48846, 13669,
      40287, 23196, 42759, 41974, 42324, 10225, 4470, 17275, 43753, 1969, 12595, 32556, 38525, 22911,
      39062, 12115, 13605, 40363, 9110, 3249, 6570, 6638, 15398, 23857, 45272, 125, 38138, 1239,
      35057, 41235, 25611, 33997, 9200, 29856, 39748, 37946, 28404, 10724, 20677, 1058, 39030, 15360,
      27420, 281, 25619, 25892, 47614, 968, 16001, 20337, 34707, 17658, 619, 18309, 1742, 17774,
      14135, 26155, 9847, 36336, 26928, 26788, 15563, 6116, 35946, 19576, 42267, 6099, 16959, 43320,
      23040, 23499, 13994, 38663, 6276, 42240, 48734, 45917, 11083, 5724, 10831, 16653, 33397, 44738,
      39198, 36142, 12588, 32419, 20939, 21927, 13760, 43006, 2113, 26616, 35984, 45893, 3814, 41089,
      35923, 47064, 35046, 4599, 32781, 34414, 29052, 48908, 35133, 4648, 44965, 26916, 33142, 22861,
      525, 41899, 11561, 46678, 12765, 23279, 26723, 19975, 27490, 19342, 33297, 21116, 42229, 45241,
      17778, 29426, 12201, 45350, 11171, 26017, 26958, 49845, 12003, 22015, 31585, 31860, 25849, 6563,
      4703, 15282, 39063, 33723, 39443, 36221, 25963, 12803, 47908, 8595, 34839, 956, 46804, 7005,
      30027, 33120, 46286, 16309, 39004, 45500, 28706, 8946, 14025, 49976, 2920, 37412, 661, 16082,
      39825, 10181, 20049, 24363, 26911, 4790, 2356, 44662, 28380, 18311, 49596, 20022, 31890, 26745,
      17650, 13612, 1560, 44555, 10326, 7179, 15349, 15313, 46026, 36877, 29545, 21288, 33282, 33662,
      8601, 16405, 27961, 49937, 899, 32975, 48735, 33226, 26630, 35198, 24826, 13629, 25683, 3389,
      26289, 36679, 25291, 33320, 26015, 39685, 18440, 1925, 38850, 49116, 25003, 9078, 105, 3041,
      16369, 10361, 32857, 23398, 15525, 43201, 47219, 23116, 18333, 45004, 46824, 27424, 6368, 22431,
      9127, 8905, 35488, 30811, 29781, 46389, 8783, 49785, 39499, 43408, 9768, 46167, 3762, 32981,
      30087, 48524, 41688, 21804, 6154, 26143, 41125, 17773, 29009, 30015, 26589, 36935, 20172, 29759,
      16967, 35201, 5109, 9208, 48701, 8712, 34531, 13547, 28541, 11536, 47837, 3224, 526, 15251,
      44859, 5655, 41652, 38827, 17343, 39110, 30707, 20017, 46765, 17434, 8782, 8711, 3380, 36444,
      5776, 39341, 21563, 34375, 19994, 18639, 23019, 49999, 26385, 17175, 41752, 19440, 26431, 1980,
      11425, 19982, 44923, 12857, 7424, 5626, 32196, 34450, 28602, 16335, 39214, 33756, 32347, 28087,
      47851, 44413, 22042, 11722, 3093, 13261, 46766, 23411, 17482, 10396, 35612, 41846, 3342, 16422,
      32232, 6540, 23650, 14288, 36124, 13025, 26029, 11745, 44569, 48683, 29241, 27082, 27570, 47182,
      31598, 7813, 49681, 21510, 27083, 35196, 21427, 21730, 25338, 11939, 21195, 24860, 37567, 23821,
      2353, 11383, 20953, 9077, 8073, 14859, 49419, 7491, 45539, 49109, 7059, 13507, 16661, 5084,
      26660, 25821, 35150, 33339, 1435, 13281, 42207, 21736, 29257, 44486, 47517, 10706, 5445, 1007,
      31575, 37311, 12987, 7009, 31966, 34832, 1136, 9882, 30220, 21727, 10177, 33062, 26123, 26588,
      18787, 26705, 36766, 42534, 36509, 11700, 22890, 2719, 40329, 12713, 47638, 2808, 9017, 22534,
      2469, 3738, 20670, 46249, 26292, 32088, 33130, 39692, 18088, 31290, 47456, 2139, 19623, 7314,
      20695, 34080, 26572, 6183, 30561, 11303, 1591, 49252, 18546, 2396, 47327, 9516, 38001, 48628,
      21452, 20420, 41755, 3020, 9903, 40996, 29125, 41873, 46681, 5295, 3972, 21754, 14663, 4133,
      33742, 40059, 25559, 15585, 42520, 46542, 29192, 28841, 25931, 23265, 37784, 17602, 32284, 43642,
      23874, 46007, 18024, 17674, 44641, 17764, 34701, 37443, 10222, 33660, 7287, 7906, 28831, 24578,
      47319, 26685, 25425, 18850, 7657, 42874, 26172, 30448, 18297, 11362, 46600, 726, 7214, 8245,
      15876, 14199, 43513, 27376, 17320, 40042, 11593, 34157, 36332, 41844, 38197, 15934, 14899, 24262,
      48280, 14561, 34636, 29757, 40970, 806, 37573, 32123, 41898, 45028, 48954, 49954, 43194, 31883,
      9155, 23895, 15152, 4494, 35400, 47054, 48624, 25280, 40600, 47037, 32913, 34801, 32413, 24951,
      33933, 44460, 2050, 20144, 32733, 10816, 12676, 3430, 24574, 39837, 37129, 10616, 18155, 19895,
      33039, 12984, 8436, 29629, 45084, 49728, 41773, 49607, 30586, 3810, 13919, 29969, 27788, 9996,
      29430, 37114, 545, 8502, 44481, 15229, 9323, 13737, 28687, 48288, 27345, 7564, 15317, 44547,
      6640, 28535, 40998, 12651, 23510, 20662, 31705, 2983, 29866, 16514, 13409, 30907, 35435, 9374,
      24077, 21776, 614, 17850, 37265, 19426, 25510, 36062, 6737, 34268, 29398, 41786, 17905, 48910,
      15023, 11122, 4232, 24070, 8820, 37198, 44813, 16774, 28921, 19541, 22297, 12182, 41360, 4806,
      29711, 48696, 27935, 46617, 25064, 11918, 15896, 5319, 39887, 2421, 1750, 11344, 12254, 49668,
      338, 24791, 44623, 1341, 49454, 28470, 36408, 21520, 35772, 6960, 4090, 26212, 23051, 23393,
      20581, 19933, 9650, 41131, 20587, 34020, 28145, 45186, 24354, 13350, 48751, 18023, 9130, 60,
      34008, 37904, 35111, 15048, 34888, 1524, 40385, 32921, 47304, 481, 38890, 45420, 24058, 12112,
      15850, 31987, 1762, 48275, 8942, 40483, 21792, 23863, 29077, 4853, 2711, 23150, 28769, 31463,
      11046, 24762, 25712, 6819, 24063, 13081, 21874, 11555, 21172, 19250, 38709, 35835, 48831, 36397,
      29373, 24027, 35796, 35737, 11664, 27529, 8646, 47924, 46828, 30987, 4263, 29402, 17029, 15646,
      40760, 16725, 40809, 1622, 12875, 31896, 22180, 39952, 49179, 31653, 38243, 26665, 31889, 16458,
      8996, 11372, 41401, 17685, 23752, 34072, 41196, 36801, 35367, 12808, 2573, 27856, 35954, 28529,
      37599, 20607, 24557, 2106, 19063, 48285, 45648, 29975, 17771, 43861, 7083, 45960, 1279, 13221,
      33572, 14596, 11382, 37334, 29378, 49615, 15358, 37609, 19978, 22419, 23236, 42880, 8705, 31419,
      13859, 41874, 36220, 20079, 2198, 16032, 4425, 6150, 47057, 17327, 822, 47838, 21389, 41124,
      12175, 18922, 47917, 9503, 31821, 21591, 49412, 7970, 13575, 35822, 20059, 24160, 39986, 6722,
      3300, 19694, 31480, 8519, 10682, 30678, 47063, 10998, 45368, 44039, 49762, 19846, 26399, 40411,
      16438, 47190, 10093, 34249, 37641, 13087, 40806, 12342, 25522, 38565, 11485, 26737, 38000, 6645,
      28865, 48302, 38258, 33536, 18449, 23570, 28071, 7311, 24861, 42460, 20908, 27952, 2717, 2079,
      27965, 33719, 24442, 2482, 26838, 41949, 1759, 9984, 20806, 9916, 21566, 31195, 24917, 37011,
      19816, 46163, 4944, 27696, 38356, 16241, 10395, 19097, 4757, 28734, 37148, 46240, 22359, 19956,
      45765, 5299, 1990, 45080, 45719, 13490, 4971, 49679, 45994, 6783, 36368, 8666, 8070, 8577,
      7973, 43082, 34393, 25150, 40738, 13224, 32409, 36980, 39224, 31880, 9524, 11694, 2708, 39282,
      37430, 34622, 35840, 19256, 47523, 1645, 36185, 36244, 22116, 11053, 34560, 13718, 47882, 3797,
      3368, 44327, 39964, 20530, 44409, 41563, 27632, 126, 38727, 46403, 15343, 37219, 39915, 19915,
      27306, 33595, 26215, 15328, 17368, 44241, 7783, 10380, 10457, 2443, 24938, 10541, 814, 12999,
      44165, 48857, 43879, 14153, 12298, 5779, 34884, 33561, 10147, 39666, 35442, 16478, 48538, 20609,
      3756, 35659, 18755, 14382, 20103, 35996, 40631, 6359, 49023, 29486, 23710, 46197, 43872, 46714,
      37380, 32265, 19029, 2243, 38141, 2336, 17334, 32154, 44028, 1120, 32184, 10789, 33187, 922,
      9446, 25053, 5408, 5788, 15374, 21951, 31273, 24519, 17586, 31110, 27202, 41157, 1970, 11302,
      4018, 26727, 36455, 18381, 45558, 11246, 34016, 2192, 19096, 9184, 18574, 37438, 21526, 5984,
      6565, 7804, 11954, 39711, 28173, 29287, 9510, 43303, 18520, 17449, 14060, 16984, 20611, 40345,
      77, 23930, 19282, 15524, 21204, 23325, 30523, 41832, 8007, 21852, 5951, 43925, 36159, 5415,
      8162, 19019, 5256, 36298, 8567, 1908, 42929, 235, 12219, 31037, 17988, 40752, 42078, 28253,
      36258, 26614, 32293, 14231, 27534, 19216, 43336, 1342, 8512, 34387, 5287, 39809, 2219, 9865,
      22422, 16644, 49230, 45745, 20128, 47362, 39756, 32254, 20618, 1917, 1828, 42533, 45375, 12941,
      39001, 2048, 39051, 36976, 45587, 26386, 42101, 30105, 6469, 32043, 49288, 46514, 48153, 13703,
      10954, 846, 38328, 13234, 47077, 18935, 46685, 117, 41605, 22350, 28746, 14043, 41427, 16389,
      38110, 9111, 10787, 4324, 35358, 24818, 13046, 27446, 20119, 13918, 10589, 11613, 27139, 6767,
      5622, 1605, 26900, 27285, 28024, 3812, 47045, 17260, 10554, 10167, 34529, 48447, 19123, 35240,
      15913, 6738, 23275, 15728, 12199, 7943, 12910, 14369, 26069, 6371, 26734, 16616, 8258, 7561,
      42563, 6168, 44243, 3596, 39056, 4632, 47915, 6229, 29926, 49371, 49319, 10267, 45540, 38518,
      8152, 46271, 35854, 34674, 39650, 23333, 40441, 40940, 1531, 38638, 19181, 17302, 18030, 5122,
      5126, 46391, 15034, 4621, 39577, 16748, 48513, 44247, 2125, 8150, 28699, 8717, 45781, 55,
      17022, 302, 22195, 14178, 13568, 29721, 4432, 19262, 45162, 10478, 43221, 5240, 22574, 10488,
      23321, 23624, 16282, 46892, 26329, 42928, 27693, 18777, 16907, 39144, 39749, 13716, 23061, 36668,
      37545, 45659, 21969, 21508, 23954, 11314, 28732, 10161, 4188, 33434, 36034, 18271, 41240, 42679,
      45415, 24071, 22415, 11637, 6090, 6238, 15183, 40118, 24214, 17144, 6254, 45002, 12015, 36586,
      39037, 4300, 5569, 14388, 7941, 27169, 36932, 19963, 21833, 19856, 39811, 37660, 43088, 4854,
      4637, 42318, 31703, 28920, 17715, 10209, 23386, 25934, 6941, 8017, 42289, 6949, 39649, 13051,
      15781, 26698, 37441, 12173, 39764, 1252, 44238, 15254, 19758, 19198, 22928, 42808, 37626, 24285,
      41348, 8427, 42944, 37131, 32049, 28538, 43125, 14489, 7239, 47198, 36187, 26657, 42783, 49527,
      37744, 4544, 21949, 17100, 45106, 34816, 38765, 48212, 13456, 32201, 4809, 10916, 3636, 23524,
      23574, 15106, 38757, 9860, 49925, 18384, 12763, 29189, 47926, 40943, 404, 384, 8702, 40034,
      10344, 18017, 20384, 46540, 21168, 6938, 6970, 20309, 4158, 23833, 49392, 46318, 8415, 34961,
      27712, 1015, 37892, 29548, 23793, 19255, 9, 10136, 4804, 5713, 45445, 34349, 27532, 17308,
      31471, 35547, 13216, 38088, 40080, 47605, 38810, 20159, 4835, 37732, 27355, 33307, 31921, 40251,
      19129, 36487, 46427, 9337, 29703, 667, 23959, 24933, 21447, 11023, 10975, 34121, 13323, 7114,
      24504, 41430, 19087, 3330, 40821, 44597, 42356, 38413, 17640, 6190, 48529, 44472, 13843, 30354,
      25826, 21732, 11003, 27860, 27509, 20559, 37678, 34620, 22700, 45740, 36395, 2105, 49285, 46196,
      37797, 17312, 33591, 23960, 28016, 34299, 33982, 504, 14683, 42956, 39298, 42918, 42344, 25470,
      13116, 30355, 3709, 49510, 21233, 4748, 20652, 44482, 15485, 28710, 28178, 25289, 26790, 38069,
      6588, 34578, 19870, 23803, 35909, 25731, 1324, 37080, 40262, 26256, 41459, 17749, 26432, 42348,
      13807, 28295, 26962, 22556, 17924, 19065, 23322, 27569, 39081, 46732, 21677, 1542, 44261, 11516,
      7056, 35307, 17337, 23625, 48136, 6731, 37614, 6801, 24394, 37098, 8924, 38102, 23714, 9348,
      37497, 22925, 11174, 21689, 21545, 24244, 18540, 1062, 27192, 1167, 40419, 21972, 11130, 31667,
      23576, 37259, 21364, 8335, 5486, 32307, 17101, 35270, 4360, 36939, 24466, 49717, 16779, 13923,
      47280, 39954, 698, 728, 46959, 41555, 14397, 44912, 46352, 21352, 2914, 47320, 43286, 5644,
      20150, 36208, 44811, 32479, 7357, 23190, 34911, 5104, 37841, 17955, 20463, 17506, 48816, 47295,
      35735, 18888, 38756, 44425, 27384, 23548, 33496, 40355, 7543, 412, 11338, 26092, 38513, 24052,
      17209, 3267, 20358, 41576, 417, 11261, 9817, 15305, 49049, 23132, 25351, 28761, 27472, 27350,
      34850, 27122, 31996, 12161, 3373, 38494, 20491, 43404, 20764, 24107, 17450, 3913, 46247, 38304,
      32320, 40770, 38155, 28074, 35506, 5052, 4000, 26144, 35195, 11938, 6833, 18071, 851, 22687,
      25471, 49115, 29168, 30977, 38646, 27663, 4611, 16364, 9540, 41975, 9823, 35257, 44690, 23289,
      40158, 2849, 31843, 32580, 14069, 23049, 38649, 26646, 37220, 26211, 29222, 35247, 43225, 43919,
      29899, 49659, 13245, 30445, 13296, 44078, 9435, 27932, 19128, 7253, 13284, 3506, 1679, 19531,
      8130, 47893, 16964, 9662, 29375, 13500, 3343, 45952, 49012, 45543, 20056, 5237, 7805, 46175,
      16896, 29305, 1081, 9204, 34699, 23944, 1150, 5949, 8308, 32217, 25316, 25945, 47030, 37945,
      28251, 14098, 17214, 8311, 21136, 26258, 18077, 46185, 17019, 37233, 28940, 39567, 7987, 7079,
      39734, 15202, 4142, 32093, 876, 21699, 21606, 49156, 48747, 3051, 19508, 14599, 48096, 27236,
      2491, 15338, 29749, 4777, 42675, 31024, 31289, 22677, 28312, 33621, 10966, 13121, 32097, 13403,
      22386, 25547, 10893, 4495, 40941, 6655, 12039, 2368, 4780, 45091, 24376, 22009, 23355, 8716,
      10647, 29592, 38754, 19190, 5801, 39974, 40111, 12533, 40328, 40864, 27751, 784, 45017, 34177,
      10729, 16538, 35777, 18070, 11093, 4014, 7455, 45681, 36631, 34663, 38210, 569, 23093, 32745,
      34584, 26641, 19778, 6102, 35743, 10492, 190, 699, 45236, 301, 31216, 3420, 18711, 33828,
      32635, 47202, 43525, 36212, 17453, 43484, 18589, 8208, 40447, 44080, 37410, 45714, 9007, 40764,
      27643, 29124, 5600, 41919, 39790, 32352, 48404, 49377, 30746, 19738, 5895, 10677, 8754, 3436,
      47333, 14373, 6893, 17429, 19830, 45525, 40818, 41914, 4555, 44064, 4735, 20880, 33986, 46214,
      22399, 3987, 21295, 25876, 23328, 38467, 24736, 28643, 46760, 2869, 11969, 21357, 46975, 2961,
      46940, 2200, 16482, 38360, 2557, 48354, 42405, 5539, 32711, 12874, 29299, 12183, 6295, 4499,
      1154, 15151, 42642, 7400, 43016, 7158, 29855, 20932, 47357, 38191, 31616, 2049, 45936, 11835,
      16371, 41976, 25199, 31065, 46843, 16646, 30306, 20445, 21918, 47254, 47025, 39384, 8120, 8155,
      1802, 37504, 11111, 35153, 23078, 5759, 18343, 19360, 8680, 18227, 1734, 2911, 11411, 41106,
      30206, 34754, 6546, 47011, 2811, 26370, 15708, 44357, 20666, 42107, 27848, 25184, 22671, 15087,
      44542, 34698, 23509, 197, 40545, 40772, 2327, 37157, 25342, 12688, 44215, 32970, 4931, 21919,
      26309, 38559, 21556, 46717, 7392, 38623, 24548, 854, 46645, 47323, 37505, 28673, 26736, 27728,
      20080, 1636, 23664, 23938, 44417, 17675, 39353, 46576, 3304, 30303, 28021, 7994, 34766, 663,
      13545, 32562, 31968, 3748, 29320, 5530, 21959, 40294, 9474, 27251, 6776, 1306, 30080, 23776,
      44262, 21976, 15707, 10230, 26105, 18047, 21834, 42941, 48925, 25939, 3627, 46699, 29723, 29467,
      2693, 44020, 49080, 42557, 43689, 43585, 22299, 27890, 9914, 16198, 33827, 1678, 6374, 40342,
      14820, 18141, 22403, 45151, 41523, 48702, 23419, 22361, 21518, 206, 25446, 45453, 6910, 33270,
      17412, 27266, 13773, 8110, 47716, 32482, 5056, 42530, 24538, 10965, 19115, 30818, 14039, 11837,
      35222, 23599, 48033, 13067, 30535, 8392, 22662, 38952, 26854, 3561, 38660, 12666, 13986, 33159,
      39504, 22002, 5258, 48190, 2695, 2027, 2568, 40774, 48984, 49216, 38044, 39976, 8571, 39099,
      21243, 12185, 21271, 9268, 17262, 8529, 24300, 23247, 24276, 24253, 1016, 25851, 40397, 29127,
      11534, 32606, 33763, 26557, 37065, 161, 5675, 6873, 45758, 9692, 40757, 13417, 43573, 11653,
      1021, 19457, 23939, 3943, 1585, 26531, 35920, 14541, 40994, 44974, 17159, 48555, 23483, 2612,
      23897, 11016, 43001, 8433, 43021, 43323, 8792, 10627, 21777, 14502, 30740, 41606, 3890, 3556,
      11394, 31551, 1267, 1899, 35773, 19118, 189, 2747, 18431, 18942, 25658, 41434, 27480, 6396,
      28693, 19769, 17568, 39188, 37819, 5311, 2433, 769, 1685, 41090, 16023, 44131, 47191, 21962,
      37194, 16850, 6265, 11284, 44732, 38158>>

\* random_state.choice(total, size, replace=False): permutation(total)[:size]
Choice(total, size, state) ==
    CASE state = 42 /\ size = 50000 /\ total = 50000 -> Permutation50000
      [] state = 42 /\ size = 50000 /\ total = 50001 -> Permutation50001
      [] state = 42 /\ size = 50000 /\ total = 50002 -> Permutation50002

\* frame.sample(size, random_state=state): the rows of the frame at the chosen
\* positions.  The result is held as the rows it is taken from and the call
\* that takes them; Locs gives the positions taken, in the order of the result.
Sample(frame, size, state) ==
    [columns |-> frame.columns, rows |-> frame.rows,
     sample |-> [size |-> size, random_state |-> state]]

\* the positions (0-based) of the rows of a sampled frame in the rows it is
\* taken from: its j-th row is the row at position Locs(frame)[j]
Locs(frame) ==
    Choice(SumN(frame.rows), frame.sample.size, frame.sample.random_state)

\* the index label of the j-th row of a frame
RowLabel(frame, j) ==
    IF Sampled(frame) THEN LabelAt(frame.rows, Locs(frame)[j])
    ELSE LabelAt(frame.rows, j - 1)

\* mutant of MapDf: the sample is taken from MAP_SAMPLE_SIZE rows on
MapDfAtCap(frame) ==
    LET located == DropNa(LatLon(frame)) IN
    IF NRows(located) >= MAP_SAMPLE_SIZE
    THEN Sample(located, MAP_SAMPLE_SIZE, random_state)
    ELSE located

MapDf(frame) ==
    LET located == DropNa(LatLon(frame)) IN
    IF NRows(located) > MAP_SAMPLE_SIZE
    THEN Sample(located, MAP_SAMPLE_SIZE, random_state)
    ELSE located

(***************************************************************************)
(* Top 5 crime types: value_counts().head(5)                               *)
(***************************************************************************)
RECURSIVE FirstSeen(_, _)
\* the distinct non-missing categories, in order of first appearance
FirstSeen(rows, seen) ==
    IF rows = <<>> THEN <<>>
    ELSE LET t == Head(rows).PrimaryType IN
         IF t = NaN \/ t \in seen THEN FirstSeen(Tail(rows), seen)
         ELSE <<t>> \o FirstSeen(Tail(rows), seen \cup {t})

CountOf(frame, t) ==
    LET is_t(b) == Eq(b.PrimaryType, t) IN SumN(SelectSeq(frame.rows, is_t))

\* the categories with their counts, in order of first appearance
Entries(frame) ==
    LET keys == FirstSeen(frame.rows, {}) IN
    [i \in DOMAIN keys |-> [PrimaryType |-> keys[i], count |-> CountOf(frame, keys[i])]]

\* the array that sort_values sorts
Counts(frame) == [i \in DOMAIN Entries(frame) |-> Entries(frame)[i].count]

\* mutant of Largest: value_counts(ascending=True)
Smallest(counts, I) == {i \in I : \A k \in I : counts[i] <= counts[k]}

\* the positions among I of the highest count
Largest(counts, I) == {i \in I : \A k \in I : counts[i] >= counts[k]}

RECURSIVE Argsorts(_, _)
\* the orders a descending sort can put the positions I in: the sort is
\* numpy's quicksort, which is not stable, so equal counts come in any order
Argsorts(counts, I) ==
    IF I = {} THEN {<<>>}
    ELSE UNION {{<<i>> \o rest : rest \in Argsorts(counts, I \ {i})} :
                   i \in Largest(counts, I)}

\* whether the sort has a choice to make
Tied(counts) == \E i, k \in DOMAIN counts : i # k /\ counts[i] = counts[k]

\* value_counts(): the entries in the order the sort gives
ValueCounts(frame, order) == [j \in DOMAIN order |-> Entries(frame)[order[j]]]

HeadOf(items, k) == SubSeq(items, 1, Min(k, Len(items)))

TopCrimes(frame, order) ==
    [columns |-> <<"Primary Type", "count">>,
     rows |-> HeadOf(ValueCounts(frame, order), HEAD_N)]

(***************************************************************************)
(* The CSV files of the model                                              *)
(***************************************************************************)
Lat == "41.88"

Lon == "-87.63"

\* single rows: both years' ends and the year between, a missing category,
\* a missing latitude, a missing longitude
RowKinds ==
    {Line(2018, "THEFT", Lat, Lon, 1), Line(2020, "THEFT", Lat, Lon, 1),
     Line(2019, "ASSAULT", Lat, Lon, 1), Line(2020, "ASSAULT", NaN, Lon, 1),
     Line(2018, NaN, Lat, NaN, 1)}

SmallFiles == {CsvFile(lines) : lines \in SeqUpTo(RowKinds, MaxRows)}

\* the count of the i-th category of a file of many categories: the
\* categories come in pairs, and the pair k ties when c[k] = MaxCount
PairCount(c, i) ==
    LET k == (i + 1) \div 2 IN
    MaxCount * (k - 1) + (IF i % 2 = 1 THEN c[k] ELSE MaxCount)

\* six categories of one year, appearing in reverse name order, the rarer first
ManyTypeFiles ==
    {CsvFile([i \in 1..Len(TypeOrder) |->
                 Line(2019, TypeOrder[Len(TypeOrder) + 1 - i], Lat, Lon, PairCount(c, i))]) :
        c \in [1..(Len(TypeOrder) \div 2) -> 1..MaxCount]}

\* blocks of rows whose totals lie at and just above MAP_SAMPLE_SIZE: two
\* located blocks of 25000 or 25001 rows, alone or with a block without latitude
LocatedBlocks ==
    {Line(y, "THEFT", Lat, Lon, n) :
        y \in {2019, 2020},
        n \in {MAP_SAMPLE_SIZE \div 2, MAP_SAMPLE_SIZE \div 2 + 1}}

UnlocatedBlock == Line(2020, "ASSAULT", NaN, Lon, MAP_SAMPLE_SIZE \div 2)

LargeFiles ==
    {CsvFile(lines) :
        lines \in UNION {{<<a, b>>, <<UnlocatedBlock, a, b>>, <<a, UnlocatedBlock, b>>,
                          <<a, b, UnlocatedBlock>>} :
                            a \in LocatedBlocks, b \in LocatedBlocks}}

Files == SmallFiles \cup ManyTypeFiles \cup LargeFiles

\* the files that may lie at CSV_PATH before the first run
LocalFiles == LargeFiles

\* what the URL serves when a local file was already there: another edition
Republished == CsvFile(<<Line(2017, "ARSON", Lat, Lon, 1)>>)

(***************************************************************************)
(* The script                                                              *)
(***************************************************************************)
Views ==
    [year_range |-> year_range, selected_crime |-> selected_crime,
     filtered_df |-> filtered_df, shape |-> shape, yearly_counts |-> yearly_counts,
     map_df |-> map_df, top_crimes |-> top_crimes]

\* mutant of FreshNamespace: the names of the run before are still bound
StaleNamespace == UNCHANGED <<df, year_range, selected_crime, filtered_df, shape,
                              yearly_counts, map_df, top_crimes>>

\* every run executes the script in a namespace of its own
FreshNamespace ==
    /\ df' = Undefined
    /\ year_range' = <<>>
    /\ selected_crime' = ""
    /\ filtered_df' = Undefined
    /\ shape' = <<>>
    /\ yearly_counts' = Undefined
    /\ map_df' = Undefined
    /\ top_crimes' = Undefined

namespace == <<df, year_range, selected_crime, filtered_df, shape, yearly_counts,
               map_df, top_crimes>>

Init ==
    /\ \/ file = Absent /\ remote \in Files
       \/ file \in LocalFiles /\ remote = Republished
    /\ cache = NoEntry
    /\ downloads = 0
    /\ other = "idle"
    /\ argsort = {}
    /\ widget = NoChoice
    /\ pc = "load"
    /\ df = Undefined
    /\ year_range = <<>>
    /\ selected_crime = ""
    /\ filtered_df = Undefined
    /\ shape = <<>>
    /\ yearly_counts = Undefined
    /\ map_df = Undefined
    /\ top_crimes = Undefined
    /\ first = Undefined

\* mutant of NeedsDownload: the existence check is dropped
AlwaysDownload(f) == TRUE

\* os.path.exists(CSV_PATH) is false: gdown.download is called
NeedsDownload(f) == ~f.exists

\* load_data() on a cache miss: the body runs, first the existence check
LoadData ==
    /\ pc = "load"
    /\ ~cache.cached
    /\ pc' = IF NeedsDownload(file) THEN "download" ELSE "read"
    /\ UNCHANGED <<remote, file, cache, downloads, other, argsort, widget,
                   namespace, first>>

\* gdown.download(GDRIVE_URL, CSV_PATH, quiet=False): the remote file is
\* written to CSV_PATH, over a file that has appeared there since the check;
\* or the download fails, by an exception or by returning None
Download ==
    /\ pc = "download"
    /\ downloads' = downloads + 1
    /\ \/ file' = remote /\ pc' = "read"
       \/ /\ downloads + 1 < MaxDownloads
          /\ file' = file
          /\ pc' \in {"read", "error"}
    /\ UNCHANGED <<remote, cache, other, argsort, widget, namespace, first>>

\* pd.read_csv(CSV_PATH, encoding="utf-8-sig")
Read ==
    /\ pc = "read"
    /\ IF file.exists
       THEN df' = ReadCsv(file) /\ pc' = "store"
       ELSE df' = df /\ pc' = "error"
    /\ UNCHANGED <<remote, file, cache, downloads, other, argsort, widget,
                   year_range, selected_crime, filtered_df, shape, yearly_counts,
                   map_df, top_crimes, first>>

\* st.cache_data keeps the frame that load_data returns
Store ==
    /\ pc = "store"
    /\ cache' = [cached |-> TRUE, value |-> df]
    /\ pc' = "sidebar"
    /\ UNCHANGED <<remote, file, downloads, other, argsort, widget, namespace, first>>

\* load_data() on a cache hit: the body does not run
LoadDataCached ==
    /\ pc = "load"
    /\ cache.cached
    /\ df' = cache.value
    /\ pc' = "sidebar"
    /\ UNCHANGED <<remote, file, cache, downloads, other, argsort, widget,
                   year_range, selected_crime, filtered_df, shape, yearly_counts,
                   map_df, top_crimes, first>>

\* load_data() of another server process that runs in the same directory
\* finds no file at CSV_PATH and calls gdown.download
OtherLoadData ==
    /\ other = "idle"
    /\ NeedsDownload(file)
    /\ downloads + 1 < MaxDownloads
    /\ other' = "download"
    /\ UNCHANGED <<remote, file, cache, downloads, argsort, widget, pc, namespace,
                   first>>

\* the download of the other process ends: the file is written, or it fails
OtherDownload ==
    /\ other = "download"
    /\ downloads' = downloads + 1
    /\ file' \in {remote, file}
    /\ other' = "idle"
    /\ UNCHANGED <<remote, cache, argsort, widget, pc, namespace, first>>

Sidebar ==
    /\ pc = "sidebar"
    /\ year_range' = IF widget.year_range = <<>> THEN SliderDefault(df)
                     ELSE widget.year_range
    /\ selected_crime' = IF widget.selected_crime = "" THEN SelectboxDefault(df)
                         ELSE widget.selected_crime
    /\ pc' = "filter"
    /\ UNCHANGED <<remote, file, cache, downloads, other, argsort, widget, df,
                   filtered_df, shape, yearly_counts, map_df, top_crimes, first>>

Filter ==
    /\ pc = "filter"
    /\ filtered_df' = ApplyFilters(df, year_range, selected_crime)
    /\ pc' = "overview"
    /\ UNCHANGED <<remote, file, cache, downloads, other, argsort, widget, df,
                   year_range, selected_crime, shape, yearly_counts, map_df,
                   top_crimes, first>>

Overview ==
    /\ pc = "overview"
    /\ shape' = Shape(filtered_df)
    /\ pc' = "temporal"
    /\ UNCHANGED <<remote, file, cache, downloads, other, argsort, widget, df,
                   year_range, selected_crime, filtered_df, yearly_counts, map_df,
                   top_crimes, first>>

Temporal ==
    /\ pc = "temporal"
    /\ yearly_counts' = YearlyCounts(filtered_df)
    /\ pc' = "spatial"
    /\ UNCHANGED <<remote, file, cache, downloads, other, argsort, widget, df,
                   year_range, selected_crime, filtered_df, shape, map_df,
                   top_crimes, first>>

Spatial ==
    /\ pc = "spatial"
    /\ map_df' = MapDf(filtered_df)
    /\ pc' = "top"
    /\ UNCHANGED <<remote, file, cache, downloads, other, argsort, widget, df,
                   year_range, selected_crime, filtered_df, shape, yearly_counts,
                   top_crimes, first>>

\* mutant of ShowsTop: the section is not guarded
ShowsTopAlways(crime) == TRUE

\* the guard of the top-5 section
ShowsTop(crime) == crime = ALL

\* the orders the sort gives the counts: the one it gave them before, or, the
\* first time, any descending one
Orders(counts) ==
    IF \E s \in argsort : s.counts = counts
    THEN {s.order : s \in {x \in argsort : x.counts = counts}}
    ELSE Argsorts(counts, DOMAIN counts)

TopFive ==
    /\ pc = "top"
    /\ IF ShowsTop(selected_crime)
       THEN LET counts == Counts(filtered_df) IN
            \E order \in Orders(counts) :
               /\ top_crimes' = TopCrimes(filtered_df, order)
               /\ argsort' = IF Tied(counts)
                             THEN argsort \cup {[counts |-> counts, order |-> order]}
                             ELSE argsort
       ELSE UNCHANGED <<top_crimes, argsort>>
    /\ pc' = "footer"
    /\ UNCHANGED <<remote, file, cache, downloads, other, widget, df, year_range,
                   selected_crime, filtered_df, shape, yearly_counts, map_df, first>>

Footer ==
    /\ pc = "footer"
    /\ pc' = "done"
    /\ first' = IF first = Undefined THEN Views ELSE first
    /\ UNCHANGED <<remote, file, cache, downloads, other, argsort, widget, namespace>>

\* the user moves the slider, picks a crime type or asks for a rerun
Interact ==
    /\ pc = "done"
    /\ \E yr \in SliderValues(df), crime \in SelectboxValues(df) :
          widget' = [year_range |-> yr, selected_crime |-> crime]
    /\ pc' = "load"
    /\ FreshNamespace
    /\ UNCHANGED <<remote, file, cache, downloads, other, argsort, first>>

\* the server process is started again: an empty cache, a new session
Restart ==
    /\ pc = "done"
    /\ cache' = NoEntry
    /\ widget' = NoChoice
    /\ pc' = "load"
    /\ FreshNamespace
    /\ UNCHANGED <<remote, file, downloads, other, argsort, first>>

\* after a failed load the page is loaded again
Retry ==
    /\ pc = "error"
    /\ pc' = "load"
    /\ FreshNamespace
    /\ UNCHANGED <<remote, file, cache, downloads, other, argsort, widget, first>>

Next ==
    \/ LoadData
    \/ Download
    \/ Read
    \/ Store
    \/ LoadDataCached
    \/ OtherLoadData
    \/ OtherDownload
    \/ Sidebar
    \/ Filter
    \/ Overview
    \/ Temporal
    \/ Spatial
    \/ TopFive
    \/ Footer
    \/ Interact
    \/ Restart
    \/ Retry

Spec == Init /\ [][Next]_vars

(***************************************************************************)
(* Vocabulary of the properties                                            *)
(***************************************************************************)
Defined(x) == x # Undefined

Finished == pc = "done"

InYears(b) == year_range[1] <= b.Year /\ b.Year <= year_range[2]

\* the row predicate of the filtered view
Selected(b) == InYears(b) /\ (selected_crime = ALL \/ b.PrimaryType = selected_crime)

Holds(rows, b) == \E j \in DOMAIN rows : rows[j] = b

\* the blocks lie in the order of their index labels, none overlapping
InIndexOrder(rows) ==
    \A j, k \in DOMAIN rows : j < k => rows[j].idx + rows[j].n <= rows[k].idx

Located(b) == b.Latitude # NaN /\ b.Longitude # NaN

\* the filtered rows with both coordinates, as the set of their positions
LocatedAt == {i \in DOMAIN filtered_df.rows : Located(filtered_df.rows[i])}

RECURSIVE SumOver(_, _)
\* the rows held by the blocks at the positions I
SumOver(rows, I) ==
    IF I = {} THEN 0
    ELSE LET i == CHOOSE x \in I : TRUE IN rows[i].n + SumOver(rows, I \ {i})

NLocated == SumOver(filtered_df.rows, LocatedAt)

RowsOfYear(y) ==
    SumOver(filtered_df.rows, {i \in DOMAIN filtered_df.rows : filtered_df.rows[i].Year = y})

RowsOfType(t) ==
    SumOver(filtered_df.rows,
            {i \in DOMAIN filtered_df.rows : filtered_df.rows[i].PrimaryType = t})

RECURSIVE SumCounts(_)
SumCounts(entries) ==
    IF entries = <<>> THEN 0 ELSE Head(entries).CrimeCount + SumCounts(Tail(entries))

(***************************************************************************)
(* C1: a row of the dataset is in the filtered view exactly when its year  *)
(* lies in the selected range and the selection is "All" or its category;  *)
(* the view holds no other row and keeps the dataset's order.              *)
(***************************************************************************)
FilterCorrect ==
    Defined(filtered_df) =>
        /\ \A i \in DOMAIN df.rows :
              Holds(filtered_df.rows, df.rows[i]) <=> Selected(df.rows[i])
        /\ \A j \in DOMAIN filtered_df.rows : Holds(df.rows, filtered_df.rows[j])
        /\ InIndexOrder(filtered_df.rows)

FilterCorrectWitness ==
    /\ Defined(filtered_df)
    /\ selected_crime # ALL
    /\ Len(filtered_df.rows) >= 1
    /\ \E i \in DOMAIN df.rows : InYears(df.rows[i]) /\ ~Selected(df.rows[i])
    /\ \E i \in DOMAIN df.rows : ~InYears(df.rows[i])

(***************************************************************************)
(* C2: the crime counts of yearly_counts add up to the number of rows of   *)
(* the filtered view.                                                      *)
(***************************************************************************)
CountConsistent ==
    Defined(yearly_counts) => SumCounts(yearly_counts.rows) = NRows(filtered_df)

CountConsistentWitness ==
    /\ Defined(yearly_counts)
    /\ Len(yearly_counts.rows) >= 2
    /\ NRows(filtered_df) > Len(filtered_df.rows)
    /\ NRows(filtered_df) < NRows(df)

\* the frame lengths above MAP_SAMPLE_SIZE that the files of the model reach
LargeTotals == {MAP_SAMPLE_SIZE + 1, MAP_SAMPLE_SIZE + 2}

\* the lengths at which sample(50000, random_state=42) takes 50000 positions of
\* the frame, no position twice
WithoutReplacement ==
    {total \in LargeTotals :
        LET locs == Choice(total, MAP_SAMPLE_SIZE, random_state) IN
        /\ Len(locs) = MAP_SAMPLE_SIZE
        /\ \A j \in DOMAIN locs : locs[j] \in 0..(total - 1)
        /\ Cardinality({locs[j] : j \in DOMAIN locs}) = Len(locs)}

\* the blocks of map_df are the located blocks of the filtered view, in order
HoldsLocated ==
    /\ Len(map_df.rows) = Cardinality(LocatedAt)
    /\ \A i \in LocatedAt :
          \E j \in DOMAIN map_df.rows :
             /\ map_df.rows[j].idx = filtered_df.rows[i].idx
             /\ map_df.rows[j].n = filtered_df.rows[i].n
    /\ InIndexOrder(map_df.rows)

(***************************************************************************)
(* C3: the map sample has at most min(located rows, 50000) rows; up to     *)
(* 50000 located rows it is exactly those rows in their order, and above   *)
(* it is 50000 rows of them at distinct positions.                         *)
(***************************************************************************)
SampleBounded ==
    Defined(map_df) =>
        /\ NRows(map_df) <= Min(NLocated, MAP_SAMPLE_SIZE)
        /\ HoldsLocated
        /\ NLocated <= MAP_SAMPLE_SIZE => ~Sampled(map_df)
        /\ NLocated > MAP_SAMPLE_SIZE =>
              /\ Sampled(map_df)
              /\ NRows(map_df) = MAP_SAMPLE_SIZE
              /\ Len(Locs(map_df)) = NRows(map_df)
              /\ SumN(map_df.rows) \in WithoutReplacement

\* 25001 located rows, 25000 rows without latitude and 25001 located rows:
\* the sample starts with the rows labelled 50272, 22815 and 52404
SampleBoundedWitness ==
    /\ Defined(map_df)
    /\ NLocated = MAP_SAMPLE_SIZE + 2
    /\ NRows(filtered_df) > NLocated
    /\ NRows(map_df) = MAP_SAMPLE_SIZE
    /\ RowLabel(map_df, 1) = 50272
    /\ RowLabel(map_df, 2) = 22815
    /\ RowLabel(map_df, 3) = 52404

\* 50001 located rows: the sample starts with rows 33553, 9427 and 199
SampleOneOverWitness ==
    /\ Defined(map_df)
    /\ NLocated = MAP_SAMPLE_SIZE + 1
    /\ NRows(filtered_df) = NLocated
    /\ RowLabel(map_df, 1) = 33553
    /\ RowLabel(map_df, 2) = 9427
    /\ RowLabel(map_df, 3) = 199

\* the boundary of C3: exactly 50000 located rows are all shown, unsampled
SampleAtCapWitness ==
    /\ Defined(map_df)
    /\ NLocated = MAP_SAMPLE_SIZE
    /\ NRows(map_df) = MAP_SAMPLE_SIZE
    /\ ~Sampled(map_df)

Returned == {top_crimes.rows[j].PrimaryType : j \in DOMAIN top_crimes.rows}

FilteredTypes == {filtered_df.rows[i].PrimaryType : i \in DOMAIN filtered_df.rows} \ {NaN}

(***************************************************************************)
(* C4: with the selection "All", top_crimes has at most 5 entries in       *)
(* descending count order, each count is the number of filtered rows of    *)
(* that category, and no category left out counts more than one returned.  *)
(***************************************************************************)
TopFiveCorrect ==
    (Defined(top_crimes) /\ selected_crime = ALL) =>
        /\ Len(top_crimes.rows) <= 5
        /\ \A j, k \in DOMAIN top_crimes.rows :
              j < k => top_crimes.rows[j].count >= top_crimes.rows[k].count
        /\ \A j \in DOMAIN top_crimes.rows :
              top_crimes.rows[j].count = RowsOfType(top_crimes.rows[j].PrimaryType)
        /\ \A j \in DOMAIN top_crimes.rows :
              \A t \in FilteredTypes \ Returned :
                 top_crimes.rows[j].count >= RowsOfType(t)

TopFiveCorrectWitness ==
    /\ Defined(top_crimes)
    /\ selected_crime = ALL
    /\ Len(top_crimes.rows) = 5
    /\ FilteredTypes \ Returned # {}
    /\ \E j, k \in DOMAIN top_crimes.rows :
          top_crimes.rows[j].count > top_crimes.rows[k].count
    /\ \E j \in DOMAIN top_crimes.rows, t \in FilteredTypes \ Returned :
          top_crimes.rows[j].count > RowsOfType(t)

\* a tie at the fifth place: of two categories that count the same, the one
\* that appears first in the data is left out and the later one is returned
TieAtCutWitness ==
    /\ Defined(top_crimes)
    /\ Len(top_crimes.rows) = HEAD_N
    /\ LET keys == FirstSeen(filtered_df.rows, {}) IN
       \E j, k \in DOMAIN keys :
          /\ j < k
          /\ keys[j] \notin Returned
          /\ keys[k] \in Returned
          /\ RowsOfType(keys[j]) = RowsOfType(keys[k])

\* the same tie, with the category that appears first returned
TieAtCutStableWitness ==
    /\ Defined(top_crimes)
    /\ Len(top_crimes.rows) = HEAD_N
    /\ LET keys == FirstSeen(filtered_df.rows, {}) IN
       \E j, k \in DOMAIN keys :
          /\ j < k
          /\ keys[j] \in Returned
          /\ keys[k] \notin Returned
          /\ RowsOfType(keys[j]) = RowsOfType(keys[k])

CurrentFilter ==
    IF widget = NoChoice
    THEN [year_range |-> <<MinYear(df), MaxYear(df)>>, selected_crime |-> ALL]
    ELSE widget

(***************************************************************************)
(* C5: at the end of every run, whatever runs came before it, each view is *)
(* what the dataset and the current filter state alone give (top_crimes    *)
(* up to the order of equal counts), and a run with the filter state of    *)
(* the first run shows the first run's views, sampled rows included.       *)
(***************************************************************************)
ViewsFromInputsAlone ==
    Finished =>
        /\ df = ReadCsv(file)
        /\ year_range = CurrentFilter.year_range
        /\ selected_crime = CurrentFilter.selected_crime
        /\ FilterCorrect
        /\ shape = <<NRows(filtered_df), Len(df.columns)>>
        /\ yearly_counts = YearlyCounts(filtered_df)
        /\ map_df = MapDf(filtered_df)
        /\ Defined(top_crimes) =>
              /\ CurrentFilter.selected_crime = ALL
              /\ \E order \in Argsorts(Counts(filtered_df), DOMAIN Counts(filtered_df)) :
                    top_crimes = TopCrimes(filtered_df, order)
        /\ (first.year_range = year_range /\ first.selected_crime = selected_crime)
              => Views = first

ViewsFromInputsAloneWitness ==
    /\ Finished
    /\ widget # NoChoice
    /\ first.year_range = year_range
    /\ first.selected_crime = selected_crime
    /\ NLocated > MAP_SAMPLE_SIZE
    /\ Defined(top_crimes)

\* a rerun with the first run's filter state, over counts that tie: the
\* sort gives equal counts the order it gave them in the first run
SameTieOrderWitness ==
    /\ Finished
    /\ widget # NoChoice
    /\ first.year_range = year_range
    /\ first.selected_crime = selected_crime
    /\ Defined(top_crimes)
    /\ Tied(Counts(filtered_df))
    /\ Len(top_crimes.rows) = HEAD_N
    /\ top_crimes = first.top_crimes

(***************************************************************************)
(* C6: filters that exclude every row lead to no error: the filtered view  *)
(* is empty, the row count is 0 with the dataset's column count, and       *)
(* yearly_counts, the map sample and top categories are empty.             *)
(***************************************************************************)
EmptyIsNoError ==
    (Defined(filtered_df) /\ NRows(filtered_df) = 0) =>
        /\ pc # "error"
        /\ filtered_df.rows = <<>>
        /\ shape # <<>> => shape = <<0, Len(df.columns)>>
        /\ Defined(yearly_counts) => yearly_counts.rows = <<>>
        /\ Defined(map_df) => map_df.rows = <<>>
        /\ Defined(top_crimes) => top_crimes.rows = <<>>
        /\ Finished => shape # <<>> /\ Defined(yearly_counts) /\ Defined(map_df)

EmptyIsNoErrorWitness ==
    /\ Finished
    /\ selected_crime # ALL
    /\ NRows(filtered_df) = 0
    /\ \E i \in DOMAIN df.rows : df.rows[i].PrimaryType = selected_crime
    /\ \E i \in DOMAIN df.rows : InYears(df.rows[i])

\* the other way to an empty view: "All" and a year range between the data
EmptyUnderAllWitness ==
    /\ Finished
    /\ selected_crime = ALL
    /\ NRows(filtered_df) = 0
    /\ Defined(top_crimes)

Incomplete(b) == b.PrimaryType = NaN \/ b.Latitude = NaN \/ b.Longitude = NaN

(***************************************************************************)
(* C7: rows with a missing category or coordinate stay in the filtered     *)
(* view under "All" when their year is in range and are counted in the row *)
(* count and in yearly_counts; a row without latitude or longitude is      *)
(* never in the map sample (the sample is taken from located rows only, at *)
(* positions within them); a row without category is in no top entry.      *)
(***************************************************************************)
MissingTolerated ==
    Finished =>
        /\ \A i \in DOMAIN df.rows :
              (Incomplete(df.rows[i]) /\ InYears(df.rows[i]) /\ selected_crime = ALL)
                 => Holds(filtered_df.rows, df.rows[i])
        /\ shape[1] = SumOver(filtered_df.rows, DOMAIN filtered_df.rows)
        /\ \A y \in YearsOf(filtered_df) :
              \E e \in DOMAIN yearly_counts.rows :
                 /\ yearly_counts.rows[e].Year = y
                 /\ yearly_counts.rows[e].CrimeCount = RowsOfYear(y)
        /\ \A j \in DOMAIN map_df.rows :
              /\ map_df.rows[j].lat # NaN
              /\ map_df.rows[j].lon # NaN
              /\ \A i \in DOMAIN filtered_df.rows :
                    ~Located(filtered_df.rows[i]) =>
                       \/ map_df.rows[j].idx + map_df.rows[j].n <= filtered_df.rows[i].idx
                       \/ filtered_df.rows[i].idx + filtered_df.rows[i].n <= map_df.rows[j].idx
        /\ Sampled(map_df) => SumN(map_df.rows) \in WithoutReplacement
        /\ Defined(top_crimes) =>
              \A j \in DOMAIN top_crimes.rows :
                 /\ top_crimes.rows[j].PrimaryType # NaN
                 /\ top_crimes.rows[j].count = RowsOfType(top_crimes.rows[j].PrimaryType)

MissingToleratedWitness ==
    /\ Finished
    /\ selected_crime = ALL
    /\ \E i \in DOMAIN filtered_df.rows : filtered_df.rows[i].PrimaryType = NaN
    /\ \E i \in DOMAIN filtered_df.rows :
          filtered_df.rows[i].Latitude = NaN /\ filtered_df.rows[i].Longitude # NaN
    /\ \E i \in DOMAIN filtered_df.rows :
          filtered_df.rows[i].Longitude = NaN /\ filtered_df.rows[i].Latitude # NaN
    /\ top_crimes.rows # <<>>

(***************************************************************************)
(* C8: yearly_counts has exactly one entry for each year present in the    *)
(* filtered view and for no other year, each within the selected range and *)
(* counting that year's filtered rows, in strictly ascending year order.   *)
(***************************************************************************)
YearlyExact ==
    Defined(yearly_counts) =>
        /\ {yearly_counts.rows[e].Year : e \in DOMAIN yearly_counts.rows}
              = YearsOf(filtered_df)
        /\ \A e \in DOMAIN yearly_counts.rows :
              /\ yearly_counts.rows[e].CrimeCount = RowsOfYear(yearly_counts.rows[e].Year)
              /\ yearly_counts.rows[e].CrimeCount > 0
              /\ year_range[1] <= yearly_counts.rows[e].Year
              /\ yearly_counts.rows[e].Year <= year_range[2]
        /\ \A e, g \in DOMAIN yearly_counts.rows :
              e < g => yearly_counts.rows[e].Year < yearly_counts.rows[g].Year

YearlyExactWitness ==
    /\ Defined(yearly_counts)
    /\ Len(yearly_counts.rows) = 2
    /\ yearly_counts.rows[1].Year + 1 < yearly_counts.rows[2].Year
    /\ yearly_counts.rows[1].CrimeCount # yearly_counts.rows[2].CrimeCount
    /\ filtered_df.rows[1].Year > filtered_df.rows[Len(filtered_df.rows)].Year

Restricted ==
    \E i \in DOMAIN df.rows : InYears(df.rows[i]) /\ ~Holds(filtered_df.rows, df.rows[i])

(***************************************************************************)
(* C9: the category filter is applied exactly when the selection is not    *)
(* "All" and top_crimes is computed exactly when it is "All": the top-5    *)
(* view is never taken from a category-restricted view and always from an  *)
(* unrestricted one.                                                       *)
(***************************************************************************)
TopOnlyUnrestricted ==
    Finished =>
        /\ Defined(top_crimes) <=> selected_crime = ALL
        /\ selected_crime = ALL => ~Restricted
        /\ selected_crime # ALL =>
              \A j \in DOMAIN filtered_df.rows :
                 filtered_df.rows[j].PrimaryType = selected_crime
        /\ Defined(top_crimes) => ~Restricted

TopOnlyUnrestrictedWitness ==
    /\ Finished
    /\ selected_crime # ALL
    /\ Restricted
    /\ filtered_df.rows # <<>>
    /\ ~Defined(top_crimes)
    /\ Defined(first.top_crimes)

(***************************************************************************)
(* C10: gdown.download is called only by a call of load_data that found no *)
(* file at CSV_PATH; a call of load_data made while the file exists goes   *)
(* on to no download; the frame that load_data computes is parsed from the *)
(* file at CSV_PATH, whether or not the call downloaded.                   *)
(***************************************************************************)
DownloadOnlyIfAbsent ==
    [][/\ downloads' # downloads =>
             \/ pc = "download" /\ pc' # "download" /\ other' = other
             \/ other = "download" /\ other' = "idle" /\ pc' = pc
       /\ (pc # "download" /\ pc' = "download") =>
             (pc = "load" /\ ~cache.cached /\ ~file.exists)
       /\ (other # "download" /\ other' = "download") => ~file.exists
       /\ (pc = "load" /\ file.exists) => pc' # "download"
       /\ (pc = "read" /\ pc' = "store") => (file.exists /\ df' = ReadCsv(file))
       /\ (pc' = "sidebar" /\ pc # "sidebar") =>
             (cache'.cached /\ df' = cache'.value /\ df' = ReadCsv(file))]_vars

\* load_data ran again after a restart, with the downloaded file in place
DownloadOnlyIfAbsentWitness ==
    /\ pc = "store"
    /\ Defined(first)
    /\ widget = NoChoice
    /\ ~cache.cached
    /\ other = "idle"
    /\ downloads = 1
    /\ file = remote
    /\ df = ReadCsv(file)

\* load_data ran with a file that was there from the start
LocalFileWitness ==
    /\ pc = "sidebar"
    /\ downloads = 0
    /\ file # remote
    /\ df = ReadCsv(file)

\* a call that found no file is about to download although the file is there
\* by now, written by the download of the other process
LateDownloadWitness ==
    /\ pc = "download"
    /\ file.exists
    /\ downloads = 1

\* after a failed download the frame is parsed from the file that the other
\* process has written
ReadAfterFailureWitness ==
    /\ pc = "store"
    /\ downloads = MaxDownloads
    /\ df = ReadCsv(file)
    /\ ~Defined(first)

====
